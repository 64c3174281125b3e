--------------------------- MODULE IngestJSONProofs ---------------------------
(***************************************************************************)
(* What IngestProofs proves of ingestion holds of any mixture of documents *)
(* and typed batches, nothing that a document says is lost, and a batch    *)
(* survives its canonical JSON.                                            *)
(***************************************************************************)
EXTENDS IngestJSON, IngestProofs, SequenceLemmas

\* The steps of IngestJSON are those of Ingest; a document that is refused does
\* nothing.
LEMMA DocumentStep == [JNext]_jvars => [Next]_vars
<1>. SUFFICES ASSUME [JNext]_jvars PROVE [Next]_vars
  OBVIOUS
<1>1. CASE IngestTyped
  BY <1>1 DEF IngestTyped, Next
<1>2. ASSUME NEW d \in Documents, ParseJSON(d)
      PROVE  [Next]_vars
  <2>1. CASE decodeStrict(d) /\ Call(Batch(d), FALSE)
    <3>1. Batch(d) \in Batches \ LargeTexts
      BY <2>1, IngestJSONAssumption
    <3>. QED BY <2>1, <3>1 DEF Next
  <2>2. CASE UNCHANGED vars
    BY <2>2
  <2>. QED BY <1>2, <2>1, <2>2 DEF ParseJSON
<1>3. CASE Proceed
  BY <1>3 DEF Proceed, Next
<1>4. CASE UNCHANGED jvars
  BY <1>4 DEF jvars, vars
<1>. QED BY <1>1, <1>2, <1>3, <1>4 DEF JNext

LEMMA DocumentsImplementBatches == JSpec => Spec
<1>1. JInit => Init
  BY DEF JInit
<1>. QED BY <1>1, DocumentStep, PTL DEF JSpec, Spec

\* The store tells the same consistent and honest provenance, and repeats are
\* harmless, whether its batches came as documents or as typed values.
THEOREM DocumentsKeepProvenance ==
  JSpec => [](AssertedIsAccepted /\ ProvenanceIsFunctional /\ NothingStoredTwice
              /\ OneEntityPerClaim)
<1>1. Spec => []AssertedIsAccepted
  BY AssertedIsAcceptedHolds
<1>2. Spec => []ProvenanceIsFunctional
  BY ProvenanceIsFunctionalHolds
<1>3. Spec => []NothingStoredTwice
  BY NothingStoredTwiceHolds
<1>4. Spec => []OneEntityPerClaim
  BY OneEntityPerClaimHolds
<1>. QED BY <1>1, <1>2, <1>3, <1>4, DocumentsImplementBatches, PTL

-----------------------------------------------------------------------------
(***************************************************************************)
(* What a document says is what is ingested                                *)
(***************************************************************************)
\* The batch under way is that of the document, if it came with one.
DocumentInv ==
  /\ verdict \in {"none", "accepted", "refused"}
  /\ verdict = "accepted" =>
       /\ document \in Documents /\ decodeStrict(document)
       /\ phase # "idle" => batch = Batch(document)
  /\ verdict = "refused" => ~decodeStrict(document)

LEMMA InitDocument == JInit => DocumentInv
BY DEF JInit, DocumentInv

LEMMA NextDocument == DocumentInv /\ [JNext]_jvars => DocumentInv'
<1>. SUFFICES ASSUME DocumentInv, [JNext]_jvars PROVE DocumentInv'
  OBVIOUS
<1>1. CASE IngestTyped
  BY <1>1 DEF IngestTyped, DocumentInv
<1>2. ASSUME NEW d \in Documents, ParseJSON(d)
      PROVE  DocumentInv'
  BY <1>2 DEF ParseJSON, Call, DocumentInv, vars
<1>3. CASE Proceed
  <2>1. phase # "idle" /\ batch' = batch
    BY <1>3 DEF Proceed, CheckHeader, CheckClaim, CheckUnique, Canonicalize, CompileClaim,
                NextLoop, Submit, Execute, Lost
  <2>2. UNCHANGED <<document, verdict>>
    BY <1>3 DEF Proceed
  <2>. QED BY <2>1, <2>2 DEF DocumentInv
<1>4. CASE UNCHANGED jvars
  BY <1>4 DEF jvars, DocumentInv
<1>. QED BY <1>1, <1>2, <1>3, <1>4 DEF JNext

LEMMA AlwaysDocument == JSpec => []DocumentInv
<1>. QED BY InitDocument, NextDocument, PTL DEF JSpec

Listed(d) == d.members \in Seq({d.members[n] : n \in DOMAIN d.members})

\* The last member for a field is the one that stays.
LEMMA LastMember ==
  ASSUME NEW d, Listed(d), NEW n \in DOMAIN d.members, NEW zero,
         \A k \in DOMAIN d.members :
           d.members[k].of = d.members[n].of /\ d.members[k].name = d.members[n].name => k <= n
  PROVE  field(d, d.members[n].of, d.members[n].name, zero) = d.members[n].value[2]
<1>. DEFINE of == d.members[n].of
            name == d.members[n].name
            at == {k \in DOMAIN d.members : d.members[k].of = of /\ d.members[k].name = name}
            last == CHOOSE k \in at : \A j \in at : j <= k
<1>1. DOMAIN d.members \subseteq Nat
  BY DEF Listed
<1>2. n \in at /\ \A k \in at : k <= n
  OBVIOUS
<1>3. last \in at /\ \A k \in at : k <= last
  BY <1>2, Zenon
<1>4. last = n
  <2>1. last \in Nat /\ n \in Nat /\ last <= n /\ n <= last
    BY <1>1, <1>2, <1>3
  <2>. QED BY <2>1
<1>5. field(d, of, name, zero) = d.members[last].value[2]
  BY <1>2 DEF field
<1>. QED BY <1>4, <1>5

\* Objects of a document.
Object(d, of) ==
  \/ of = Root \/ of = <<"producer">>
  \/ of \in {<<"source">>, <<"artifact">>} /\ present(d, Root, "source")
  \/ \E k \in 1..field(d, Root, "claims", 0) : of = ClaimAt(k)

LEMMA PlacesNamed ==
  ASSUME NEW b, NEW k
  PROVE  /\ Place(b, Root, "profile") = b.profile
         /\ Place(b, Root, "claims") = Len(b.claims)
         /\ Place(b, <<"producer">>, "name") = b.producer.name
         /\ Place(b, <<"producer">>, "schema_identity") = b.producer.schema
         /\ Place(b, <<"producer">>, "run_id") = b.run
         /\ Place(b, <<"source">>, "digest") = b.source[1].digest
         /\ Place(b, <<"source">>, "media_type") = b.source[1].media
         /\ Place(b, <<"artifact">>, "mode") = b.source[1].mode
         /\ Place(b, <<"artifact">>, "uri") = b.source[1].uri
         /\ Place(b, ClaimAt(k), "external_id") = b.claims[k].external
         /\ Place(b, ClaimAt(k), "subject") = b.claims[k].subject
         /\ Place(b, ClaimAt(k), "predicate") = b.claims[k].predicate
         /\ Place(b, ClaimAt(k), "object") = b.claims[k].object
         /\ Place(b, ClaimAt(k), "confidence_ppm") = b.claims[k].confidence[1]
         /\ Place(b, ClaimAt(k), "evidence") = b.claims[k].evidence
<1>1. ClaimAt(k)[2] = k
  BY DEF ClaimAt
<1>. QED BY <1>1 DEF Place, Root
\* Each place of a batch is filled from the field of that name.
LEMMA PlacesFilled ==
  ASSUME NEW d, NEW of, Object(d, of), NEW name \in fields(of), present(d, of, name),
         name \notin {"producer", "source", "artifact"},
         field(d, Root, "claims", 0) \in Nat
  PROVE  \E zero : Place(Batch(d), of, name) = field(d, of, name, zero)
<1>. DEFINE b == Batch(d)
<1>1. CASE of = Root
  <2>1. name = "profile" \/ name = "claims"
    BY <1>1 DEF fields, Root
  <2>2. b.profile = field(d, Root, "profile", "") /\ Len(b.claims) = field(d, Root, "claims", 0)
    BY DEF decode, Batch
  <2>. QED BY <1>1, <2>1, <2>2, PlacesNamed
<1>2. CASE of = <<"producer">>
  <2>1. name \in {"name", "schema_identity", "run_id"}
    BY <1>2 DEF fields, Root
  <2>2. /\ b.producer.name = field(d, of, "name", "")
        /\ b.producer.schema = field(d, of, "schema_identity", "")
        /\ b.run = field(d, of, "run_id", "")
    BY <1>2 DEF decode, Batch
  <2>. QED BY <1>2, <2>1, <2>2, PlacesNamed
<1>3. CASE of \in {<<"source">>, <<"artifact">>} /\ present(d, Root, "source")
  <2>. DEFINE r == b.source[1]
  <2>1. r = [digest |-> field(d, <<"source">>, "digest", ""),
             media |-> field(d, <<"source">>, "media_type", ""),
             mode |-> field(d, <<"artifact">>, "mode", ""),
             uri |-> field(d, <<"artifact">>, "uri", FALSE)]
    BY <1>3 DEF decode, Batch
  <2>. HIDE DEF r
  <2>2. /\ r.digest = field(d, <<"source">>, "digest", "")
        /\ r.media = field(d, <<"source">>, "media_type", "")
        /\ r.mode = field(d, <<"artifact">>, "mode", "")
        /\ r.uri = field(d, <<"artifact">>, "uri", FALSE)
    BY <2>1
  <2>3. CASE of = <<"source">>
    <3>1. name = "digest" \/ name = "media_type"
      BY <2>3 DEF fields, Root
    <3>2. Place(b, of, "digest") = r.digest /\ Place(b, of, "media_type") = r.media
      BY <2>3, PlacesNamed DEF r
    <3>. QED BY <2>2, <2>3, <3>1, <3>2
  <2>4. CASE of = <<"artifact">>
    <3>1. name = "mode" \/ name = "uri"
      BY <2>4 DEF fields, Root
    <3>2. Place(b, of, "mode") = r.mode /\ Place(b, of, "uri") = r.uri
      BY <2>4, PlacesNamed DEF r
    <3>. QED BY <2>2, <2>4, <3>1, <3>2
  <2>. QED BY <1>3, <2>3, <2>4
<1>4. ASSUME NEW k \in 1..field(d, Root, "claims", 0), of = ClaimAt(k)
      PROVE  \E zero : Place(b, of, name) = field(d, of, name, zero)
  <2>. DEFINE r == b.claims[k]
  <2>1. r = [external |-> field(d, of, "external_id", ""),
             subject |-> field(d, of, "subject", Missing),
             predicate |-> field(d, of, "predicate", Missing),
             object |-> field(d, of, "object", Missing),
             confidence |-> optional(d, of, "confidence_ppm"),
             evidence |-> field(d, of, "evidence", <<>>)]
    BY <1>4 DEF decode, Batch
  <2>2. name \in {"external_id", "subject", "predicate", "object", "confidence_ppm", "evidence"}
    BY <1>4 DEF fields, ClaimAt, Root
  <2>3. /\ Place(b, of, "external_id") = r.external /\ Place(b, of, "subject") = r.subject
        /\ Place(b, of, "predicate") = r.predicate /\ Place(b, of, "object") = r.object
        /\ Place(b, of, "confidence_ppm") = r.confidence[1]
        /\ Place(b, of, "evidence") = r.evidence
    BY <1>4, PlacesNamed
  <2>. HIDE DEF r
  <2>4. /\ r.external = field(d, of, "external_id", "")
        /\ r.subject = field(d, of, "subject", Missing)
        /\ r.predicate = field(d, of, "predicate", Missing)
        /\ r.object = field(d, of, "object", Missing)
        /\ r.evidence = field(d, of, "evidence", <<>>)
        /\ r.confidence = optional(d, of, "confidence_ppm")
    BY <2>1
  <2>5. name = "confidence_ppm" => r.confidence[1] = field(d, of, "confidence_ppm", "")
    <3>. SUFFICES ASSUME name = "confidence_ppm"
                  PROVE  r.confidence[1] = field(d, of, "confidence_ppm", "")
      OBVIOUS
    <3>. DEFINE x == field(d, of, "confidence_ppm", "")
                c == r.confidence
    <3>1. c = optional(d, of, "confidence_ppm")
      BY <2>4
    <3>2. optional(d, of, "confidence_ppm") = <<x>>
      BY DEF optional
    <3>. HIDE DEF x, c
    <3>3. c[1] = x
      BY <3>1, <3>2
    <3>. QED BY <3>3 DEF x, c
  <2>. HIDE DEF b
  <2>. QED BY <2>2, <2>3, <2>4, <2>5 DEF b
<1>. QED BY <1>1, <1>2, <1>3, <1>4 DEF Object

\* What the assumption on documents gives of one that is accepted.
LEMMA AcceptedDocument ==
  ASSUME NEW d \in Documents, decodeStrict(d), NEW n \in DOMAIN d.members
  PROVE  LET m == d.members[n] IN
         /\ Listed(d) /\ DOMAIN d.members \subseteq Nat
         /\ Object(d, m.of) /\ m.name \in fields(m.of)
         /\ m.value # Nested =>
              /\ m.name \notin {"producer", "source", "artifact"}
              /\ m.value = Given(m.value[2])
         /\ \A k \in DOMAIN d.members :
              k > n /\ d.members[k].of = m.of /\ d.members[k].name = m.name =>
                d.members[k].spelled # m.spelled
<1>. DEFINE m == d.members[n]
<1>1. Listed(d) /\ Nests(d)
  BY IngestJSONAssumption DEF Listed
<1>2. \E k \in Nat : DOMAIN d.members = 1..k
  BY <1>1 DEF Listed
<1>3. m.name \in fields(m.of)
  BY DEF decodeStrict
<1>4. Object(d, m.of)
  BY <1>1 DEF Nests, Object
<1>5. m.value = IF m.name \in {"producer", "source", "artifact"} THEN Nested
                ELSE Given(m.value[2])
  BY <1>1 DEF Nests
<1>6. ASSUME NEW k \in DOMAIN d.members, k > n, d.members[k].of = m.of, d.members[k].name = m.name
      PROVE  d.members[k].spelled # m.spelled
  <2>. SUFFICES ASSUME d.members[k].spelled = m.spelled PROVE FALSE
    OBVIOUS
  <2>1. n \in 1..k - 1
    BY <1>2, <1>6
  <2>2. d.members[n].of = d.members[k].of /\ d.members[n].spelled = d.members[k].spelled
    BY <1>6
  <2>3. d.members[k] \in inspectJSON(d)
    BY <2>1, <2>2 DEF inspectJSON
  <2>. QED BY <2>3 DEF decodeStrict
<1>. HIDE DEF m
<1>. QED BY <1>1, <1>2, <1>3, <1>4, <1>5, <1>6 DEF m

LEMMA ClaimsCounted ==
  ASSUME NEW d \in Documents, decodeStrict(d)
  PROVE  field(d, Root, "claims", 0) \in Nat
<1>1. CASE present(d, Root, "claims")
  <2>1. PICK n \in DOMAIN d.members : d.members[n].of = Root /\ d.members[n].name = "claims"
    BY <1>1 DEF present
  <2>2. DOMAIN d.members \subseteq Nat /\ Listed(d)
    BY <2>1, AcceptedDocument
  <2>3. \A k \in DOMAIN d.members : d.members[k].name = "claims" =>
          d.members[k].spelled = "claims" /\ d.members[k].value[2] \in Nat
    <3>1. ASSUME NEW k \in DOMAIN d.members, d.members[k].name = "claims"
          PROVE  d.members[k].spelled = "claims"
      <4>. DEFINE m == d.members[k]
                  M == {d.members[j] : j \in DOMAIN d.members}
      <4>1. m \in M
        OBVIOUS
      <4>2. \A q \in M : q.value = Nested \/ q.name = "claims" => q.spelled = q.name
        BY IngestJSONAssumption
      <4>. HIDE DEF m, M
      <4>3. m.name = "claims"
        BY <3>1 DEF m
      <4>4. m.spelled = m.name
        BY <4>1, <4>2, <4>3
      <4>. QED BY <4>3, <4>4 DEF m
    <3>2. Nests(d)
      BY IngestJSONAssumption
    <3>. QED BY <3>1, <3>2 DEF Nests
  <2>4. ASSUME NEW k \in DOMAIN d.members,
               d.members[k].of = d.members[n].of, d.members[k].name = d.members[n].name
        PROVE  k <= n
    <3>1. k > n => d.members[k].spelled # d.members[n].spelled
      BY <2>4, AcceptedDocument
    <3>2. d.members[k].spelled = "claims" /\ d.members[n].spelled = "claims"
      BY <2>1, <2>3, <2>4
    <3>3. d.members[k].spelled = d.members[n].spelled
      BY <3>2, Zenon
    <3>4. ~(k > n)
      BY <3>1, <3>3, Zenon
    <3>. QED BY <2>2, <3>4
  <2>5. field(d, d.members[n].of, d.members[n].name, 0) = d.members[n].value[2]
    BY <2>2, <2>4, LastMember
  <2>. QED BY <2>1, <2>3, <2>5
<1>2. CASE ~present(d, Root, "claims")
  <2>1. {n \in DOMAIN d.members : d.members[n].of = Root /\ d.members[n].name = "claims"} = {}
    BY <1>2 DEF present
  <2>. QED BY <2>1 DEF field
<1>. QED BY <1>1, <1>2

\* Nothing that a document says is dropped or replaced on the way to the store,
\* unless it spells one field of an object in two ways.
THEOREM NothingGuessedHolds == JSpec => []NothingGuessed
<1>1. DocumentInv => NothingGuessed
  <2>. DEFINE d == document
  <2>. SUFFICES ASSUME DocumentInv, phase # "idle", verdict = "accepted",
                       NEW n \in DOMAIN d.members, d.members[n].value # Nested,
                       ~SpelledTwice(d)
                PROVE  d.members[n].value
                         = Given(Place(batch, d.members[n].of, d.members[n].name))
    BY DEF NothingGuessed
  <2>1. d \in Documents /\ decodeStrict(d) /\ batch = Batch(d)
    BY DEF DocumentInv
  <2>. HIDE DEF d
  <2>. DEFINE m == d.members[n]
  <2>2. /\ Listed(d) /\ Object(d, m.of) /\ m.name \in fields(m.of)
        /\ m.name \notin {"producer", "source", "artifact"}
        /\ m.value = Given(m.value[2])
    BY <2>1, AcceptedDocument
  <2>3. ASSUME NEW k \in DOMAIN d.members, d.members[k].of = m.of, d.members[k].name = m.name
        PROVE  k <= n
    <3>1. k > n => d.members[k].spelled # m.spelled
      BY <2>1, <2>3, AcceptedDocument
    <3>2. d.members[k].spelled = m.spelled
      BY <2>3 DEF SpelledTwice, SameField
    <3>3. DOMAIN d.members = 1..Len(d.members) /\ Len(d.members) \in Nat
      BY <2>2 DEF Listed
    <3>. QED BY <2>3, <3>1, <3>2, <3>3
  <2>4. present(d, m.of, m.name)
    BY DEF present
  <2>5. PICK zero : Place(Batch(d), m.of, m.name) = field(d, m.of, m.name, zero)
    BY <2>1, <2>2, <2>4, ClaimsCounted, PlacesFilled
  <2>6. field(d, m.of, m.name, zero) = m.value[2]
    BY <2>2, <2>3, LastMember
  <2>. QED BY <2>1, <2>2, <2>5, <2>6
<1>. QED BY <1>1, AlwaysDocument, PTL

-----------------------------------------------------------------------------
(***************************************************************************)
(* A batch survives its canonical JSON                                     *)
(***************************************************************************)
\* Each member of an object is there once.
Once(s) ==
  \A m, n \in 1..Len(s) : s[m].of = s[n].of /\ s[m].name = s[n].name => m = n

SamePlace(r, q) == r.of = q.of /\ r.name = q.name

LEMMA OnceConcatenation ==
  ASSUME NEW s, NEW t, Sequence(s), Sequence(t), Once(s), Once(t),
         \A r \in Elements(s), q \in Elements(t) : ~SamePlace(r, q)
  PROVE  Once(s \o t)
<1>. SUFFICES ASSUME NEW m \in 1..Len(s \o t), NEW n \in 1..Len(s \o t), m # n
              PROVE  ~SamePlace((s \o t)[m], (s \o t)[n])
  BY DEF Once, SamePlace
<1>. DEFINE st == s \o t
<1>1. /\ \A k \in 1..Len(s) : s[k] \in Elements(s)
      /\ \A k \in 1..Len(t) : t[k] \in Elements(t)
  BY DEF Elements
<1>2. ASSUME NEW k \in 1..Len(st)
      PROVE  /\ k \in 1..Len(s) => st[k] = s[k] /\ s[k] \in Elements(s)
             /\ k \notin 1..Len(s) => /\ k - Len(s) \in 1..Len(t) /\ st[k] = t[k - Len(s)]
                                      /\ t[k - Len(s)] \in Elements(t)
  <2>1. /\ Len(s) \in Nat /\ Len(t) \in Nat /\ Len(st) = Len(s) + Len(t)
        /\ \A j \in 1..Len(s) : st[j] = s[j]
        /\ \A j \in Len(s) + 1..Len(s) + Len(t) : st[j] = t[j - Len(s)]
    BY Parts, Zenon
  <2>. HIDE DEF st
  <2>2. k \notin 1..Len(s) => k \in Len(s) + 1..Len(s) + Len(t) /\ k - Len(s) \in 1..Len(t)
    BY <2>1
  <2>. QED BY <1>1, <2>1, <2>2
<1>. HIDE DEF st
<1>3. CASE m \in 1..Len(s) /\ n \in 1..Len(s)
  BY <1>3, <1>2 DEF Once, SamePlace, st
<1>4. CASE m \in 1..Len(s) /\ n \notin 1..Len(s)
  BY <1>4, <1>2 DEF st
<1>5. CASE m \notin 1..Len(s) /\ n \in 1..Len(s)
  <2>1. ~SamePlace(st[n], st[m])
    BY <1>5, <1>2 DEF st
  <2>. QED BY <2>1 DEF SamePlace, st
<1>6. CASE m \notin 1..Len(s) /\ n \notin 1..Len(s)
  <2>1. m - Len(s) # n - Len(s)
    BY Parts
  <2>2. /\ st[m] = t[m - Len(s)] /\ m - Len(s) \in 1..Len(t)
        /\ st[n] = t[n - Len(s)] /\ n - Len(s) \in 1..Len(t)
    BY <1>6, <1>2 DEF st
  <2>3. ~SamePlace(t[m - Len(s)], t[n - Len(s)])
    BY <2>1, <2>2 DEF Once, SamePlace
  <2>. QED BY <2>2, <2>3 DEF st
<1>. QED BY <1>3, <1>4, <1>5, <1>6

\* Objects written one after the other: every member of each, and none twice.
LEMMA FlattenedMembers ==
  ASSUME NEW s, Sequence(s),
         \A k \in 1..Len(s) : Sequence(s[k]) /\ Once(s[k]),
         \A j, k \in 1..Len(s) : j # k =>
           \A r \in Elements(s[j]), q \in Elements(s[k]) : ~SamePlace(r, q)
  PROVE  /\ Sequence(FlattenSeq(s)) /\ Once(FlattenSeq(s))
         /\ Elements(FlattenSeq(s)) = UNION {Elements(s[k]) : k \in 1..Len(s)}
<1>. DEFINE Upto(n) == UNION {Elements(s[k]) : k \in 1..n}
            D == Upto(Len(s))
            Joined(t, n) == Sequence(t) /\ Once(t) /\ Elements(t) = Upto(n)
<1>1. Len(s) \in Nat
  BY SequenceFacts
<1>2. CASE Len(s) = 0
  <2>1. s = <<>>
    BY <1>2 DEF Sequence
  <2>2. FlattenSeq(s) = <<>>
    BY <2>1 DEF FlattenSeq
  <2>3. Once(<<>>)
    BY DEF Once
  <2>4. Upto(Len(s)) = {}
    BY <1>2
  <2>. QED BY <2>2, <2>3, <2>4, NoElements
<1>3. CASE Len(s) > 0
  <2>1. s \in Seq(Seq(D))
    <3>1. ASSUME NEW k \in 1..Len(s) PROVE s[k] \in Seq(D)
      <4>1. \A n \in 1..Len(s[k]) : s[k][n] \in D
        BY DEF Elements
      <4>. HIDE DEF D
      <4>2. Len(s[k]) \in Nat /\ s[k] = [n \in 1..Len(s[k]) |-> s[k][n]]
        BY SequenceFacts
      <4>. QED BY <4>1, <4>2
    <3>2. s = [k \in 1..Len(s) |-> s[k]]
      BY SequenceFacts
    <3>. HIDE DEF D
    <3>. QED BY <1>1, <3>1, <3>2
  <2>2. PICK f : /\ \A k \in 1..Len(s) : f[k] \in Seq(D)
                 /\ f[1] = s[1]
                 /\ \A k \in 2..Len(s) : f[k] = f[k - 1] \o s[k]
                 /\ FlattenSeq(s) = f[Len(s)]
    <3>. HIDE DEF D
    <3>. QED BY <1>3, <2>1, Flattened
  <2>. DEFINE Done == {n \in Nat : n + 1 \in 1..Len(s) => Joined(f[n + 1], n + 1)}
  <2>3. 0 \in Done
    <3>1. Upto(1) = Elements(s[1])
      OBVIOUS
    <3>. QED BY <1>1, <1>3, <2>2, <3>1
  <2>4. ASSUME NEW n \in Nat, n \in Done, n + 2 \in 1..Len(s)
        PROVE  Joined(f[n + 2], n + 2)
    <3>. DEFINE t == f[n + 1]
                u == s[n + 2]
    <3>1. n + 1 \in 1..Len(s) /\ n + 2 \in 2..Len(s) /\ (n + 2) - 1 = n + 1
      BY <1>1, <2>4
    <3>2. Joined(t, n + 1) /\ Sequence(u) /\ Once(u) /\ f[n + 2] = t \o u
      BY <2>2, <2>4, <3>1
    <3>3. Upto(n + 2) = Upto(n + 1) \cup Elements(u)
      <4>1. 1..n + 2 = 1..n + 1 \cup {n + 2}
        OBVIOUS
      <4>. QED BY <4>1
    <3>4. ASSUME NEW r \in Elements(t), NEW q \in Elements(u)
          PROVE  ~SamePlace(r, q)
      <4>1. PICK k \in 1..n + 1 : r \in Elements(s[k])
        BY <3>2
      <4>2. k \in 1..Len(s) /\ n + 2 \in 1..Len(s) /\ k # n + 2
        BY <1>1, <3>1
      <4>. QED BY <4>1, <4>2
    <3>. HIDE DEF t, u, Upto
    <3>5. Sequence(t \o u) /\ Elements(t \o u) = Elements(t) \cup Elements(u)
      BY <3>2, Concatenation
    <3>6. Once(t \o u)
      BY <3>2, <3>4, OnceConcatenation
    <3>. QED BY <3>2, <3>3, <3>5, <3>6
  <2>5. \A n \in Nat : n \in Done => n + 1 \in Done
    <3>1. ASSUME NEW n \in Nat, n \in Done PROVE n + 1 \in Done
      <4>1. (n + 1) + 1 = n + 2
        OBVIOUS
      <4>. HIDE DEF Joined
      <4>. QED BY <2>4, <3>1, <4>1
    <3>. QED BY <3>1
  <2>6. Nat \subseteq Done
    <3>. HIDE DEF Done
    <3>. QED BY <2>3, <2>5, Induction
  <2>7. Len(s) - 1 \in Done /\ (Len(s) - 1) + 1 = Len(s)
    <3>. HIDE DEF Done
    <3>. QED BY <1>1, <1>3, <2>6
  <2>8. Joined(f[Len(s)], Len(s))
    <3>. HIDE DEF Joined
    <3>. QED BY <1>1, <1>3, <2>7
  <2>. QED BY <2>2, <2>8
<1>. QED BY <1>1, <1>2, <1>3

\* The members of a claim, of a source, and of the batch around them.
ClaimMembers(c, n) ==
  {member(ClaimAt(n), "external_id", Given(c.external)),
   member(ClaimAt(n), "subject", Given(c.subject)),
   member(ClaimAt(n), "predicate", Given(c.predicate)),
   member(ClaimAt(n), "object", Given(c.object))}
  \cup (IF c.confidence # <<>>
          THEN {member(ClaimAt(n), "confidence_ppm", Given(c.confidence[1]))} ELSE {})
  \cup (IF c.evidence # <<>> THEN {member(ClaimAt(n), "evidence", Given(c.evidence))} ELSE {})

SourceMembers(r) ==
  {member(Root, "source", Nested),
   member(<<"source">>, "digest", Given(r.digest)),
   member(<<"source">>, "media_type", Given(r.media)),
   member(<<"source">>, "artifact", Nested),
   member(<<"artifact">>, "mode", Given(r.mode))}
  \cup (IF r.uri THEN {member(<<"artifact">>, "uri", Given(TRUE))} ELSE {})

HeaderMembers(b) ==
  {member(Root, "profile", Given(b.profile)),
   member(Root, "producer", Nested),
   member(<<"producer">>, "name", Given(b.producer.name)),
   member(<<"producer">>, "run_id", Given(b.run)),
   member(<<"producer">>, "schema_identity", Given(b.producer.schema))}

LEMMA MemberFields ==
  ASSUME NEW of, NEW name, NEW v
  PROVE  /\ member(of, name, v).of = of /\ member(of, name, v).name = name
         /\ member(of, name, v).value = v /\ member(of, name, v).spelled = name
BY DEF member

LEMMA GivenMembers ==
  ASSUME NEW cond \in BOOLEAN, NEW m
  PROVE  /\ Sequence(given(cond, m)) /\ Once(given(cond, m))
         /\ Elements(given(cond, m)) = IF cond THEN {m} ELSE {}
<1>1. Once(<<m>>) /\ Once(<<>>)
  BY DEF Once
<1>. QED BY <1>1, NoElements, OneElement DEF given

LEMMA FourMembers ==
  ASSUME NEW of, NEW n1, NEW n2, NEW n3, NEW n4, NEW v1, NEW v2, NEW v3, NEW v4,
         n1 \notin {n2, n3, n4}, n2 \notin {n3, n4}, n3 # n4
  PROVE  Once(<<member(of, n1, v1), member(of, n2, v2), member(of, n3, v3), member(of, n4, v4)>>)
<1>. DEFINE s == <<member(of, n1, v1), member(of, n2, v2), member(of, n3, v3), member(of, n4, v4)>>
<1>1. Len(s) = 4 /\ s[1].name = n1 /\ s[2].name = n2 /\ s[3].name = n3 /\ s[4].name = n4
  BY DEF member
<1>2. 1..4 = {1, 2, 3, 4}
  OBVIOUS
<1>. HIDE DEF s
<1>3. \A m, n \in {1, 2, 3, 4} : s[m].name = s[n].name => m = n
  BY <1>1
<1>. QED BY <1>1, <1>2, <1>3 DEF Once, s

LEMMA FiveMembers ==
  ASSUME NEW r1, NEW r2, NEW r3, NEW r4, NEW r5,
         ~SamePlace(r1, r2), ~SamePlace(r1, r3), ~SamePlace(r1, r4), ~SamePlace(r1, r5),
         ~SamePlace(r2, r3), ~SamePlace(r2, r4), ~SamePlace(r2, r5),
         ~SamePlace(r3, r4), ~SamePlace(r3, r5), ~SamePlace(r4, r5)
  PROVE  /\ Sequence(<<r1, r2, r3, r4, r5>>) /\ Once(<<r1, r2, r3, r4, r5>>)
         /\ Elements(<<r1, r2, r3, r4, r5>>) = {r1, r2, r3, r4, r5}
<1>. DEFINE s == <<r1, r2, r3, r4, r5>>
<1>1. /\ Len(s) = 5 /\ s[1] = r1 /\ s[2] = r2 /\ s[3] = r3 /\ s[4] = r4 /\ s[5] = r5
      /\ s \in Seq({r1, r2, r3, r4, r5})
  OBVIOUS
<1>2. 1..5 = {1, 2, 3, 4, 5}
  OBVIOUS
<1>. HIDE DEF s
<1>3. Elements(s) = {r1, r2, r3, r4, r5}
  BY <1>1, <1>2 DEF Elements
<1>4. \A m, n \in {1, 2, 3, 4, 5} : SamePlace(s[m], s[n]) => m = n
  <2>1. \A m, n \in {1, 2, 3, 4, 5} : m < n => ~SamePlace(s[m], s[n])
    BY <1>1
  <2>2. \A r, q : SamePlace(r, q) => SamePlace(q, r)
    BY DEF SamePlace
  <2>. QED BY <2>1, <2>2
<1>5. Once(s)
  BY <1>1, <1>2, <1>4 DEF Once, SamePlace
<1>. QED BY <1>1, <1>3, <1>5 DEF Sequence, s

\* One concatenation: sequences of members that share no place.
LEMMA JoinedMembers ==
  ASSUME NEW s, NEW t, Sequence(s), Sequence(t), Once(s), Once(t),
         NEW S, NEW T, Elements(s) = S, Elements(t) = T,
         \A r \in S, q \in T : ~SamePlace(r, q)
  PROVE  Sequence(s \o t) /\ Once(s \o t) /\ Elements(s \o t) = S \cup T
BY Concatenation, OnceConcatenation

LEMMA ClaimMarshalled ==
  ASSUME NEW c, NEW n
  PROVE  LET s == marshalClaim(c, n) IN
         Sequence(s) /\ Once(s) /\ Elements(s) = ClaimMembers(c, n)
<1>. DEFINE of == ClaimAt(n)
            r1 == member(of, "external_id", Given(c.external))
            r2 == member(of, "subject", Given(c.subject))
            r3 == member(of, "predicate", Given(c.predicate))
            r4 == member(of, "object", Given(c.object))
            r5 == member(of, "confidence_ppm", Given(c.confidence[1]))
            r6 == member(of, "evidence", Given(c.evidence))
            s == <<r1, r2, r3, r4>>
            t == given(c.confidence # <<>>, r5)
            u == given(c.evidence # <<>>, r6)
            T == IF c.confidence # <<>> THEN {r5} ELSE {}
            U == IF c.evidence # <<>> THEN {r6} ELSE {}
<1>1. Once(s)
  <2>. HIDE DEF of
  <2>. QED BY FourMembers
<1>2. /\ r1.name = "external_id" /\ r2.name = "subject" /\ r3.name = "predicate"
      /\ r4.name = "object" /\ r5.name = "confidence_ppm" /\ r6.name = "evidence"
  BY DEF member
<1>3. marshalClaim(c, n) = (s \o t) \o u
  BY DEF marshalClaim
<1>4. ClaimMembers(c, n) = {r1, r2, r3, r4} \cup T \cup U
  BY DEF ClaimMembers
<1>. HIDE DEF r1, r2, r3, r4, r5, r6
<1>5. Sequence(s) /\ Elements(s) = {r1, r2, r3, r4}
  BY FourElements
<1>6. Sequence(t) /\ Once(t) /\ Elements(t) = T
  BY GivenMembers
<1>7. Sequence(u) /\ Once(u) /\ Elements(u) = U
  BY GivenMembers
<1>8. /\ \A r \in {r1, r2, r3, r4}, q \in T : ~SamePlace(r, q)
      /\ \A r \in {r1, r2, r3, r4} \cup T, q \in U : ~SamePlace(r, q)
  BY <1>2 DEF SamePlace
<1>. HIDE DEF s, t, u, T, U
<1>9. Sequence(s \o t) /\ Once(s \o t) /\ Elements(s \o t) = {r1, r2, r3, r4} \cup T
  BY <1>1, <1>5, <1>6, <1>8, JoinedMembers
<1>. DEFINE st == s \o t
<1>. HIDE DEF st
<1>10. Sequence(st \o u) /\ Once(st \o u) /\ Elements(st \o u) = ({r1, r2, r3, r4} \cup T) \cup U
  BY <1>7, <1>8, <1>9, JoinedMembers DEF st
<1>. QED BY <1>3, <1>4, <1>10 DEF st

LEMMA SourceMarshalled ==
  ASSUME NEW r, r.uri \in BOOLEAN
  PROVE  LET s == marshalSource(r) IN
         Sequence(s) /\ Once(s) /\ Elements(s) = SourceMembers(r)
<1>. DEFINE r1 == member(Root, "source", Nested)
            r2 == member(<<"source">>, "digest", Given(r.digest))
            r3 == member(<<"source">>, "media_type", Given(r.media))
            r4 == member(<<"source">>, "artifact", Nested)
            r5 == member(<<"artifact">>, "mode", Given(r.mode))
            r6 == member(<<"artifact">>, "uri", Given(TRUE))
            s == <<r1, r2, r3, r4, r5>>
            t == given(r.uri, r6)
            T == IF r.uri THEN {r6} ELSE {}
<1>1. /\ r1.name = "source" /\ r2.name = "digest" /\ r3.name = "media_type"
      /\ r4.name = "artifact" /\ r5.name = "mode" /\ r6.name = "uri"
  BY DEF member
<1>2. SourceMembers(r) = {r1, r2, r3, r4, r5} \cup T
  BY DEF SourceMembers
<1>. HIDE DEF r1, r2, r3, r4, r5, r6
<1>3. Sequence(s) /\ Once(s) /\ Elements(s) = {r1, r2, r3, r4, r5}
  BY <1>1, FiveMembers DEF SamePlace
<1>4. Sequence(t) /\ Once(t) /\ Elements(t) = T
  BY GivenMembers
<1>5. \A m \in {r1, r2, r3, r4, r5}, q \in T : ~SamePlace(m, q)
  BY <1>1 DEF SamePlace
<1>. HIDE DEF s, t, T
<1>6. Sequence(s \o t) /\ Once(s \o t) /\ Elements(s \o t) = {r1, r2, r3, r4, r5} \cup T
  BY <1>3, <1>4, <1>5, JoinedMembers
<1>. QED BY <1>2, <1>6 DEF marshalSource, s, t, T, r1, r2, r3, r4, r5, r6

BatchMembers(b) ==
  HeaderMembers(b)
  \cup (IF b.source = <<>> THEN {} ELSE SourceMembers(b.source[1]))
  \cup {member(Root, "claims", Given(Len(b.claims)))}
  \cup UNION {ClaimMembers(b.claims[n], n) : n \in 1..Len(b.claims)}

LEMMA OptionalField ==
  ASSUME NEW D, NEW s \in Seq(D), Len(s) <= 1, s # <<>>
  PROVE  s = <<s[1]>> /\ s[1] \in D
<1>1. Len(s) \in Nat /\ s = [n \in 1..Len(s) |-> s[n]]
  OBVIOUS
<1>2. Len(s) = 0 => s = <<>>
  BY <1>1
<1>3. Len(s) = 1
  BY <1>1, <1>2
<1>. QED BY <1>3

\* What the assumption says of the shape of a batch.
LEMMA BatchShape ==
  ASSUME NEW b \in Batches
  PROVE  /\ b \in AnyBatch /\ b.claims \in Seq(Claim) /\ Len(b.claims) \in Nat
         /\ \A n \in 1..Len(b.claims) : b.claims[n] \in Claim
         /\ b.source # <<>> => /\ b.source = <<b.source[1]>>
                               /\ b.source[1] \in Source
         /\ \A n \in 1..Len(b.claims) :
              b.claims[n].confidence # <<>> =>
                b.claims[n].confidence = <<b.claims[n].confidence[1]>>
<1>1. b \in AnyBatch
  BY IngestAssumption
<1>2. b.claims \in Seq(Claim)
  BY <1>1 DEF AnyBatch
<1>3. b.source \in Seq(Source)
  BY <1>1 DEF AnyBatch
<1>4. Len(b.claims) \in Nat /\ \A n \in 1..Len(b.claims) : b.claims[n] \in Claim
  BY <1>2
<1>5. \A c \in Seq(Nat) : Len(c) <= 1 /\ c # <<>> => c = <<c[1]>>
  BY OptionalField, Zenon
<1>6. \A s \in Seq(Source) : Len(s) <= 1 /\ s # <<>> => s = <<s[1]>> /\ s[1] \in Source
  BY OptionalField, Zenon
<1>7. Len(b.source) <= 1 /\ \A n \in 1..Len(b.claims) : Len(b.claims[n].confidence) <= 1
  BY IngestAssumption
<1>8. \A c \in Claim : c.confidence \in Seq(Nat)
  BY DEF Claim
<1>. QED BY <1>1, <1>2, <1>3, <1>4, <1>5, <1>6, <1>7, <1>8

LEMMA BatchMarshalled ==
  ASSUME NEW b \in Batches
  PROVE  /\ Sequence(Canonical(b).members) /\ Once(Canonical(b).members)
         /\ Elements(Canonical(b).members) = BatchMembers(b)
<1>. DEFINE r1 == member(Root, "profile", Given(b.profile))
            r2 == member(Root, "producer", Nested)
            r3 == member(<<"producer">>, "name", Given(b.producer.name))
            r4 == member(<<"producer">>, "run_id", Given(b.run))
            r5 == member(<<"producer">>, "schema_identity", Given(b.producer.schema))
            r6 == member(Root, "claims", Given(Len(b.claims)))
            head == <<r1, r2, r3, r4, r5>>
            source == IF b.source = <<>> THEN <<>> ELSE marshalSource(b.source[1])
            lists == [n \in 1..Len(b.claims) |-> marshalClaim(b.claims[n], n)]
            S == IF b.source = <<>> THEN {} ELSE SourceMembers(b.source[1])
            C == UNION {ClaimMembers(b.claims[n], n) : n \in 1..Len(b.claims)}
<1>1. Canonical(b).members = ((head \o source) \o <<r6>>) \o FlattenSeq(lists)
  BY DEF Canonical, Marshal
<1>2. BatchMembers(b) = {r1, r2, r3, r4, r5} \cup S \cup {r6} \cup C
  BY DEF BatchMembers, HeaderMembers
<1>3. Sequence(source) /\ Once(source) /\ Elements(source) = S
  <2>1. CASE b.source = <<>>
    <3>1. Once(<<>>)
      BY DEF Once
    <3>. QED BY <2>1, <3>1, NoElements
  <2>2. CASE b.source # <<>>
    <3>1. b.source[1].uri \in BOOLEAN
      BY <2>2, BatchShape DEF Source
    <3>. QED BY <2>2, <3>1, SourceMarshalled
  <2>. QED BY <2>1, <2>2
<1>4. /\ Sequence(lists) /\ Len(lists) = Len(b.claims)
      /\ \A k \in 1..Len(b.claims) : lists[k] = marshalClaim(b.claims[k], k)
  <2>1. Len(b.claims) \in Nat
    BY BatchShape
  <2>2. Len(lists) = Len(b.claims)
    BY <2>1
  <2>3. \A k \in 1..Len(b.claims) : lists[k] = marshalClaim(b.claims[k], k)
    OBVIOUS
  <2>4. lists = [k \in 1..Len(lists) |-> lists[k]]
    BY <2>2
  <2>5. \A k \in 1..Len(lists) : lists[k] \in Elements(lists)
    BY DEF Elements
  <2>. HIDE DEF lists
  <2>6. lists \in Seq(Elements(lists))
    BY <2>1, <2>2, <2>4, <2>5
  <2>. QED BY <2>2, <2>3, <2>6 DEF Sequence
<1>. HIDE DEF lists
<1>5. /\ \A k \in 1..Len(lists) : Sequence(lists[k]) /\ Once(lists[k])
      /\ \A k \in 1..Len(lists) : Elements(lists[k]) = ClaimMembers(b.claims[k], k)
  BY <1>4, ClaimMarshalled
<1>6. \A c, n : \A m \in ClaimMembers(c, n) : m.of = ClaimAt(n)
  BY DEF ClaimMembers, member
<1>7. Sequence(FlattenSeq(lists)) /\ Once(FlattenSeq(lists)) /\ Elements(FlattenSeq(lists)) = C
  <2>1. ASSUME NEW j \in 1..Len(lists), NEW k \in 1..Len(lists), j # k,
               NEW m \in Elements(lists[j]), NEW q \in Elements(lists[k])
        PROVE  ~SamePlace(m, q)
    <3>1. m.of = ClaimAt(j) /\ q.of = ClaimAt(k)
      BY <1>5, <1>6
    <3>2. ClaimAt(j) # ClaimAt(k)
      BY <2>1 DEF ClaimAt
    <3>. QED BY <3>1, <3>2 DEF SamePlace
  <2>2. UNION {Elements(lists[k]) : k \in 1..Len(lists)} = C
    BY <1>4, <1>5
  <2>. QED BY <1>4, <1>5, <2>1, <2>2, FlattenedMembers
<1>8. \A n : ClaimAt(n) # Root /\ ClaimAt(n) # <<"producer">> /\ ClaimAt(n) # <<"source">>
             /\ ClaimAt(n) # <<"artifact">>
  BY DEF ClaimAt, Root
<1>9. \A q \in C : \E n : q.of = ClaimAt(n)
  BY <1>6
<1>10. \A m \in S : m.of \in {Root, <<"source">>, <<"artifact">>}
                    /\ m.name \in {"source", "digest", "media_type", "artifact", "mode", "uri"}
  <2>1. ASSUME NEW q, NEW m \in SourceMembers(q)
        PROVE  /\ m.of \in {Root, <<"source">>, <<"artifact">>}
               /\ m.name \in {"source", "digest", "media_type", "artifact", "mode", "uri"}
    <3>1. \E v : \/ m = member(Root, "source", v) \/ m = member(<<"source">>, "digest", v)
                 \/ m = member(<<"source">>, "media_type", v)
                 \/ m = member(<<"source">>, "artifact", v)
                 \/ m = member(<<"artifact">>, "mode", v) \/ m = member(<<"artifact">>, "uri", v)
      <4>. HIDE DEF r1, r2, r3, r4, r5, r6, head, source, S, C
      <4>. QED BY DEF SourceMembers
    <3>. QED BY <3>1, MemberFields
  <2>. QED BY <2>1
<1>11. /\ r1.name = "profile" /\ r2.name = "producer" /\ r3.name = "name" /\ r4.name = "run_id"
       /\ r5.name = "schema_identity" /\ r6.name = "claims"
       /\ r1.of = Root /\ r2.of = Root /\ r3.of = <<"producer">> /\ r4.of = <<"producer">>
       /\ r5.of = <<"producer">> /\ r6.of = Root
  BY DEF member
<1>. HIDE DEF r1, r2, r3, r4, r5, r6, S, C, source
<1>12. Sequence(head) /\ Once(head) /\ Elements(head) = {r1, r2, r3, r4, r5}
  BY <1>11, FiveMembers DEF SamePlace
<1>13. Sequence(<<r6>>) /\ Once(<<r6>>) /\ Elements(<<r6>>) = {r6}
  <2>1. Once(<<r6>>)
    BY DEF Once
  <2>. QED BY <2>1, OneElement
<1>. DEFINE H == {r1, r2, r3, r4, r5}
            one == <<r6>>
            X == {r6}
            flat == FlattenSeq(lists)
<1>14. /\ \A m \in H, q \in S : ~SamePlace(m, q)
       /\ \A m \in H \cup S, q \in X : ~SamePlace(m, q)
  BY <1>10, <1>11 DEF SamePlace
<1>15. \A m \in (H \cup S) \cup X, q \in C : ~SamePlace(m, q)
  <2>1. \A m \in (H \cup S) \cup X : m.of \in {Root, <<"producer">>, <<"source">>, <<"artifact">>}
    BY <1>10, <1>11
  <2>. QED BY <1>8, <1>9, <2>1 DEF SamePlace
<1>. HIDE DEF H, X, one, flat, head
<1>. DEFINE s2 == head \o source
<1>16. Sequence(s2) /\ Once(s2) /\ Elements(s2) = H \cup S
  BY <1>3, <1>12, <1>14, JoinedMembers DEF H
<1>. HIDE DEF s2
<1>. DEFINE s3 == s2 \o one
<1>17. Sequence(s3) /\ Once(s3) /\ Elements(s3) = (H \cup S) \cup X
  BY <1>13, <1>14, <1>16, JoinedMembers DEF one, X
<1>. HIDE DEF s3
<1>18. Sequence(s3 \o flat) /\ Once(s3 \o flat) /\ Elements(s3 \o flat) = ((H \cup S) \cup X) \cup C
  BY <1>7, <1>15, <1>17, JoinedMembers DEF flat
<1>. QED BY <1>1, <1>2, <1>18 DEF s3, s2, one, flat, H, X

\* What a field holds of an object whose members are there once.
LEMMA FieldOf ==
  ASSUME NEW d, Sequence(d.members), Once(d.members), NEW of, NEW name, NEW v,
         member(of, name, v) \in Elements(d.members), NEW zero
  PROVE  field(d, of, name, zero) = v[2] /\ present(d, of, name)
<1>1. PICK n \in 1..Len(d.members) : d.members[n] = member(of, name, v)
  BY DEF Elements
<1>2. d.members[n].of = of /\ d.members[n].name = name /\ d.members[n].value = v
  BY <1>1, MemberFields
<1>3. DOMAIN d.members = 1..Len(d.members) /\ Len(d.members) \in Nat
  BY DEF Sequence
<1>4. Listed(d)
  BY <1>3 DEF Sequence, Elements, Listed
<1>5. ASSUME NEW k \in DOMAIN d.members,
             d.members[k].of = d.members[n].of, d.members[k].name = d.members[n].name
      PROVE  k <= n
  BY <1>3, <1>5 DEF Once
<1>6. field(d, d.members[n].of, d.members[n].name, zero) = d.members[n].value[2]
  BY <1>3, <1>4, <1>5, LastMember
<1>7. present(d, of, name)
  BY <1>2, <1>3 DEF present
<1>. QED BY <1>2, <1>6, <1>7

Absent(d, of, name) == \A r \in Elements(d.members) : ~(r.of = of /\ r.name = name)

LEMMA FieldAbsent ==
  ASSUME NEW d, Sequence(d.members), NEW of, NEW name, Absent(d, of, name), NEW zero
  PROVE  field(d, of, name, zero) = zero /\ ~present(d, of, name)
<1>1. \A n \in DOMAIN d.members : d.members[n] \in Elements(d.members)
  BY DEF Sequence, Elements
<1>2. {n \in DOMAIN d.members : d.members[n].of = of /\ d.members[n].name = name} = {}
  BY <1>1 DEF Absent
<1>3. ~present(d, of, name)
  BY <1>1 DEF present, Absent
<1>. QED BY <1>2, <1>3 DEF field

\* The names of fields, object by object.
LEMMA FieldNames ==
  /\ fields(Root) = {"profile", "producer", "source", "claims"}
  /\ fields(<<"producer">>) = {"name", "schema_identity", "run_id"}
  /\ fields(<<"source">>) = {"digest", "media_type", "artifact"}
  /\ fields(<<"artifact">>) = {"mode", "uri"}
  /\ \A n : fields(ClaimAt(n)) = {"external_id", "subject", "predicate", "object",
                                  "confidence_ppm", "evidence"}
<1>1. \A n : ClaimAt(n) # Root /\ ClaimAt(n) # <<"producer">> /\ ClaimAt(n) # <<"source">>
             /\ ClaimAt(n) # <<"artifact">>
  BY DEF ClaimAt, Root
<1>. QED BY <1>1 DEF fields, Root

LEMMA Values ==
  /\ Nested # Null /\ Nested # Mistyped
  /\ \A v : Given(v) # Null /\ Given(v) # Mistyped /\ Given(v)[2] = v
BY DEF Nested, Null, Mistyped, Given

\* A member of a batch: a field of its object, spelled exactly, neither null nor of
\* another type.
Proper(m) ==
  m.spelled = m.name /\ m.name \in fields(m.of) /\ m.value # Null /\ m.value # Mistyped

LEMMA ProperMember ==
  ASSUME NEW of, NEW name \in fields(of), NEW v, v = Nested \/ \E x : v = Given(x)
  PROVE  Proper(member(of, name, v))
BY MemberFields, Values DEF Proper

LEMMA ProperMembers ==
  ASSUME NEW b, NEW m \in BatchMembers(b)
  PROVE  Proper(m)
<1>1. CASE m \in HeaderMembers(b)
  <2>. USE FieldNames
  <2>1. Proper(member(Root, "profile", Given(b.profile)))
    BY ProperMember
  <2>2. Proper(member(Root, "producer", Nested))
    BY ProperMember
  <2>3. Proper(member(<<"producer">>, "name", Given(b.producer.name)))
    BY ProperMember
  <2>4. Proper(member(<<"producer">>, "run_id", Given(b.run)))
    BY ProperMember
  <2>5. Proper(member(<<"producer">>, "schema_identity", Given(b.producer.schema)))
    BY ProperMember
  <2>. QED BY <1>1, <2>1, <2>2, <2>3, <2>4, <2>5 DEF HeaderMembers
<1>2. CASE b.source # <<>> /\ m \in SourceMembers(b.source[1])
  <2>. DEFINE r == b.source[1]
  <2>1. Proper(member(Root, "source", Nested))
    BY ProperMember, FieldNames
  <2>2. Proper(member(<<"source">>, "digest", Given(r.digest)))
    BY ProperMember, FieldNames
  <2>3. Proper(member(<<"source">>, "media_type", Given(r.media)))
    BY ProperMember, FieldNames
  <2>4. Proper(member(<<"source">>, "artifact", Nested))
    BY ProperMember, FieldNames
  <2>5. Proper(member(<<"artifact">>, "mode", Given(r.mode)))
    BY ProperMember, FieldNames
  <2>6. Proper(member(<<"artifact">>, "uri", Given(TRUE)))
    BY ProperMember, FieldNames
  <2>. QED BY <1>2, <2>1, <2>2, <2>3, <2>4, <2>5, <2>6 DEF SourceMembers
<1>3. CASE m = member(Root, "claims", Given(Len(b.claims)))
  BY <1>3, ProperMember, FieldNames
<1>4. ASSUME NEW n \in 1..Len(b.claims), m \in ClaimMembers(b.claims[n], n)
      PROVE  Proper(m)
  <2>. DEFINE c == b.claims[n]
              of == ClaimAt(n)
  <2>1. /\ "external_id" \in fields(of) /\ "subject" \in fields(of) /\ "predicate" \in fields(of)
        /\ "object" \in fields(of) /\ "confidence_ppm" \in fields(of) /\ "evidence" \in fields(of)
    BY FieldNames
  <2>. HIDE DEF of
  <2>2. \A name \in fields(of) : \A x : Proper(member(of, name, Given(x)))
    BY ProperMember
  <2>3. \E name \in fields(of) : \E x : m = member(of, name, Given(x))
    BY <1>4, <2>1 DEF ClaimMembers, of
  <2>. QED BY <2>2, <2>3
<1>. QED BY <1>1, <1>2, <1>3, <1>4 DEF BatchMembers

LEMMA MarshalAccepted ==
  ASSUME NEW b \in Batches, b \notin LargeJSON
  PROVE  decodeStrict(Canonical(b))
<1>. DEFINE d == Canonical(b)
            s == d.members
<1>1. Sequence(s) /\ Once(s) /\ Elements(s) = BatchMembers(b)
  BY BatchMarshalled
<1>2. d.intact
  BY DEF Canonical, Marshal
<1>. HIDE DEF d
<1>3. DOMAIN s = 1..Len(s) /\ Len(s) \in Nat
  BY <1>1 DEF Sequence
<1>4. \A n \in DOMAIN s : Proper(s[n])
  BY <1>1, <1>3, ProperMembers DEF Elements
<1>5. \A k \in DOMAIN s : ~\E j \in 1..k - 1 : s[j].of = s[k].of /\ s[j].spelled = s[k].spelled
  <2>1. ASSUME NEW k \in DOMAIN s, NEW j \in 1..k - 1, s[j].of = s[k].of, s[j].spelled = s[k].spelled
        PROVE  FALSE
    <3>1. j \in 1..Len(s) /\ k \in 1..Len(s) /\ j # k
      BY <1>3
    <3>2. s[j].name = s[k].name
      BY <1>3, <1>4, <2>1, <3>1 DEF Proper
    <3>. QED BY <1>1, <2>1, <3>1, <3>2 DEF Once
  <2>. QED BY <2>1
<1>6. inspectJSON(d) = {}
  BY <1>4, <1>5 DEF inspectJSON, Proper
<1>. QED BY <1>2, <1>4, <1>6 DEF decodeStrict, Proper, d

\* The members of an object, in a batch.
LEMMA MembersOf ==
  ASSUME NEW b, NEW m \in BatchMembers(b)
  PROVE  /\ m.of = Root /\ m.name = "source" => b.source # <<>>
         /\ m.of = <<"artifact">> /\ m.name = "uri" => b.source # <<>> /\ b.source[1].uri
         /\ \A k : m.of = ClaimAt(k) =>
              k \in 1..Len(b.claims) /\ m \in ClaimMembers(b.claims[k], k)
<1>1. \A n : ClaimAt(n) # Root /\ ClaimAt(n) # <<"producer">> /\ ClaimAt(n) # <<"source">>
             /\ ClaimAt(n) # <<"artifact">>
  BY DEF ClaimAt, Root
<1>2. /\ Root # <<"producer">> /\ Root # <<"source">> /\ Root # <<"artifact">>
      /\ <<"producer">> # <<"artifact">>
  BY DEF Root
<1>3. CASE m \in HeaderMembers(b)
  <2>1. \E v : \/ m = member(Root, "profile", v) \/ m = member(Root, "producer", v)
               \/ \E name : m = member(<<"producer">>, name, v)
    BY <1>3 DEF HeaderMembers
  <2>2. /\ m.of = Root \/ m.of = <<"producer">>
        /\ m.of = Root => m.name \in {"profile", "producer"}
    BY <2>1, <1>2, MemberFields
  <2>. QED BY <1>1, <1>2, <2>2
<1>4. CASE b.source # <<>> /\ m \in SourceMembers(b.source[1])
  <2>. DEFINE r == b.source[1]
  <2>1. \E v : \/ m \in {member(Root, "source", v), member(<<"source">>, "digest", v),
                         member(<<"source">>, "media_type", v),
                         member(<<"source">>, "artifact", v), member(<<"artifact">>, "mode", v)}
               \/ r.uri /\ m = member(<<"artifact">>, "uri", v)
    BY <1>4 DEF SourceMembers
  <2>. HIDE DEF r
  <2>2. m.of \in {Root, <<"source">>, <<"artifact">>}
    BY <2>1, MemberFields
  <2>3. m.name = "uri" => r.uri
    BY <2>1, MemberFields
  <2>. QED BY <1>1, <1>4, <2>2, <2>3 DEF r
<1>5. CASE m = member(Root, "claims", Given(Len(b.claims)))
  <2>1. m.of = Root /\ m.name = "claims"
    BY <1>5, MemberFields
  <2>. QED BY <1>1, <1>2, <2>1
<1>6. ASSUME NEW n \in 1..Len(b.claims), m \in ClaimMembers(b.claims[n], n)
      PROVE  /\ m.of = ClaimAt(n)
             /\ \A k : ClaimAt(n) = ClaimAt(k) => n = k
  <2>1. \E name, v : m = member(ClaimAt(n), name, v)
    BY <1>6 DEF ClaimMembers
  <2>. QED BY <2>1, MemberFields DEF ClaimAt
<1>. QED BY <1>1, <1>3, <1>4, <1>5, <1>6 DEF BatchMembers

LEMMA OptionalMembers ==
  ASSUME NEW c, NEW n, NEW m \in ClaimMembers(c, n)
  PROVE  /\ m.name = "confidence_ppm" => c.confidence # <<>>
         /\ m.name = "evidence" => c.evidence # <<>>
<1>. DEFINE of == ClaimAt(n)
<1>1. \/ \E v : m \in {member(of, "external_id", v), member(of, "subject", v),
                       member(of, "predicate", v), member(of, "object", v)}
      \/ c.confidence # <<>> /\ \E v : m = member(of, "confidence_ppm", v)
      \/ c.evidence # <<>> /\ \E v : m = member(of, "evidence", v)
  BY DEF ClaimMembers
<1>. HIDE DEF of
<1>. QED BY <1>1, MemberFields

LEMMA ClaimDecoded ==
  ASSUME NEW b \in Batches, NEW n \in 1..Len(b.claims)
  PROVE  LET d == Canonical(b) IN
         b.claims[n] =
           [external |-> field(d, ClaimAt(n), "external_id", ""),
            subject |-> field(d, ClaimAt(n), "subject", Missing),
            predicate |-> field(d, ClaimAt(n), "predicate", Missing),
            object |-> field(d, ClaimAt(n), "object", Missing),
            confidence |-> optional(d, ClaimAt(n), "confidence_ppm"),
            evidence |-> field(d, ClaimAt(n), "evidence", <<>>)]
<1>. DEFINE d == Canonical(b)
            c == b.claims[n]
            of == ClaimAt(n)
<1>1. Sequence(d.members) /\ Once(d.members) /\ Elements(d.members) = BatchMembers(b)
  BY BatchMarshalled
<1>2. ClaimMembers(c, n) \subseteq BatchMembers(b)
  BY DEF BatchMembers
<1>3. ASSUME NEW m \in BatchMembers(b), m.of = of
      PROVE  /\ m.name = "confidence_ppm" => c.confidence # <<>>
             /\ m.name = "evidence" => c.evidence # <<>>
  BY <1>3, MembersOf, OptionalMembers
<1>4. c \in Claim /\ (c.confidence # <<>> => c.confidence = <<c.confidence[1]>>)
  BY BatchShape
<1>5. c = [external |-> c.external, subject |-> c.subject, predicate |-> c.predicate,
           object |-> c.object, confidence |-> c.confidence, evidence |-> c.evidence]
  <2>. HIDE DEF c
  <2>. QED BY <1>4 DEF Claim
<1>. HIDE DEF d, c, of
<1>6. ASSUME NEW name, NEW v, member(of, name, Given(v)) \in ClaimMembers(c, n), NEW zero
      PROVE  field(d, of, name, zero) = v /\ present(d, of, name)
  BY <1>1, <1>2, <1>6, FieldOf, Values
<1>7. /\ member(of, "external_id", Given(c.external)) \in ClaimMembers(c, n)
      /\ member(of, "subject", Given(c.subject)) \in ClaimMembers(c, n)
      /\ member(of, "predicate", Given(c.predicate)) \in ClaimMembers(c, n)
      /\ member(of, "object", Given(c.object)) \in ClaimMembers(c, n)
  BY DEF ClaimMembers, of
<1>8. /\ field(d, of, "external_id", "") = c.external
      /\ field(d, of, "subject", Missing) = c.subject
      /\ field(d, of, "predicate", Missing) = c.predicate
      /\ field(d, of, "object", Missing) = c.object
  BY <1>6, <1>7
<1>9. optional(d, of, "confidence_ppm") = c.confidence
  <2>1. CASE c.confidence # <<>>
    <3>1. member(of, "confidence_ppm", Given(c.confidence[1])) \in ClaimMembers(c, n)
      BY <2>1 DEF ClaimMembers, of
    <3>2. field(d, of, "confidence_ppm", "") = c.confidence[1] /\ present(d, of, "confidence_ppm")
      BY <1>6, <3>1
    <3>3. optional(d, of, "confidence_ppm") = <<c.confidence[1]>>
      BY <3>2 DEF optional
    <3>. QED BY <1>4, <2>1, <3>3
  <2>2. CASE c.confidence = <<>>
    <3>1. Absent(d, of, "confidence_ppm")
      BY <1>1, <1>3, <2>2 DEF Absent
    <3>2. ~present(d, of, "confidence_ppm")
      BY <1>1, <3>1, FieldAbsent
    <3>. QED BY <2>2, <3>2 DEF optional
  <2>. QED BY <2>1, <2>2
<1>10. field(d, of, "evidence", <<>>) = c.evidence
  <2>1. CASE c.evidence # <<>>
    <3>1. member(of, "evidence", Given(c.evidence)) \in ClaimMembers(c, n)
      BY <2>1 DEF ClaimMembers, of
    <3>. QED BY <1>6, <3>1
  <2>2. CASE c.evidence = <<>>
    <3>1. Absent(d, of, "evidence")
      BY <1>1, <1>3, <2>2 DEF Absent
    <3>2. field(d, of, "evidence", <<>>) = <<>>
      BY <1>1, <3>1, FieldAbsent
    <3>. QED BY <2>2, <3>2
  <2>. QED BY <2>1, <2>2
<1>11. c = [external |-> field(d, of, "external_id", ""),
            subject |-> field(d, of, "subject", Missing),
            predicate |-> field(d, of, "predicate", Missing),
            object |-> field(d, of, "object", Missing),
            confidence |-> optional(d, of, "confidence_ppm"),
            evidence |-> field(d, of, "evidence", <<>>)]
  BY <1>5, <1>8, <1>9, <1>10, Zenon
<1>. QED BY <1>11 DEF d, c, of

LEMMA MarshalDecoded ==
  ASSUME NEW b \in Batches
  PROVE  Batch(Canonical(b)) = b
<1>. DEFINE d == Canonical(b)
            r == b.source[1]
            claims == [n \in 1..field(d, Root, "claims", 0) |->
              [external |-> field(d, ClaimAt(n), "external_id", ""),
               subject |-> field(d, ClaimAt(n), "subject", Missing),
               predicate |-> field(d, ClaimAt(n), "predicate", Missing),
               object |-> field(d, ClaimAt(n), "object", Missing),
               confidence |-> optional(d, ClaimAt(n), "confidence_ppm"),
               evidence |-> field(d, ClaimAt(n), "evidence", <<>>)]]
            source == IF ~present(d, Root, "source") THEN <<>> ELSE
              <<[digest |-> field(d, <<"source">>, "digest", ""),
                 media |-> field(d, <<"source">>, "media_type", ""),
                 mode |-> field(d, <<"artifact">>, "mode", ""),
                 uri |-> field(d, <<"artifact">>, "uri", FALSE)]>>
            producer == [name |-> field(d, <<"producer">>, "name", ""),
                         schema |-> field(d, <<"producer">>, "schema_identity", "")]
<1>1. Sequence(d.members) /\ Once(d.members) /\ Elements(d.members) = BatchMembers(b)
  BY BatchMarshalled
<1>2. b = [profile |-> b.profile, producer |-> b.producer, run |-> b.run,
           source |-> b.source, claims |-> b.claims]
      /\ b.producer = [name |-> b.producer.name, schema |-> b.producer.schema]
  BY BatchShape DEF AnyBatch
<1>3. Batch(d) = [profile |-> field(d, Root, "profile", ""), producer |-> producer,
                  run |-> field(d, <<"producer">>, "run_id", ""), source |-> source,
                  claims |-> claims]
  BY DEF Batch, decode
<1>4. /\ member(Root, "profile", Given(b.profile)) \in BatchMembers(b)
      /\ member(<<"producer">>, "name", Given(b.producer.name)) \in BatchMembers(b)
      /\ member(<<"producer">>, "run_id", Given(b.run)) \in BatchMembers(b)
      /\ member(<<"producer">>, "schema_identity", Given(b.producer.schema)) \in BatchMembers(b)
      /\ member(Root, "claims", Given(Len(b.claims))) \in BatchMembers(b)
  BY DEF BatchMembers, HeaderMembers
<1>5. claims = b.claims
  <2>1. field(d, Root, "claims", 0) = Len(b.claims)
    <3>. HIDE DEF d
    <3>. QED BY <1>1, <1>4, FieldOf, Values
  <2>2. \A n \in 1..Len(b.claims) : b.claims[n] = claims[n]
    BY <2>1, ClaimDecoded
  <2>3. b.claims = [n \in 1..Len(b.claims) |-> b.claims[n]]
    BY BatchShape
  <2>4. claims = [n \in 1..Len(b.claims) |-> claims[n]]
    BY <2>1
  <2>. HIDE DEF claims
  <2>. QED BY <2>2, <2>3, <2>4
<1>. HIDE DEF d, claims
<1>6. ASSUME NEW of, NEW name, NEW v, member(of, name, Given(v)) \in BatchMembers(b), NEW zero
      PROVE  field(d, of, name, zero) = v
  BY <1>1, <1>6, FieldOf, Values
<1>7. /\ field(d, Root, "profile", "") = b.profile
      /\ field(d, <<"producer">>, "name", "") = b.producer.name
      /\ field(d, <<"producer">>, "schema_identity", "") = b.producer.schema
      /\ field(d, <<"producer">>, "run_id", "") = b.run
  BY <1>4, <1>6
<1>8. producer = b.producer
  BY <1>2, <1>7
<1>9. source = b.source
  <2>1. CASE b.source = <<>>
    <3>1. Absent(d, Root, "source")
      BY <1>1, <2>1, MembersOf DEF Absent
    <3>2. ~present(d, Root, "source")
      BY <1>1, <3>1, FieldAbsent
    <3>. QED BY <2>1, <3>2
  <2>2. CASE b.source # <<>>
    <3>1. b.source = <<r>> /\ r \in Source
      BY <2>2, BatchShape
    <3>2. SourceMembers(r) \subseteq BatchMembers(b)
      BY <2>2 DEF BatchMembers
    <3>. HIDE DEF r
    <3>3. /\ member(Root, "source", Nested) \in SourceMembers(r)
          /\ member(<<"source">>, "digest", Given(r.digest)) \in SourceMembers(r)
          /\ member(<<"source">>, "media_type", Given(r.media)) \in SourceMembers(r)
          /\ member(<<"artifact">>, "mode", Given(r.mode)) \in SourceMembers(r)
          /\ r.uri => member(<<"artifact">>, "uri", Given(TRUE)) \in SourceMembers(r)
      BY DEF SourceMembers
    <3>4. present(d, Root, "source")
      BY <1>1, <3>2, <3>3, FieldOf
    <3>5. /\ field(d, <<"source">>, "digest", "") = r.digest
          /\ field(d, <<"source">>, "media_type", "") = r.media
          /\ field(d, <<"artifact">>, "mode", "") = r.mode
      BY <1>6, <3>2, <3>3
    <3>6. field(d, <<"artifact">>, "uri", FALSE) = r.uri
      <4>0. r.uri \in BOOLEAN
        BY <3>1 DEF Source
      <4>1. CASE r.uri
        <5>1. field(d, <<"artifact">>, "uri", FALSE) = TRUE
          BY <1>6, <3>2, <3>3, <4>1
        <5>. QED BY <4>0, <4>1, <5>1
      <4>2. CASE ~r.uri
        <5>1. Absent(d, <<"artifact">>, "uri")
          BY <1>1, <4>2, MembersOf DEF r, Absent
        <5>2. field(d, <<"artifact">>, "uri", FALSE) = FALSE
          BY <1>1, <5>1, FieldAbsent
        <5>. QED BY <4>0, <4>2, <5>2
      <4>. QED BY <4>1, <4>2
    <3>7. r = [digest |-> r.digest, media |-> r.media, mode |-> r.mode, uri |-> r.uri]
      BY <3>1 DEF Source
    <3>8. r = [digest |-> field(d, <<"source">>, "digest", ""),
               media |-> field(d, <<"source">>, "media_type", ""),
               mode |-> field(d, <<"artifact">>, "mode", ""),
               uri |-> field(d, <<"artifact">>, "uri", FALSE)]
      BY <3>5, <3>6, <3>7, Zenon
    <3>. QED BY <3>1, <3>4, <3>8
  <2>. QED BY <2>1, <2>2
<1>. HIDE DEF producer, source
<1>10. Batch(d) = b
  BY <1>2, <1>3, <1>5, <1>7, <1>8, <1>9
<1>. QED BY <1>10 DEF d

\* What is past the canonical limit and was held to it.
LimitInv ==
  /\ batch \in Batches
  /\ phase \in {"compile", "submit", "sent"} /\ enforce => batch \notin LargeJSON

LEMMA LimitStep == LimitInv /\ [Next]_vars => LimitInv'
<1>. SUFFICES ASSUME LimitInv, [Next]_vars PROVE LimitInv'
  OBVIOUS
<1>1. CASE \E b \in Batches, e \in BOOLEAN : Call(b, e)
  BY <1>1 DEF Call, LimitInv
<1>2. CASE Canonicalize
  BY <1>2 DEF Canonicalize, Finish, LimitInv
<1>3. CASE CheckHeader \/ CheckClaim \/ CheckUnique \/ CompileClaim \/ NextLoop
           \/ Submit \/ Execute \/ Lost
  <2>1. UNCHANGED <<batch, enforce>>
    BY <1>3 DEF CheckHeader, CheckClaim, CheckUnique, CompileClaim, NextLoop, Submit,
                Execute, Lost
  <2>2. phase' \in {"compile", "submit", "sent"} => phase \in {"compile", "submit", "sent"}
    BY <1>3 DEF CheckHeader, CheckClaim, CheckUnique, CompileClaim, NextLoop, Submit,
                Execute, Lost, Finish
  <2>. QED BY <2>1, <2>2 DEF LimitInv
<1>4. CASE UNCHANGED vars
  BY <1>4 DEF vars, LimitInv
<1>. QED BY <1>1, <1>2, <1>3, <1>4 DEF Next

\* What is submitted is what its canonical JSON says; and a batch that came as a
\* typed value is accepted from there, because its canonical JSON was measured.
THEOREM CanonicalRoundTripHolds == JSpec => []CanonicalRoundTrip
<1>1. Init => LimitInv
  BY DEF Init, LimitInv
<1>2. Spec => []LimitInv
  BY <1>1, LimitStep, PTL DEF Spec
<1>3. LimitInv => CanonicalRoundTrip
  BY MarshalAccepted, MarshalDecoded DEF LimitInv, CanonicalRoundTrip
<1>. QED BY <1>2, <1>3, DocumentsImplementBatches, PTL
=============================================================================

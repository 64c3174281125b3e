----------------------------- MODULE StrictDecode -----------------------------
(***************************************************************************)
(* Which JSON documents ingest.Parse decodes, and to what batch.  A        *)
(* document is the list of the members of its objects in the order of the  *)
(* text; what is refused from the text alone (size, UTF-8, surrogates,     *)
(* syntax, depth, trailing content) makes it not "intact".  A member has   *)
(* the text that names it, "spelled", and the field that encoding/json     *)
(* matches it with, "name": fields match without regard to case.           *)
(* Constant-level.                                                         *)
(***************************************************************************)
EXTENDS Integers, SequencesExt

Given(v) == <<"given", v>>
Nested == <<"nested">>      \* an object, whose members follow
Null == <<"null">>
Mistyped == <<"mistyped">>  \* a value of another type than the field's

member(of, name, value) == [name |-> name, spelled |-> name, value |-> value, of |-> of]

\* Objects by their place in the batch, and the fields of each.
Root == <<>>
ClaimAt(n) == <<"claims", n>>
fields(of) ==
  CASE of = Root -> {"profile", "producer", "source", "claims"}
    [] of = <<"producer">> -> {"name", "schema_identity", "run_id"}
    [] of = <<"source">> -> {"digest", "media_type", "artifact"}
    [] of = <<"artifact">> -> {"mode", "uri"}
    [] OTHER -> {"external_id", "subject", "predicate", "object", "confidence_ppm", "evidence"}

\* Mutant: names are not compared with those before them.
inspectJSON_NoNames(d) == {m \in {d.members[n] : n \in DOMAIN d.members} : m.value = Null}

\* The members that inspectJSON refuses: explicit nulls, and names spelled like
\* an earlier one of the same object.
inspectJSON(d) ==
  {d.members[n] : n \in {k \in DOMAIN d.members :
     \/ d.members[k].value = Null
     \/ \E j \in 1..k - 1 : d.members[j].of = d.members[k].of
                            /\ d.members[j].spelled = d.members[k].spelled}}

\* decodeStrict returns no error.
decodeStrict(d) ==
  /\ d.intact
  /\ inspectJSON(d) = {}
  /\ \A n \in DOMAIN d.members : LET m == d.members[n] IN
       m.name \in fields(m.of) /\ m.value # Mistyped

\* What encoding/json leaves in a field: the value of the last member that
\* matches it, or else the zero value.
field(d, of, name, zero) ==
  LET at == {n \in DOMAIN d.members : d.members[n].of = of /\ d.members[n].name = name}
  IN IF at = {} THEN zero
     ELSE d.members[CHOOSE n \in at : \A k \in at : k <= n].value[2]

present(d, of, name) ==
  \E n \in DOMAIN d.members : d.members[n].of = of /\ d.members[n].name = name

optional(d, of, name) == IF present(d, of, name) THEN <<field(d, of, name, "")>> ELSE <<>>

\* The batch, with the empty text and label for what is absent.
decode(d, missing) ==
  [profile |-> field(d, Root, "profile", ""),
   producer |-> [name |-> field(d, <<"producer">>, "name", ""),
                 schema |-> field(d, <<"producer">>, "schema_identity", "")],
   run |-> field(d, <<"producer">>, "run_id", ""),
   source |-> IF ~present(d, Root, "source") THEN <<>> ELSE
     <<[digest |-> field(d, <<"source">>, "digest", ""),
        media |-> field(d, <<"source">>, "media_type", ""),
        mode |-> field(d, <<"artifact">>, "mode", ""),
        uri |-> field(d, <<"artifact">>, "uri", FALSE)]>>,
   claims |-> [n \in 1..field(d, Root, "claims", 0) |->
     [external |-> field(d, ClaimAt(n), "external_id", ""),
      subject |-> field(d, ClaimAt(n), "subject", missing),
      predicate |-> field(d, ClaimAt(n), "predicate", missing),
      object |-> field(d, ClaimAt(n), "object", missing),
      confidence |-> optional(d, ClaimAt(n), "confidence_ppm"),
      evidence |-> field(d, ClaimAt(n), "evidence", <<>>)]]]

\* How the documents of a batch nest: each member belongs to an object of that
\* batch, and holds an object, the number of claims, or the value of its field.
Nests(d) ==
  LET objects == {Root, <<"producer">>}
                 \cup (IF present(d, Root, "source") THEN {<<"source">>, <<"artifact">>} ELSE {})
                 \cup {ClaimAt(k) : k \in 1..field(d, Root, "claims", 0)}
  IN \A n \in DOMAIN d.members : LET m == d.members[n] IN
       /\ m.of \in objects
       /\ m.value = IF m.name \in {"producer", "source", "artifact"} THEN Nested
                    ELSE Given(m.value[2])
       /\ m.name = "claims" => m.value[2] \in Nat

-----------------------------------------------------------------------------
given(cond, m) == IF cond THEN <<m>> ELSE <<>>

marshalSource(r) ==
  <<member(Root, "source", Nested),
    member(<<"source">>, "digest", Given(r.digest)),
    member(<<"source">>, "media_type", Given(r.media)),
    member(<<"source">>, "artifact", Nested),
    member(<<"artifact">>, "mode", Given(r.mode))>>
  \o given(r.uri, member(<<"artifact">>, "uri", Given(TRUE)))

marshalClaim(c, n) ==
  <<member(ClaimAt(n), "external_id", Given(c.external)),
    member(ClaimAt(n), "subject", Given(c.subject)),
    member(ClaimAt(n), "predicate", Given(c.predicate)),
    member(ClaimAt(n), "object", Given(c.object))>>
  \o given(c.confidence # <<>>, member(ClaimAt(n), "confidence_ppm", Given(c.confidence[1])))
  \o given(c.evidence # <<>>, member(ClaimAt(n), "evidence", Given(c.evidence)))

\* The canonical JSON of a batch: json.Marshal with the omitempty of its fields.
\* Parse refuses it unless it fits in MaxInputBytes.
Marshal(b, fits) ==
  [intact |-> fits,
   members |->
     <<member(Root, "profile", Given(b.profile)),
       member(Root, "producer", Nested),
       member(<<"producer">>, "name", Given(b.producer.name)),
       member(<<"producer">>, "run_id", Given(b.run)),
       member(<<"producer">>, "schema_identity", Given(b.producer.schema))>>
     \o (IF b.source = <<>> THEN <<>> ELSE marshalSource(b.source[1]))
     \o <<member(Root, "claims", Given(Len(b.claims)))>>
     \o FlattenSeq([n \in 1..Len(b.claims) |-> marshalClaim(b.claims[n], n)])]
=============================================================================

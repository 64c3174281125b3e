--------------------------- MODULE MCIngestCompile ---------------------------
(***************************************************************************)
(* A few claims over two user labels, among them two that differ only in   *)
(* confidence and one that tries to speak for the compiler, in batches of  *)
(* up to three claims under both profiles, with and without a source; two  *)
(* that are large, in their texts or in their canonical JSON only; and     *)
(* canonical documents of some of them, whole and tampered with.           *)
(***************************************************************************)
EXTENDS IngestJSON, TLC

A == <<"user", "a">>
B == <<"user", "b">>
Schema == <<"user", "schema">>

producer == [name |-> "p", schema |-> "schema"]
source == [digest |-> "d", media |-> "text", mode |-> "link", uri |-> TRUE]
claim(x, s, p, o, conf, ev) ==
  [external |-> x, subject |-> s, predicate |-> p, object |-> o,
   confidence |-> conf, evidence |-> ev]

plain == claim("1", A, B, U64(7), <<>>, <<>>)
surer == claim("2", A, B, U64(7), <<9>>, <<>>)
again == claim("3", A, B, U64(7), <<>>, <<>>)
cited == claim("4", B, B, A, <<>>, <<"quote">>)
over  == claim("4", B, A, A, <<1000001>>, <<>>)
huge  == claim("6", B, A, U64(MaxJSSafeInteger + 1), <<>>, <<>>)
blank == claim("7", Missing, A, A, <<>>, <<>>)

\* The entity of the proposal "plain", spoken for by a user.
proposal == [profile |-> "knowledge-proposals", producer |-> producer, run |-> "r",
             source |-> <<>>, claims |-> <<plain>>]
forged == claim("5", claimEntity(proposal, plain), Ingest("initial_status"),
                Ingest("accepted"), <<>>, <<>>)

\* A batch of long texts, and one whose texts only get long when escaped.
long == [proposal EXCEPT !.run = "long"]
angled == [proposal EXCEPT !.run = "<<<"]

Labels == {A, B, Schema, Missing, forged.subject, forged.predicate, forged.object}

Claims == {plain, surer, again, cited, forged}
Lists == {<<>>} \cup {<<c>> : c \in Claims \cup {over, huge, blank}} \cup {<<c, d>> : c, d \in Claims}
         \cup {<<plain, cited, again>>, <<cited, over>>}

SmallBatches ==
  [profile : {"knowledge-proposals", "trusted-facts"}, producer : {producer},
   run : {"r"}, source : {<<>>, <<source>>}, claims : Lists]
  \cup {[proposal EXCEPT !.run = "r2"], [proposal EXCEPT !.profile = "other"],
        [proposal EXCEPT !.profile = ""],
        [proposal EXCEPT !.source = <<[source EXCEPT !.uri = FALSE]>>],
        long, angled}

\* What Marshal escapes ("<" as \u003c) is counted only in the canonical JSON.
LongBatches == {long}
LargeJSONBatches == LongBatches \cup {angled}

\* A batch with every optional field, and one of two claims.
full == [proposal EXCEPT !.source = <<source>>, !.claims = <<surer, cited>>]

\* Documents of a batch: as short as they can be written, without escapes.
doc(b) == Marshal(b, TRUE)
broken(d) == [d EXCEPT !.intact = FALSE]
with(d, m) == [d EXCEPT !.members = Append(@, m)]
spelled(m, text) == [m EXCEPT !.spelled = text]
trusted == member(Root, "profile", Given("trusted-facts"))

SomeDocuments ==
  {doc(full), doc([proposal EXCEPT !.profile = "trusted-facts"]), doc(angled),
   broken(doc(proposal)),
   [doc(proposal) EXCEPT !.members = Tail(@)]}
  \cup {with(doc(proposal), m) :
          m \in {trusted, spelled(trusted, "Profile"),
                member(Root, "source", Null), member(Root, "other", Given("")),
                member(<<"producer">>, "name", Mistyped),
                member(ClaimAt(1), "predicate", Given(B))}}
  \cup {with([doc(proposal) EXCEPT !.members[1] = spelled(@, "Profile")],
              spelled(trusted, text)) : text \in {"Profile", "PROFILE"}}
=============================================================================

--------------------------- MODULE MCWriteValidate ---------------------------
(***************************************************************************)
(* All requests of at most MaxEntries entries, grouped as a Request lists  *)
(* them: records, retractions, corrections, expirations, persistence.      *)
(***************************************************************************)
EXTENDS WriteValidate, TLC

CONSTANTS s1, s2, x1, x2, f1, f2, MaxEntries

\* Entries differ only in what their kind uses; the other fields are fixed.
Used == {e \in Entry :
           /\ Targets(e) <=> e.fact # NoFact
           /\ ~Owns(e) /\ ~Places(e) => e.slot = s1 /\ e.object = x1
           /\ OwnsSlot(e) /\ e.kind = "retractSlot" => e.object = x1}

Rank(e) == CASE e.kind \in {"append", "ensure", "replace"} -> 1
             [] e.kind \in {"retractFact", "retractExact", "retractSlot"} -> 2
             [] e.kind = "correct" -> 3
             [] e.kind = "expire" -> 4
             [] e.kind = "persist" -> 5

SmallRequests ==
  {r \in UNION {[1..n -> Used] : n \in 0..MaxEntries} :
     \A n \in 1..Len(r) - 1 : Rank(r[n]) <= Rank(r[n + 1])}
=============================================================================

------------------------------ MODULE WriteRules ------------------------------
(***************************************************************************)
(* The entries of a typed facts-write and what it means for two of them to *)
(* conflict, stated over pairs of entries.  Constant-level: WriteValidate  *)
(* checks the code's incremental bookkeeping against it, and IngestCompile *)
(* asks whether compiled batches keep it.                                  *)
(***************************************************************************)
EXTENDS Naturals, Sequences

CONSTANTS Slot,      \* subject/predicate pairs
          Object,
          Fact,      \* fact IDs
          NoFact

ASSUME WriteRulesAssumption == NoFact \notin Fact

\* Record modes, retraction selectors and the other mutations, in the order in
\* which a Request lists them.
Kind == {"append", "ensure", "replace", "retractFact", "retractExact", "retractSlot",
         "correct", "expire", "persist"}

\* An entry: what it does, where it writes, and which fact it targets.
Entry == [kind : Kind, slot : Slot, object : Object, fact : Fact \cup {NoFact}]

\* Entries that name an active fact by its ID.
Targets(e) == e.kind \in {"retractFact", "correct", "expire", "persist"}

\* Entries that own a triple or a whole slot, and those that only write to one.
OwnsTriple(e) == e.kind \in {"ensure", "retractExact"}
OwnsSlot(e) == e.kind \in {"replace", "retractSlot"}
Owns(e) == OwnsTriple(e) \/ OwnsSlot(e)
Places(e) == e.kind \in {"append", "correct"}

\* The places of two entries overlap when one is the whole slot of the other.
Overlap(e, f) ==
  e.slot = f.slot /\ (OwnsSlot(e) \/ OwnsSlot(f) \/ e.object = f.object)

SameTarget(e, f) == Targets(e) /\ Targets(f) /\ e.fact = f.fact

\* Two owners of exactly the same thing.
SameOwned(e, f) ==
  /\ e.slot = f.slot
  /\ \/ OwnsSlot(e) /\ OwnsSlot(f)
     \/ OwnsTriple(e) /\ OwnsTriple(f) /\ e.object = f.object

Conflicts(e, f) ==
  \/ SameTarget(e, f)
  \/ Owns(e) /\ (Owns(f) \/ Places(f)) /\ Overlap(e, f)

\* A request is sound when no two of its entries conflict.
Conflicting(r) == \E i, j \in 1..Len(r) : i # j /\ Conflicts(r[i], r[j])
=============================================================================

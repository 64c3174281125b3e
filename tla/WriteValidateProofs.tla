-------------------------- MODULE WriteValidateProofs --------------------------
(***************************************************************************)
(* The three passes of write.Request.Validate decide exactly the pairwise  *)
(* conflicts of WriteRules, for requests of any length.                    *)
(***************************************************************************)
EXTENDS WriteValidate, TLAPS

Index == 1..Len(request)

\* Which entries each pass has dealt with.
DoneT(n) == pass \in {"claims", "destinations"} \/ (pass = "targets" /\ n < i) \/ verdict = "accepted"
DoneC(n) == pass = "destinations" \/ (pass = "claims" /\ n < i) \/ verdict = "accepted"
DoneD(n) == (pass = "destinations" /\ n < i) \/ verdict = "accepted"

\* The claimed facts are those of the entries dealt with, each claimed once.
TargetInv ==
  /\ \A n \in Index : DoneT(n) /\ Targets(request[n]) => request[n].fact \in factTargets
  /\ pass # "done" => \A f \in factTargets : \E n \in Index :
       DoneT(n) /\ Targets(request[n]) /\ request[n].fact = f
  /\ \A m, n \in Index : DoneT(m) /\ DoneT(n) /\ m # n => ~SameTarget(request[m], request[n])

\* The owned slots and triples are those of the entries dealt with.
OwnedInv ==
  /\ \A n \in Index : DoneC(n) =>
       /\ OwnsSlot(request[n]) => request[n].slot \in slotOwner
       /\ OwnsTriple(request[n]) => <<request[n].slot, request[n].object>> \in exactOwner
  /\ pass # "done" => \A s \in slotOwner : \E n \in Index :
       DoneC(n) /\ OwnsSlot(request[n]) /\ request[n].slot = s
  /\ pass # "done" => \A x \in exactOwner : \E n \in Index :
       DoneC(n) /\ OwnsTriple(request[n]) /\ x = <<request[n].slot, request[n].object>>

\* No two owners overlap, and nothing dealt with is placed on what is owned.
ApartInv ==
  /\ \A m, n \in Index : DoneC(m) /\ DoneC(n) /\ m # n /\ Owns(request[m]) /\ Owns(request[n])
       => ~Overlap(request[m], request[n])
  /\ \A n \in Index : DoneD(n) /\ Places(request[n]) =>
       request[n].slot \notin slotOwner /\ <<request[n].slot, request[n].object>> \notin exactOwner

\* No entry has been dealt with when the passes start.
StartInv == pass = "shape" => i = 1

VInv == TypeOK /\ StartInv /\ TargetInv /\ OwnedInv /\ ApartInv /\ RefusalIsExact

\* The invariant holds initially: nothing has been dealt with.
LEMMA InitVInv == Init => VInv
<1> SUFFICES ASSUME Init PROVE VInv
  OBVIOUS
<1> USE WriteValidateAssumption
<1>1. TypeOK
  <2>1. request \in Seq(Entry)
    BY DEF Init
  <2>2. 1 \in 1..Len(request) + 1
    BY <2>1
  <2> QED
    BY <2>1, <2>2 DEF Init, TypeOK, Verdict
<1>2. StartInv /\ TargetInv /\ OwnedInv /\ ApartInv /\ RefusalIsExact
  BY DEF Init, StartInv, TargetInv, OwnedInv, ApartInv, RefusalIsExact, DoneT, DoneC, DoneD
<1> QED
  BY <1>1, <1>2 DEF VInv

\* A refusal keeps the invariant when it is justified.
LEMMA RefuseKeeps ==
  ASSUME VInv, NEW code \in Verdict \ {"none", "accepted"}, Refuse(code), pass # "done",
         UNCHANGED <<request, vocabulary>>, RefusalIsExact'
  PROVE  VInv'
<1>1. verdict = "none"
  BY DEF VInv, TypeOK
<1>2. TypeOK'
  BY DEF VInv, TypeOK, Refuse, maps, Verdict
<1>3. \A n : ~DoneT(n)' /\ ~DoneC(n)' /\ ~DoneD(n)'
  BY DEF Refuse, DoneT, DoneC, DoneD, Verdict
<1>4. pass' = "done"
  BY DEF Refuse
<1> QED
  BY <1>2, <1>3, <1>4 DEF VInv, StartInv, TargetInv, OwnedInv, ApartInv

\* An entry of the request, and its place in the list.
LEMMA EntryAt ==
  ASSUME TypeOK, i <= Len(request)
  PROVE  i \in Index /\ request[i] \in Entry /\ i + 1 \in 1..Len(request) + 1
  BY DEF TypeOK, Index

\* Shape keeps the invariant.
LEMMA ShapeKeeps == VInv /\ Shape => VInv'
<1> SUFFICES ASSUME VInv, Shape PROVE VInv'
  OBVIOUS
<1>1. verdict = "none" /\ pass = "shape"
  BY DEF VInv, TypeOK, Shape
<1>2. ASSUME NEW code \in {"empty_request", "vocabulary_required", "vocabulary_unnecessary"},
             Refuse(code)
      PROVE  VInv'
  <2>1. RefusalIsExact'
    BY <1>2 DEF RefusalIsExact, Refuse
  <2> QED
    BY <1>1, <1>2, <2>1, RefuseKeeps DEF Shape, Verdict
<1>3. ASSUME request # <<>>, pass' = "targets", UNCHANGED <<i, maps, verdict>>
      PROVE  VInv'
  <2>1. TypeOK'
    BY <1>1, <1>3 DEF VInv, TypeOK, Shape, maps
  <2>2. factTargets = {} /\ slotOwner = {} /\ exactOwner = {}
    BY <1>1 DEF VInv, TargetInv, OwnedInv, DoneT, DoneC
  <2>3. i' = 1
    BY <1>1, <1>3 DEF VInv, StartInv
  <2>4. \A n \in Index : ~DoneT(n)' /\ ~DoneC(n)' /\ ~DoneD(n)'
    BY <1>1, <1>3, <2>3 DEF DoneT, DoneC, DoneD, Index, VInv, TypeOK
  <2>5. Index' = Index /\ request' = request /\ maps' = maps /\ pass' = "targets"
    BY <1>3 DEF Shape, Index
  <2> QED
    BY <1>1, <1>3, <2>1, <2>2, <2>4, <2>5
    DEF VInv, StartInv, TargetInv, OwnedInv, ApartInv, RefusalIsExact, DoneT, DoneC, DoneD, Shape, maps, Index
<1> QED
  BY <1>2, <1>3 DEF Shape

\* The target pass keeps the invariant: a fact is claimed once.
LEMMA TargetKeeps == VInv /\ TargetPass => VInv'
<1> SUFFICES ASSUME VInv, TargetPass PROVE VInv'
  OBVIOUS
<1>1. /\ pass = "targets" /\ verdict = "none" /\ i \in Index /\ i \in Nat /\ i + 1 \in 1..Len(request) + 1
      /\ Index \subseteq Nat /\ request[i] \in Entry
      /\ request' = request /\ vocabulary' = vocabulary /\ Index' = Index
  BY EntryAt DEF VInv, TypeOK, TargetPass, Index
<1>2. slotOwner = {} /\ exactOwner = {}
  BY <1>1 DEF VInv, OwnedInv, DoneC
<1>3. CASE Targets(request[i]) /\ request[i].fact \in factTargets
  <2>1. Refuse("duplicate_target")
    BY <1>3 DEF TargetPass, claimFactTarget
  <2>2. PICK n \in Index : DoneT(n) /\ Targets(request[n]) /\ request[n].fact = request[i].fact
    BY <1>1, <1>3 DEF VInv, TargetInv
  <2>3. n # i
    BY <1>1, <2>2 DEF DoneT
  <2>4. SameTarget(request[n], request[i])
    BY <1>3, <2>2 DEF SameTarget
  <2>5. RefusalIsExact'
    BY <1>1, <2>1, <2>3, <2>4 DEF RefusalIsExact, Refuse, Index
  <2> QED
    BY <1>1, <2>1, <2>5, RefuseKeeps DEF Verdict
<1>4. CASE ~(Targets(request[i]) /\ request[i].fact \in factTargets)
  <2>1. i' = i + 1 /\ pass' = pass /\ verdict' = verdict /\ slotOwner' = slotOwner /\ exactOwner' = exactOwner
    BY <1>4 DEF TargetPass, claimFactTarget, Step, maps
  <2>2. factTargets' = IF Targets(request[i]) THEN factTargets \cup {request[i].fact} ELSE factTargets
    BY <1>4 DEF TargetPass, claimFactTarget, Step, maps
  <2>3. TypeOK'
    BY <1>1, <2>1, <2>2 DEF VInv, TypeOK, Entry
  <2>4. \A n \in Index : DoneT(n)' <=> (DoneT(n) \/ n = i)
    BY <1>1, <2>1 DEF DoneT
  <2>5. \A n \in Index : ~DoneC(n)' /\ ~DoneD(n)'
    BY <1>1, <2>1 DEF DoneC, DoneD
  <2>6. TargetInv'
    <3>1. \A n \in Index : DoneT(n)' /\ Targets(request[n]) => request[n].fact \in factTargets'
      BY <2>2, <2>4 DEF VInv, TargetInv
    <3>2. \A f \in factTargets' : \E n \in Index : DoneT(n)' /\ Targets(request[n]) /\ request[n].fact = f
      BY <1>1, <2>2, <2>4 DEF VInv, TargetInv
    <3>3. \A m \in Index : DoneT(m) /\ m # i => ~SameTarget(request[m], request[i]) /\ ~SameTarget(request[i], request[m])
      BY <1>4 DEF VInv, TargetInv, SameTarget
    <3>4. \A m, n \in Index : DoneT(m)' /\ DoneT(n)' /\ m # n => ~SameTarget(request[m], request[n])
      BY <2>4, <3>3 DEF VInv, TargetInv
    <3> QED
      BY <1>1, <3>1, <3>2, <3>4 DEF TargetInv
  <2>7. OwnedInv' /\ ApartInv'
    BY <1>1, <1>2, <2>1, <2>5 DEF OwnedInv, ApartInv
  <2>8. RefusalIsExact' /\ StartInv'
    BY <1>1, <2>1 DEF RefusalIsExact, StartInv
  <2> QED
    BY <2>3, <2>6, <2>7, <2>8 DEF VInv
<1> QED
  BY <1>3, <1>4

\* The claim pass keeps the invariant: owners stay apart.
LEMMA ClaimKeeps == VInv /\ ClaimPass => VInv'
<1> SUFFICES ASSUME VInv, ClaimPass PROVE VInv'
  OBVIOUS
<1> DEFINE e == request[i]
<1>1. /\ pass = "claims" /\ verdict = "none" /\ i \in Index /\ i \in Nat /\ i + 1 \in 1..Len(request) + 1
      /\ Index \subseteq Nat /\ e \in Entry
      /\ request' = request /\ vocabulary' = vocabulary /\ Index' = Index
  BY EntryAt DEF VInv, TypeOK, ClaimPass, Index
<1>2. /\ OwnsTriple(e) => claimExact(e)
      /\ OwnsSlot(e) => claimSlot(e)
      /\ ~Owns(e) => Step /\ UNCHANGED maps
      /\ ~(OwnsTriple(e) /\ OwnsSlot(e))
  BY DEF ClaimPass, Owns, OwnsTriple, OwnsSlot
<1>3. \A s \in slotOwner : \E n \in Index \ {i} : OwnsSlot(request[n]) /\ request[n].slot = s
  BY <1>1 DEF VInv, OwnedInv, DoneC
<1>4. \A x \in exactOwner : \E n \in Index \ {i} :
        OwnsTriple(request[n]) /\ x = <<request[n].slot, request[n].object>>
  BY <1>1 DEF VInv, OwnedInv, DoneC
<1>5. ASSUME NEW n \in Index \ {i}, SameOwned(request[n], e), Refuse("duplicate_target")
      PROVE  VInv'
  <2>1. RefusalIsExact'
    BY <1>1, <1>5 DEF RefusalIsExact, Refuse, Index
  <2> QED
    BY <1>1, <1>5, <2>1, RefuseKeeps DEF Verdict
<1>6. ASSUME NEW n \in Index \ {i}, Owns(request[n]), Owns(e), Overlap(request[n], e),
             ~SameOwned(request[n], e), Refuse("destination_conflict")
      PROVE  VInv'
  <2>1. RefusalIsExact'
    BY <1>1, <1>6 DEF RefusalIsExact, Refuse, Index
  <2> QED
    BY <1>1, <1>6, <2>1, RefuseKeeps DEF Verdict
<1>7. CASE OwnsTriple(e) /\ e.slot \in slotOwner
  <2>1. Refuse("destination_conflict")
    BY <1>2, <1>7 DEF claimExact
  <2>2. PICK n \in Index \ {i} : OwnsSlot(request[n]) /\ request[n].slot = e.slot
    BY <1>3, <1>7
  <2>3. Owns(request[n]) /\ Owns(e) /\ Overlap(request[n], e) /\ ~SameOwned(request[n], e)
    BY <1>2, <1>7, <2>2 DEF Owns, Overlap, SameOwned, OwnsSlot, OwnsTriple
  <2> QED
    BY <1>6, <2>1, <2>3
<1>8. CASE OwnsTriple(e) /\ e.slot \notin slotOwner /\ <<e.slot, e.object>> \in exactOwner
  <2>1. Refuse("duplicate_target")
    BY <1>2, <1>8 DEF claimExact
  <2>2. PICK n \in Index \ {i} : OwnsTriple(request[n]) /\ <<e.slot, e.object>> = <<request[n].slot, request[n].object>>
    BY <1>4, <1>8
  <2>3. SameOwned(request[n], e)
    BY <1>8, <2>2 DEF SameOwned
  <2> QED
    BY <1>5, <2>1, <2>3
<1>9. CASE OwnsSlot(e) /\ e.slot \in slotOwner
  <2>1. Refuse("duplicate_target")
    BY <1>2, <1>9 DEF claimSlot
  <2>2. PICK n \in Index \ {i} : OwnsSlot(request[n]) /\ request[n].slot = e.slot
    BY <1>3, <1>9
  <2>3. SameOwned(request[n], e)
    BY <1>9, <2>2 DEF SameOwned
  <2> QED
    BY <1>5, <2>1, <2>3
<1>10. CASE OwnsSlot(e) /\ e.slot \notin slotOwner /\ exacts(e.slot) # {}
  <2>1. Refuse("destination_conflict")
    BY <1>2, <1>10 DEF claimSlot
  <2>2. PICK x \in exactOwner : x[1] = e.slot
    BY <1>10 DEF exacts
  <2>3. PICK n \in Index \ {i} : OwnsTriple(request[n]) /\ x = <<request[n].slot, request[n].object>>
    BY <1>4
  <2>4. Owns(request[n]) /\ Owns(e) /\ Overlap(request[n], e) /\ ~SameOwned(request[n], e)
    BY <1>2, <1>10, <2>2, <2>3 DEF Owns, Overlap, SameOwned, OwnsSlot, OwnsTriple
  <2> QED
    BY <1>6, <2>1, <2>4
<1>11. ASSUME i' = i + 1, pass' = pass, verdict' = verdict, factTargets' = factTargets,
              slotOwner' = (IF OwnsSlot(e) THEN slotOwner \cup {e.slot} ELSE slotOwner),
              exactOwner' = (IF OwnsTriple(e) THEN exactOwner \cup {<<e.slot, e.object>>} ELSE exactOwner),
              Owns(e) => e.slot \notin slotOwner,
              OwnsTriple(e) => <<e.slot, e.object>> \notin exactOwner,
              OwnsSlot(e) => \A x \in exactOwner : x[1] # e.slot
       PROVE  VInv'
  <2>1. TypeOK'
    <3>1. e.slot \in Slot /\ e.object \in Object
      BY <1>1 DEF Entry
    <3>2. slotOwner' \subseteq Slot /\ exactOwner' \subseteq Slot \X Object
      BY <1>11, <3>1 DEF VInv, TypeOK
    <3> QED
      BY <1>1, <1>11, <3>2 DEF VInv, TypeOK
  <2>2. \A n \in Index : (DoneC(n)' <=> (DoneC(n) \/ n = i)) /\ ~DoneD(n)' /\ DoneT(n)' /\ DoneT(n)
    BY <1>1, <1>11 DEF DoneC, DoneD, DoneT
  <2>3. TargetInv'
    BY <1>1, <1>11, <2>2 DEF VInv, TargetInv
  <2>4. OwnedInv'
    <3>1. \A n \in Index : DoneC(n)' =>
            /\ OwnsSlot(request[n]) => request[n].slot \in slotOwner'
            /\ OwnsTriple(request[n]) => <<request[n].slot, request[n].object>> \in exactOwner'
      BY <1>1, <1>11, <2>2 DEF VInv, OwnedInv
    <3>2. \A s \in slotOwner' : \E n \in Index : DoneC(n)' /\ OwnsSlot(request[n]) /\ request[n].slot = s
      BY <1>1, <1>11, <2>2 DEF VInv, OwnedInv
    <3>3. \A x \in exactOwner' : \E n \in Index :
            DoneC(n)' /\ OwnsTriple(request[n]) /\ x = <<request[n].slot, request[n].object>>
      BY <1>1, <1>11, <2>2 DEF VInv, OwnedInv
    <3> QED
      BY <1>1, <3>1, <3>2, <3>3 DEF OwnedInv
  <2>5. \A m \in Index : DoneC(m) /\ m # i /\ Owns(request[m]) /\ Owns(e) =>
          ~Overlap(request[m], e) /\ ~Overlap(e, request[m])
    <3> SUFFICES ASSUME NEW m \in Index, DoneC(m), m # i, Owns(request[m]), Owns(e),
                        request[m].slot = e.slot,
                        OwnsSlot(request[m]) \/ OwnsSlot(e) \/ request[m].object = e.object
                 PROVE  FALSE
      BY DEF Overlap
    <3>1. ~OwnsSlot(request[m])
      BY <1>11 DEF VInv, OwnedInv
    <3>2. OwnsTriple(request[m]) /\ <<request[m].slot, request[m].object>> \in exactOwner
      BY <3>1 DEF VInv, OwnedInv, Owns
    <3>3. ~OwnsSlot(e)
      BY <1>11, <3>2
    <3> QED
      BY <1>11, <3>1, <3>2, <3>3 DEF Owns
  <2>6. \A m, n \in Index : DoneC(m)' /\ DoneC(n)' /\ m # n /\ Owns(request[m]) /\ Owns(request[n])
          => ~Overlap(request[m], request[n])
    BY <2>2, <2>5 DEF VInv, ApartInv
  <2>7. ApartInv'
    BY <1>1, <2>2, <2>6 DEF ApartInv
  <2>8. RefusalIsExact' /\ StartInv'
    BY <1>1, <1>11 DEF RefusalIsExact, StartInv
  <2> QED
    BY <2>1, <2>3, <2>4, <2>7, <2>8 DEF VInv
<1>12. CASE OwnsTriple(e) /\ e.slot \notin slotOwner /\ <<e.slot, e.object>> \notin exactOwner
  <2>1. /\ i' = i + 1 /\ pass' = pass /\ verdict' = verdict /\ factTargets' = factTargets
        /\ slotOwner' = slotOwner /\ exactOwner' = exactOwner \cup {<<e.slot, e.object>>}
    BY <1>2, <1>12 DEF claimExact, Step
  <2> QED
    BY <1>2, <1>11, <1>12, <2>1
<1>13. CASE OwnsSlot(e) /\ e.slot \notin slotOwner /\ exacts(e.slot) = {}
  <2>1. /\ i' = i + 1 /\ pass' = pass /\ verdict' = verdict /\ factTargets' = factTargets
        /\ exactOwner' = exactOwner /\ slotOwner' = slotOwner \cup {e.slot}
    BY <1>2, <1>13 DEF claimSlot, Step
  <2>2. \A x \in exactOwner : x[1] # e.slot
    BY <1>13 DEF exacts
  <2> QED
    BY <1>2, <1>11, <1>13, <2>1, <2>2
<1>14. CASE ~Owns(e)
  <2>1. /\ i' = i + 1 /\ pass' = pass /\ verdict' = verdict /\ factTargets' = factTargets
        /\ exactOwner' = exactOwner /\ slotOwner' = slotOwner /\ ~OwnsSlot(e) /\ ~OwnsTriple(e)
    BY <1>2, <1>14 DEF Step, maps, Owns
  <2> QED
    BY <1>11, <1>14, <2>1
<1> QED
  BY <1>7, <1>8, <1>9, <1>10, <1>12, <1>13, <1>14 DEF Owns
\* The destination pass keeps the invariant: nothing is placed on what is owned.
LEMMA DestinationKeeps == VInv /\ DestinationPass => VInv'
<1> SUFFICES ASSUME VInv, DestinationPass PROVE VInv'
  OBVIOUS
<1> DEFINE e == request[i]
<1>1. /\ pass = "destinations" /\ verdict = "none" /\ i \in Index /\ i \in Nat /\ i + 1 \in 1..Len(request) + 1
      /\ Index \subseteq Nat /\ e \in Entry
      /\ request' = request /\ vocabulary' = vocabulary /\ Index' = Index
  BY EntryAt DEF VInv, TypeOK, DestinationPass, Index
<1>2. ASSUME Places(e), NEW n \in Index, Owns(request[n]), Overlap(request[n], e),
             Refuse("destination_conflict")
      PROVE  VInv'
  <2>1. n # i /\ ~SameOwned(request[n], e)
    BY <1>1, <1>2 DEF Places, Owns, OwnsSlot, OwnsTriple, SameOwned
  <2>2. RefusalIsExact'
    BY <1>1, <1>2, <2>1 DEF RefusalIsExact, Refuse, Index
  <2> QED
    BY <1>1, <1>2, <2>2, RefuseKeeps DEF Verdict
<1>3. CASE Places(e) /\ e.slot \in slotOwner
  <2>1. Refuse("destination_conflict")
    BY <1>3 DEF DestinationPass, checkDestination
  <2>2. PICK n \in Index : OwnsSlot(request[n]) /\ request[n].slot = e.slot
    BY <1>1, <1>3 DEF VInv, OwnedInv
  <2>3. Owns(request[n]) /\ Overlap(request[n], e)
    BY <2>2 DEF Owns, Overlap
  <2> QED
    BY <1>2, <1>3, <2>1, <2>3
<1>4. CASE Places(e) /\ <<e.slot, e.object>> \in exactOwner
  <2>1. Refuse("destination_conflict")
    BY <1>4 DEF DestinationPass, checkDestination
  <2>2. PICK n \in Index : OwnsTriple(request[n]) /\ <<e.slot, e.object>> = <<request[n].slot, request[n].object>>
    BY <1>1, <1>4 DEF VInv, OwnedInv
  <2>3. Owns(request[n]) /\ Overlap(request[n], e)
    BY <2>2 DEF Owns, Overlap
  <2> QED
    BY <1>2, <1>4, <2>1, <2>3
<1>5. CASE Places(e) => e.slot \notin slotOwner /\ <<e.slot, e.object>> \notin exactOwner
  <2>1. i' = i + 1 /\ pass' = pass /\ verdict' = verdict /\ maps' = maps
    BY <1>5 DEF DestinationPass, checkDestination, Step
  <2>2. TypeOK'
    BY <1>1, <2>1 DEF VInv, TypeOK, maps
  <2>3. \A n \in Index : DoneT(n)' /\ DoneT(n) /\ DoneC(n)' /\ DoneC(n) /\ (DoneD(n)' <=> (DoneD(n) \/ n = i))
    BY <1>1, <2>1 DEF DoneT, DoneC, DoneD
  <2>4. TargetInv' /\ OwnedInv'
    BY <1>1, <2>1, <2>3 DEF VInv, TargetInv, OwnedInv, maps
  <2>5. ApartInv'
    BY <1>1, <1>5, <2>1, <2>3 DEF VInv, ApartInv, maps
  <2>6. RefusalIsExact' /\ StartInv'
    BY <1>1, <2>1 DEF RefusalIsExact, StartInv
  <2> QED
    BY <2>2, <2>4, <2>5, <2>6 DEF VInv
<1> QED
  BY <1>3, <1>4, <1>5

\* Moving to the next pass keeps the invariant: the last pass covered the list.
LEMMA NextPassKeeps == VInv /\ NextPass => VInv'
<1> SUFFICES ASSUME VInv, NextPass PROVE VInv'
  OBVIOUS
<1>1. /\ verdict = "none" /\ request' = request /\ vocabulary' = vocabulary /\ maps' = maps
      /\ Index' = Index /\ Len(request) \in Nat /\ i \in Nat /\ \A n \in Index : n < i /\ n \in Nat /\ ~(n < 1)
  BY DEF VInv, TypeOK, NextPass, Index
<1>2. CASE pass = "targets" /\ pass' = "claims" /\ i' = 1 /\ UNCHANGED verdict
  <2>1. \A n \in Index : DoneT(n)' /\ DoneT(n) /\ ~DoneC(n)' /\ ~DoneC(n) /\ ~DoneD(n)' /\ ~DoneD(n)
    BY <1>1, <1>2 DEF DoneT, DoneC, DoneD
  <2>2. TypeOK'
    BY <1>1, <1>2 DEF VInv, TypeOK, maps
  <2> QED
    BY <1>1, <1>2, <2>1, <2>2
    DEF VInv, StartInv, TargetInv, OwnedInv, ApartInv, RefusalIsExact, maps
<1>3. CASE pass = "claims" /\ pass' = "destinations" /\ i' = 1 /\ UNCHANGED verdict
  <2>1. \A n \in Index : DoneT(n)' /\ DoneT(n) /\ DoneC(n)' /\ DoneC(n) /\ ~DoneD(n)' /\ ~DoneD(n)
    BY <1>1, <1>3 DEF DoneT, DoneC, DoneD
  <2>2. TypeOK'
    BY <1>1, <1>3 DEF VInv, TypeOK, maps
  <2> QED
    BY <1>1, <1>3, <2>1, <2>2
    DEF VInv, StartInv, TargetInv, OwnedInv, ApartInv, RefusalIsExact, maps
<1>4. CASE pass = "destinations" /\ pass' = "done" /\ verdict' = "accepted" /\ UNCHANGED i
  <2>1. \A n \in Index : DoneT(n)' /\ DoneT(n) /\ DoneC(n)' /\ DoneC(n) /\ DoneD(n)' /\ DoneD(n)
    BY <1>1, <1>4 DEF DoneT, DoneC, DoneD
  <2>2. TypeOK'
    BY <1>1, <1>4 DEF VInv, TypeOK, maps, Verdict
  <2> QED
    BY <1>1, <1>4, <2>1, <2>2
    DEF VInv, StartInv, TargetInv, OwnedInv, ApartInv, RefusalIsExact, maps
<1> QED
  BY <1>2, <1>3, <1>4 DEF NextPass

\* The invariant holds in every reachable state.
LEMMA VInvHolds == Spec => []VInv
<1>1. VInv /\ UNCHANGED vars => VInv'
  <2> SUFFICES ASSUME VInv, UNCHANGED vars PROVE VInv'
    OBVIOUS
  <2>1. TypeOK' /\ RefusalIsExact' /\ StartInv'
    BY DEF vars, maps, VInv, TypeOK, RefusalIsExact, StartInv
  <2>2. /\ \A n : (DoneT(n)' <=> DoneT(n)) /\ (DoneC(n)' <=> DoneC(n)) /\ (DoneD(n)' <=> DoneD(n))
        /\ Index' = Index
    BY DEF vars, maps, DoneT, DoneC, DoneD, Index
  <2>3. TargetInv' /\ OwnedInv' /\ ApartInv'
    BY <2>2 DEF vars, maps, VInv, TargetInv, OwnedInv, ApartInv
  <2> QED
    BY <2>1, <2>3 DEF VInv
<1>2. VInv /\ [Next]_vars => VInv'
  BY <1>1, ShapeKeeps, TargetKeeps, ClaimKeeps, DestinationKeeps, NextPassKeeps DEF Next
<1> QED
  BY InitVInv, <1>2, PTL DEF Spec

\* Type correctness of the validator.  write/validate.go:16-129.
THEOREM ValidatorTypeCorrect == Spec => []TypeOK
<1>1. VInv => TypeOK
  BY DEF VInv
<1> QED
  BY <1>1, VInvHolds, PTL

\* A refusal names two entries that really conflict, and how: no sound request
\* is refused for its targets.  write/validate.go:292-388.
THEOREM RefusalHolds == Spec => []RefusalIsExact
<1>1. VInv => RefusalIsExact
  BY DEF VInv
<1> QED
  BY <1>1, VInvHolds, PTL

\* An accepted request, however long, has no two conflicting entries.
\* write/validate.go:16-129, 292-388.
THEOREM AcceptedHolds == Spec => []AcceptedIsSound
<1>1. ASSUME VInv, verdict = "accepted", NEW m \in Index, NEW n \in Index, m # n,
             Conflicts(request[m], request[n])
      PROVE  FALSE
  <2>1. \A k \in Index : DoneT(k) /\ DoneC(k) /\ DoneD(k)
    BY <1>1 DEF DoneT, DoneC, DoneD
  <2>2. ~SameTarget(request[m], request[n])
    BY <1>1, <2>1 DEF VInv, TargetInv
  <2>3. Owns(request[m]) /\ Places(request[n]) /\ Overlap(request[m], request[n])
    BY <1>1, <2>1, <2>2 DEF VInv, ApartInv, Conflicts
  <2>4. request[n].slot \notin slotOwner /\ <<request[n].slot, request[n].object>> \notin exactOwner
    <3>1. DoneD(n) /\ Places(request[n])
      BY <1>1, <2>1, <2>3
    <3>2. \A k \in Index : DoneD(k) /\ Places(request[k]) =>
            request[k].slot \notin slotOwner /\ <<request[k].slot, request[k].object>> \notin exactOwner
      BY <1>1 DEF VInv, ApartInv
    <3> QED
      BY <1>1, <3>1, <3>2
  <2>5. ~OwnsSlot(request[n])
    BY <2>3 DEF Places, OwnsSlot
  <2>6. CASE OwnsSlot(request[m])
    <3>1. request[m].slot \in slotOwner
      BY <1>1, <2>1, <2>6 DEF VInv, OwnedInv
    <3> QED
      BY <2>3, <2>4, <3>1 DEF Overlap
  <2>7. CASE ~OwnsSlot(request[m])
    <3>1. <<request[m].slot, request[m].object>> \in exactOwner
      BY <1>1, <2>1, <2>3, <2>7 DEF VInv, OwnedInv, Owns
    <3> QED
      BY <2>3, <2>4, <2>5, <2>7, <3>1 DEF Overlap
  <2> QED
    BY <2>6, <2>7
<1>2. VInv => AcceptedIsSound
  BY <1>1 DEF AcceptedIsSound, Conflicting, Index
<1> QED
  BY <1>2, VInvHolds, PTL
=============================================================================

---------------------------- MODULE WriteValidate ----------------------------
(***************************************************************************)
(* write.Request.Validate: three passes over the entries of one request    *)
(* that keep a map of claimed fact IDs and of owned slots and triples, and *)
(* refuse at the first entry that does not fit.  The checks of a single    *)
(* entry (labels, objects, deadlines) come before them and are not here.   *)
(***************************************************************************)
EXTENDS WriteRules

CONSTANT Requests    \* the requests to validate

ASSUME WriteValidateAssumption == Requests \subseteq Seq(Entry)

VARIABLES request,     \* the request, its five lists one after the other
          vocabulary,  \* Request.Vocabulary
          pass,        \* which loop is running
          i,           \* its index
          factTargets, \* claimed fact IDs
          slotOwner,   \* slots with a slotOwner
          exactOwner,  \* slot/object pairs with an exactOwner
          verdict

maps == <<factTargets, slotOwner, exactOwner>>
vars == <<request, vocabulary, pass, i, maps, verdict>>

Verdict == {"none", "accepted", "empty_request", "vocabulary_required",
            "vocabulary_unnecessary", "duplicate_target", "destination_conflict"}

TypeOK ==
  /\ request \in Seq(Entry)
  /\ vocabulary \in {"none", "create", "reject"}
  /\ pass \in {"shape", "targets", "claims", "destinations", "done"}
  /\ i \in 1..Len(request) + 1
  /\ factTargets \subseteq Fact \cup {NoFact}
  /\ slotOwner \subseteq Slot
  /\ exactOwner \subseteq Slot \X Object
  /\ verdict \in Verdict
  /\ pass = "done" <=> verdict # "none"

Init ==
  /\ request \in Requests
  /\ vocabulary \in {"none", "create", "reject"}
  /\ pass = "shape"
  /\ i = 1
  /\ factTargets = {}
  /\ slotOwner = {}
  /\ exactOwner = {}
  /\ verdict = "none"

-----------------------------------------------------------------------------
Refuse(code) == pass' = "done" /\ verdict' = code /\ UNCHANGED <<i, maps>>
Step == i' = i + 1 /\ UNCHANGED <<pass, verdict>>

createsEntities == \E n \in 1..Len(request) : request[n].kind \in
                     {"append", "ensure", "replace", "correct"}

\* Mutant: an empty request is refused and validated all the same.
Shape_Unfinished ==
  /\ pass = "shape"
  /\ pass' = "targets"
  /\ verdict' = IF request = <<>> THEN "empty_request" ELSE verdict
  /\ UNCHANGED <<request, vocabulary, i, maps>>

\* A request is not empty, and names a vocabulary mode exactly if it records or
\* corrects something.
Shape ==
  /\ pass = "shape"
  /\ \/ request = <<>> /\ Refuse("empty_request")
     \/ request # <<>> /\ createsEntities /\ vocabulary = "none"
          /\ Refuse("vocabulary_required")
     \/ request # <<>> /\ ~createsEntities /\ vocabulary # "none"
          /\ Refuse("vocabulary_unnecessary")
     \/ request # <<>> /\ createsEntities = (vocabulary # "none")
          /\ pass' = "targets" /\ UNCHANGED <<i, maps, verdict>>
  /\ UNCHANGED <<request, vocabulary>>

\* Mutant: corrections do not claim the fact they supersede.
claimFactTarget_NotCorrections(e) ==
  IF e.fact \in factTargets
    THEN Refuse("duplicate_target")
    ELSE /\ factTargets' = factTargets \cup (IF e.kind = "correct" THEN {} ELSE {e.fact})
         /\ Step
         /\ UNCHANGED <<slotOwner, exactOwner>>

\* claimFactTarget, for whatever kind of mutation names the fact.
claimFactTarget(e) ==
  IF e.fact \in factTargets
    THEN Refuse("duplicate_target")
    ELSE /\ factTargets' = factTargets \cup {e.fact}
         /\ Step
         /\ UNCHANGED <<slotOwner, exactOwner>>

TargetPass ==
  /\ pass = "targets"
  /\ i <= Len(request)
  /\ IF Targets(request[i])
       THEN claimFactTarget(request[i])
       ELSE Step /\ UNCHANGED maps
  /\ UNCHANGED <<request, vocabulary>>

exacts(s) == {x \in exactOwner : x[1] = s}

\* claimSlot: a slot is owned once, and not when a triple of it is owned.
claimSlot(e) ==
  CASE e.slot \in slotOwner -> Refuse("duplicate_target")
    [] e.slot \notin slotOwner /\ exacts(e.slot) # {} -> Refuse("destination_conflict")
    [] OTHER -> /\ slotOwner' = slotOwner \cup {e.slot}
                /\ Step
                /\ UNCHANGED <<factTargets, exactOwner>>

\* Mutant: the two error codes are swapped.
claimExact_CodesSwapped(e) ==
  CASE e.slot \in slotOwner -> Refuse("duplicate_target")
    [] e.slot \notin slotOwner /\ <<e.slot, e.object>> \in exactOwner
         -> Refuse("destination_conflict")
    [] OTHER -> /\ exactOwner' = exactOwner \cup {<<e.slot, e.object>>}
                /\ Step
                /\ UNCHANGED <<factTargets, slotOwner>>

\* claimExact: a triple is owned once, and not when its whole slot is.
claimExact(e) ==
  CASE e.slot \in slotOwner -> Refuse("destination_conflict")
    [] e.slot \notin slotOwner /\ <<e.slot, e.object>> \in exactOwner
         -> Refuse("duplicate_target")
    [] OTHER -> /\ exactOwner' = exactOwner \cup {<<e.slot, e.object>>}
                /\ Step
                /\ UNCHANGED <<factTargets, slotOwner>>

\* validateOwnership's first two loops.
ClaimPass ==
  /\ pass = "claims"
  /\ i <= Len(request)
  /\ CASE OwnsTriple(request[i]) -> claimExact(request[i])
       [] OwnsSlot(request[i])   -> claimSlot(request[i])
       [] OTHER                  -> Step /\ UNCHANGED maps
  /\ UNCHANGED <<request, vocabulary>>

\* checkDestination: nothing is placed on an owned slot or triple.
checkDestination(e) ==
  IF e.slot \in slotOwner \/ <<e.slot, e.object>> \in exactOwner
    THEN Refuse("destination_conflict")
    ELSE Step /\ UNCHANGED maps

\* validateOwnership's last two loops.
DestinationPass ==
  /\ pass = "destinations"
  /\ i <= Len(request)
  /\ IF Places(request[i])
       THEN checkDestination(request[i])
       ELSE Step /\ UNCHANGED maps
  /\ UNCHANGED <<request, vocabulary>>

\* The end of a loop starts the next; after the last the request is accepted.
NextPass ==
  /\ i > Len(request)
  /\ \/ pass = "targets" /\ pass' = "claims" /\ i' = 1 /\ UNCHANGED verdict
     \/ pass = "claims" /\ pass' = "destinations" /\ i' = 1 /\ UNCHANGED verdict
     \/ pass = "destinations" /\ pass' = "done" /\ verdict' = "accepted" /\ UNCHANGED i
  /\ UNCHANGED <<request, vocabulary, maps>>

Next == Shape \/ TargetPass \/ ClaimPass \/ DestinationPass \/ NextPass

Spec == Init /\ [][Next]_vars

-----------------------------------------------------------------------------
\* What is accepted is free of conflicts between any two entries of any of the
\* five lists, whatever their order: the daemon is never asked to apply two
\* mutations to one fact, triple or slot.  write/validate.go:47-123, 292-388.
AcceptedIsSound ==
  verdict = "accepted" => ~Conflicting(request)

\* A request refused for its targets does contain two entries that conflict, and
\* the code tells which kind: the same thing owned or targeted twice, or two
\* different things that overlap.  write/validate.go:254-261, 294-373.
RefusalIsExact ==
  /\ verdict = "duplicate_target" =>
       \E m, n \in 1..Len(request) : m # n /\
         (SameTarget(request[m], request[n]) \/ SameOwned(request[m], request[n]))
  /\ verdict = "destination_conflict" =>
       \E m, n \in 1..Len(request) : m # n /\
         /\ Owns(request[m]) /\ (Owns(request[n]) \/ Places(request[n]))
         /\ Overlap(request[m], request[n]) /\ ~SameOwned(request[m], request[n])
=============================================================================

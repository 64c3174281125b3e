--------------------------- MODULE PreflightProofs ---------------------------
(***************************************************************************)
(* What a session promises about the database it pins, for any set of      *)
(* databases, any requirements and any keys.                               *)
(***************************************************************************)
EXTENDS Preflight, TLAPS

Capable == {"capable", "open", "sent", "success", "uncertain"}
Submitted == {"sent", "success", "uncertain"}

\* From the first read on the snapshot is the validated manifest of some
\* database; a submitted key satisfies that snapshot; a 2xx reply comes from a
\* database that served the key; a success is such a reply, on the pinned log.
PInv ==
  /\ TypeOK
  /\ phase \in Capable =>
       /\ validateCapabilities(capabilities)
       /\ \E n \in Node : n.manifest = capabilities
  /\ phase \in Submitted => validateKeySyntax(key)
  /\ phase \in {"new", "capable", "open"} => reply = NoReply /\ executed = {}
  /\ reply.status = "ok" =>
       \E n \in Node :
         /\ Serves(n, key)
         /\ reply.log = n.log
         /\ executed = {[log |-> n.log, durable |-> n.manifest.durability = "commit"]}
  /\ phase = "success" => reply.status = "ok" /\ reply.log = logIdentity

\* The invariant holds initially.
LEMMA InitPInv == Init => PInv
<1> USE PreflightAssumption, WireAssumption
<1> SUFFICES ASSUME Init PROVE PInv
  OBVIOUS
<1>1. TypeOK
  BY DEF Init, TypeOK, Phase, Manifest, NoManifest, Reply, NoReply, Key, NoKey, Offer
<1> QED
  BY <1>1 DEF Init, PInv, Capable, Submitted, NoReply

\* A resolved key is a wire key that satisfies the snapshot.
LEMMA ResolvedKey ==
  ASSUME TypeOK, NEW form, NEW k \in Key, NEW r \in resolveWriteKey(form, k)
  PROVE  r \in Key /\ validateKeySyntax(r)
<1> DEFINE prefixed == IF capabilities.prefix = NoLog THEN k
                       ELSE [epoch |-> capabilities.prefix,
                             length |-> capabilities.prefixLength + k.length]
<1>1. validateKeySyntax(r) /\ (r = k \/ r = prefixed)
  BY DEF resolveWriteKey
<1>2. r.length <= 128
  BY <1>1 DEF validateKeySyntax
<1>3. CASE r = k
  BY <1>1, <1>3
<1>4. CASE r = prefixed /\ capabilities.prefix # NoLog
  <2>1. capabilities.prefix \in Log \cup {NoLog} /\ capabilities.prefixLength \in Nat
    BY DEF TypeOK, Manifest
  <2>2. r.length = capabilities.prefixLength + k.length
    BY <1>4
  <2>3. k.length \in 1..255
    BY DEF Key
  <2>4. \A m \in Nat, n \in 1..255 : m + n <= 128 => m + n \in 1..255
    OBVIOUS
  <2>5. capabilities.prefixLength + k.length <= 128
    BY <1>2, <2>2, Zenon
  <2>6. capabilities.prefixLength + k.length \in 1..255
    BY <2>1, <2>3, <2>4, <2>5, Zenon
  <2> QED
    <3>1. r = [epoch |-> capabilities.prefix,
               length |-> capabilities.prefixLength + k.length]
      BY <1>4
    <3>2. \A e \in Log \cup {NoLog}, n \in 1..255 : [epoch |-> e, length |-> n] \in Key
      BY DEF Key
    <3> HIDE DEF prefixed
    <3>3. r \in Key
      BY <2>1, <2>6, <3>1, <3>2, Zenon
    <3> QED
      BY <1>1, <3>3
<1> QED
  BY <1>1, <1>3, <1>4

\* Every step keeps the invariant.
LEMMA NextPInv == PInv /\ [Next]_vars => PInv'
<1> USE PreflightAssumption, WireAssumption
<1> SUFFICES ASSUME PInv, [Next]_vars PROVE PInv'
  OBVIOUS
<1>1. CASE RequireFails
  <2>1. TypeOK'
    BY <1>1 DEF PInv, TypeOK, RequireFails, Phase
  <2> QED
    BY <1>1, <2>1 DEF PInv, RequireFails, Capable, Submitted, Serves
<1>2. CASE ReadCapabilities
  <2>1. node \in Node /\ node.manifest \in Manifest
    BY DEF PInv, TypeOK
  <2>2. TypeOK'
    BY <1>2, <2>1 DEF PInv, TypeOK, ReadCapabilities, Phase
  <2>3. phase' = "capable" => validateCapabilities(capabilities)' /\ capabilities' = node.manifest
    BY <1>2 DEF ReadCapabilities, validateCapabilities
  <2> QED
    BY <1>2, <2>1, <2>2, <2>3 DEF PInv, ReadCapabilities, Capable, Submitted, Serves
<1>3. CASE ReadIdentity
  <2>1. node.log \in Log
    BY DEF PInv, TypeOK
  <2>2. TypeOK'
    BY <1>3, <2>1 DEF PInv, TypeOK, ReadIdentity, Phase
  <2> QED
    BY <1>3, <2>2 DEF PInv, ReadIdentity, Capable, Submitted, Serves, validateCapabilities
<1>4. ASSUME NEW form \in {"suffix", "full"}, NEW e \in Log \cup {NoLog}, NEW n \in KeyLength,
             WriteRefused(form, [epoch |-> e, length |-> n])
      PROVE  PInv'
  <2>1. TypeOK'
    BY <1>4 DEF PInv, TypeOK, WriteRefused, Phase
  <2> QED
    BY <1>4, <2>1 DEF PInv, WriteRefused, Capable, Submitted, Serves
<1>5. ASSUME NEW form \in {"suffix", "full"}, NEW e \in Log \cup {NoLog}, NEW n \in KeyLength,
             WriteRequest(form, [epoch |-> e, length |-> n])
      PROVE  PInv'
  <2>1. [epoch |-> e, length |-> n] \in Key
    BY DEF Key
  <2>2. key' \in Key /\ validateKeySyntax(key')
    BY <1>5, <2>1, ResolvedKey DEF PInv, WriteRequest
  <2>3. TypeOK'
    BY <1>5, <2>2 DEF PInv, TypeOK, WriteRequest, Phase
  <2>4. validateKeySyntax(key)'
    BY <1>5, <2>2 DEF WriteRequest, validateKeySyntax
  <2>5. reply' = NoReply /\ executed' = {}
    BY <1>5 DEF PInv, WriteRequest
  <2> QED
    BY <1>5, <2>3, <2>4, <2>5 DEF PInv, WriteRequest, Capable, Submitted, NoReply, validateCapabilities
<1>6. CASE Serve
  <2>1. node \in Node /\ node.log \in Log
    BY DEF PInv, TypeOK
  <2>2. CASE Serves(node, key)
    <3>1. /\ executed' = {[log |-> node.log, durable |-> node.manifest.durability = "commit"]}
          /\ reply' = Committed(node.log, FALSE)
      BY <1>6, <2>2 DEF Serve
    <3>2. [log |-> node.log, durable |-> node.manifest.durability = "commit"] \in Effect
      BY <2>1 DEF Effect
    <3>3. TypeOK'
      BY <1>6, <2>1, <3>1, <3>2 DEF PInv, TypeOK, Serve, Committed, Reply, Status
    <3>4. Serves(node, key)' /\ reply'.log = node.log
      BY <1>6, <2>2, <3>1 DEF Serve, Serves, Committed
    <3>5. phase' = phase /\ phase \in {"sent", "uncertain"}
      BY <1>6 DEF Serve
    <3>6. UNCHANGED <<node, requirements, capabilities, logIdentity, key>>
      BY <1>6 DEF Serve
    <3>7. \E n \in Node :
            /\ Serves(n, key)'
            /\ reply'.log = n.log
            /\ executed' = {[log |-> n.log, durable |-> n.manifest.durability = "commit"]}
      BY <2>1, <2>2, <3>1, <3>4, <3>6 DEF Serves
    <3>8. (phase \in Capable => validateCapabilities(capabilities)
                                /\ \E n \in Node : n.manifest = capabilities)'
      BY <3>5, <3>6 DEF PInv, Capable, validateCapabilities
    <3>9. (phase \in Submitted => validateKeySyntax(key))'
      BY <3>5, <3>6 DEF PInv, Submitted, validateKeySyntax
    <3> QED
      BY <3>3, <3>5, <3>7, <3>8, <3>9 DEF PInv, Serves
  <2>3. CASE ~Serves(node, key)
    <3>1. reply' = Failure("refused") /\ executed' = executed
      BY <1>6, <2>3 DEF Serve
    <3>2. TypeOK'
      BY <1>6, <3>1 DEF PInv, TypeOK, Serve, Failure, Reply, Status
    <3>3. phase' = phase /\ phase \in {"sent", "uncertain"}
      BY <1>6 DEF Serve
    <3> QED
      BY <1>6, <3>1, <3>2, <3>3
      DEF PInv, Serve, Capable, Submitted, Failure, validateCapabilities, validateKeySyntax
  <2> QED
    BY <2>2, <2>3
<1>7. ASSUME NEW d \in {"intact", "cut", "garbled", "noReplay"}, Receive(d)
      PROVE  PInv'
  <2>1. phase' \in {"success", "uncertain", "failed"}
    BY <1>7 DEF Receive
  <2>2. phase = "sent" /\ reply # NoReply /\ reply \in Reply
    BY <1>7 DEF PInv, TypeOK, Receive
  <2>3. phase' = "success" =>
          doError(reply, d) = "none" /\ validateWriteSuccess(reply, d, logIdentity)
    BY <1>7 DEF Receive
  <2>4. doError(reply, d) = "none" => reply.status = "ok"
    BY <2>2 DEF doError, Reply, Status
  <2>5. phase' = "success" => reply.status = "ok" /\ reply.log = logIdentity
    BY <2>3, <2>4 DEF validateWriteSuccess
  <2>6. TypeOK'
    BY <1>7, <2>1, <2>2 DEF PInv, TypeOK, Receive, Phase
  <2> QED
    BY <1>7, <2>1, <2>2, <2>5, <2>6
    DEF PInv, Receive, Capable, Submitted, Serves, validateCapabilities, validateKeySyntax
<1>8. CASE TimesOut
  <2>1. TypeOK'
    BY <1>8 DEF PInv, TypeOK, TimesOut, Phase
  <2> QED
    BY <1>8, <2>1
    DEF PInv, TimesOut, Capable, Submitted, Serves, validateCapabilities, validateKeySyntax
<1>9. ASSUME NEW n \in Node, Replace(n) PROVE PInv'
  <2>1. TypeOK'
    BY <1>9 DEF PInv, TypeOK, Replace
  <2> QED
    BY <1>9, <2>1
    DEF PInv, Replace, Capable, Submitted, Serves, validateCapabilities, validateKeySyntax
<1>10. CASE UNCHANGED vars
  <2>1. TypeOK'
    BY <1>10 DEF PInv, TypeOK, vars
  <2> QED
    BY <1>10, <2>1
    DEF PInv, vars, Capable, Submitted, Serves, validateCapabilities, validateKeySyntax
<1> QED
  BY <1>1, <1>2, <1>3, <1>4, <1>5, <1>6, <1>7, <1>8, <1>9, <1>10 DEF Next

\* The invariant holds in every reachable state.
LEMMA PInvHolds == Spec => []PInv
  BY InitPInv, NextPInv, PTL DEF Spec

\* Type correctness of a session from preflight to answer, with the identity
\* pinned before anything is written.  session.go:26-54.
THEOREM SessionTypeCorrect == Spec => []TypeOK
<1>1. PInv => TypeOK
  BY DEF PInv
<1> QED
  BY <1>1, PInvHolds, PTL

\* A success is a write on the log the session pinned, whatever was read in
\* Require.  session.go:305-337.
THEOREM SuccessIsOnPinnedLog == Spec => []SuccessOnPinnedLog
<1>1. ASSUME PInv, phase = "success" PROVE \E x \in executed : x.log = logIdentity
  <2>1. PICK n \in Node :
          /\ reply.log = n.log
          /\ executed = {[log |-> n.log, durable |-> n.manifest.durability = "commit"]}
    BY <1>1 DEF PInv
  <2> DEFINE x == [log |-> n.log, durable |-> n.manifest.durability = "commit"]
  <2>2. x.log = logIdentity
    BY <1>1, <2>1 DEF PInv
  <2> QED
    BY <2>1, <2>2
<1>2. PInv => SuccessOnPinnedLog
  BY <1>1 DEF SuccessOnPinnedLog
<1> QED
  BY <1>2, PInvHolds, PTL

\* The prefix rule and the identity check together bind a successful write to
\* the database whose capabilities were validated.
LEMMA PrefixBindsSnapshot ==
  ASSUME EveryEpochHasPrefix, PInv, phase = "success"
  PROVE  \E n, m \in Node :
           /\ n.log = m.log /\ m.manifest = capabilities /\ n.log = logIdentity
           /\ executed = {[log |-> n.log, durable |-> n.manifest.durability = "commit"]}
<1> USE PreflightAssumption, WireAssumption
<1>1. PICK n \in Node :
        /\ Serves(n, key)
        /\ reply.log = n.log
        /\ executed = {[log |-> n.log, durable |-> n.manifest.durability = "commit"]}
  BY DEF PInv
<1>2. PICK m \in Node : m.manifest = capabilities
  BY DEF PInv, Capable
<1>3. /\ n.manifest.prefix = n.log /\ n.log \in Log
      /\ m.manifest.prefix = m.log /\ m.log \in Log
  BY DEF EveryEpochHasPrefix
<1>4. key.epoch = n.log
  BY <1>1, <1>3 DEF Serves
<1>5. key.epoch = m.log
  BY <1>2, <1>3 DEF PInv, Submitted, validateKeySyntax
<1>6. n.log = logIdentity
  BY <1>1 DEF PInv
<1> QED
  BY <1>1, <1>2, <1>4, <1>5, <1>6

\* If every database requires a prefix of its own, a session whose snapshot and
\* identity come from different databases never reports a success.
\* session.go:35-52, client.go:241-258.
THEOREM MixedNeverSucceeds ==
  ASSUME EveryEpochHasPrefix PROVE Spec => []MixedSessionNeverSucceeds
<1>1. PInv => MixedSessionNeverSucceeds
  BY PrefixBindsSnapshot DEF MixedSessionNeverSucceeds, EveryEpochHasPrefix
<1> QED
  BY <1>1, PInvHolds, PTL

\* If moreover a database never changes its durability, what an ingestion
\* session reports as a success is durable.  session.go:126-130.
THEOREM IngestionWritesDurably ==
  ASSUME EveryEpochHasPrefix, DurabilityIsFixed PROVE Spec => []IngestionIsDurable
<1>1. ASSUME PInv, phase = "success", "ingestion" \in requirements
      PROVE  \A x \in executed : x.durable
  <2>1. PICK n, m \in Node :
          /\ n.log = m.log /\ m.manifest = capabilities
          /\ executed = {[log |-> n.log, durable |-> n.manifest.durability = "commit"]}
    BY <1>1, PrefixBindsSnapshot
  <2>2. capabilities.durability = "commit"
    BY <1>1 DEF PInv, Capable, validateCapabilities
  <2>3. n.manifest.durability = "commit"
    BY <2>1, <2>2 DEF DurabilityIsFixed
  <2>4. (n.manifest.durability = "commit") = TRUE
    BY <2>3
  <2>5. executed = {[log |-> n.log, durable |-> TRUE]}
    BY <2>1, <2>4
  <2> QED
    BY <2>5
<1>2. PInv => IngestionIsDurable
  BY <1>1 DEF IngestionIsDurable
<1> QED
  BY <1>2, PInvHolds, PTL
=============================================================================

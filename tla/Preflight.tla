------------------------------ MODULE Preflight ------------------------------
(***************************************************************************)
(* One session from Client.Require to the answer of a keyed write.         *)
(* Require reads the capabilities and the log identity in two requests,    *)
(* and nothing it read is read again before a first attempt, while the     *)
(* operator may put another database, or the same one under another        *)
(* configuration, behind the base URL at any time.  The retry loop of a    *)
(* write is KeyedWrite's; here a write is one attempt.                     *)
(***************************************************************************)
EXTENDS Wire, Integers

CONSTANTS Node,               \* what may be behind the base URL
          RetryAttempts,      \* Requirements.Retry.MaxAttempts
          MaxResponseBytes,   \* Client.maxResponseBytes
          AbsoluteBodyLimit,
          KeyLength           \* lengths of the key texts callers pass

\* What a manifest may advertise: each name stands for the conjuncts of
\* validateCapabilities about it.
Offer == {"protocol", "query", "errors", "facts", "idempotency", "vocabulary"}

\* The parts of Capabilities that Require looks at.  The required key prefix
\* names the log it belongs to; NoLog is the empty prefix.
Manifest == [offers : SUBSET Offer, role : {"primary", "follower", "other"},
             writesAllowed : BOOLEAN,
             durability : {"none", "interval", "commit", "other"},
             sync : {"os", "full", "other"},
             maxRequest : Int, maxKey : Int, maxResponse : Int,
             prefix : Log \cup {NoLog}, prefixLength : Nat]

ASSUME PreflightAssumption ==
  /\ Node \subseteq [log : Log, manifest : Manifest]
  /\ Node # {}
  /\ RetryAttempts \in Int
  /\ MaxResponseBytes \in Nat
  /\ AbsoluteBodyLimit \in Nat
  /\ KeyLength \subseteq 1..128

\* A wire key: the epoch whose prefix it starts with, and its length.
Key == [epoch : Log \cup {NoLog}, length : 1..255]
NoKey == [epoch |-> NoLog, length |-> 0]

VARIABLES node,          \* what is behind the base URL
          requirements,  \* Session.requirements: which of its two flags are set
          phase,         \* where the session is
          capabilities,  \* Session.capabilities
          logIdentity,   \* Session.logIdentity
          key,           \* the key of the write
          reply,         \* the answer to the write, once it is on its way
          executed       \* what the write changed

vars == <<node, requirements, phase, capabilities, logIdentity, key, reply, executed>>

NoManifest == [offers |-> {}, role |-> "other", writesAllowed |-> FALSE,
               durability |-> "other", sync |-> "other",
               maxRequest |-> 0, maxKey |-> 0, maxResponse |-> 0,
               prefix |-> NoLog, prefixLength |-> 0]

Phase == {"new", "capable", "open", "sent", "success", "uncertain", "failed"}
Effect == [log : Log, durable : BOOLEAN]

\* A session that is open has validated capabilities and an identity.
TypeOK ==
  /\ node \in Node
  /\ requirements \subseteq {"writable", "ingestion"}
  /\ phase \in Phase
  /\ capabilities \in Manifest
  /\ logIdentity \in Log \cup {NoLog}
  /\ key \in Key \cup {NoKey}
  /\ reply \in Reply \cup {NoReply}
  /\ executed \subseteq Effect
  /\ phase \in {"open", "sent", "success", "uncertain"} => logIdentity # NoLog

Init ==
  /\ node \in Node
  /\ requirements \in SUBSET {"writable", "ingestion"}
  /\ phase = "new"
  /\ capabilities = NoManifest
  /\ logIdentity = NoLog
  /\ key = NoKey
  /\ reply = NoReply
  /\ executed = {}

-----------------------------------------------------------------------------
\* Mutant: an ingestion session accepts any durability.
validateCapabilities_AnyDurability(m) ==
  /\ {"protocol", "query", "errors"} \subseteq m.offers
  /\ m.role \in {"primary", "follower"}
  /\ m.writesAllowed = (m.role = "primary")

\* validateCapabilities(capabilities, requirements).
validateCapabilities(m) ==
  /\ {"protocol", "query", "errors"} \subseteq m.offers
  /\ m.role \in {"primary", "follower"}
  /\ m.writesAllowed = (m.role = "primary")
  /\ m.durability \in {"none", "interval", "commit"}
  /\ m.sync \in {"os", "full"}
  /\ m.maxRequest \in 1..AbsoluteBodyLimit
  /\ requirements # {} =>
       /\ m.role = "primary"
       /\ {"facts", "idempotency"} \subseteq m.offers
       /\ m.maxKey \in 1..128
       /\ m.maxResponse \in 1..MaxResponseBytes
       /\ m.prefix # NoLog => m.prefixLength \in 1..127 /\ m.prefixLength < m.maxKey
  /\ "ingestion" \in requirements => m.durability = "commit" /\ "vocabulary" \in m.offers

\* RetryPolicy.normalized: zero means one attempt.
normalized == RetryAttempts \in 0..10

\* Require fails before its first request, or one of its two requests fails.
RequireFails ==
  /\ phase \in {"new", "capable"}
  /\ phase' = "failed"
  /\ UNCHANGED <<node, requirements, capabilities, logIdentity, key, reply, executed>>

\* c.Capabilities and validateCapabilities.
ReadCapabilities ==
  /\ phase = "new"
  /\ normalized
  /\ IF validateCapabilities(node.manifest)
       THEN phase' = "capable" /\ capabilities' = node.manifest
       ELSE phase' = "failed" /\ UNCHANGED capabilities
  /\ UNCHANGED <<node, requirements, logIdentity, key, reply, executed>>

\* Mutant: no identity is pinned.
ReadIdentity_Unpinned ==
  /\ phase = "capable"
  /\ phase' = "open"
  /\ UNCHANGED <<node, requirements, capabilities, logIdentity, key, reply, executed>>

\* c.Introspect pins the identity of whatever is behind the base URL by now.
ReadIdentity ==
  /\ phase = "capable"
  /\ phase' = "open"
  /\ logIdentity' = node.log
  /\ UNCHANGED <<node, requirements, capabilities, key, reply, executed>>

-----------------------------------------------------------------------------
\* validateKeySyntax: length, and the snapshot's prefix with something after it.
validateKeySyntax(k) ==
  /\ k.length <= 128
  /\ k.length <= capabilities.maxKey
  /\ capabilities.prefix # NoLog =>
       k.epoch = capabilities.prefix /\ k.length > capabilities.prefixLength

\* Mutant: a complete key is taken as it is.
resolveWriteKey_TrustFullKey(form, k) ==
  IF form = "full"
    THEN {k}
    ELSE {r \in {[epoch |-> capabilities.prefix,
                  length |-> capabilities.prefixLength + k.length]} : r \in Key}

\* resolveWriteKey: a suffix must not carry the prefix already and gets it; a
\* complete key must carry it.  The empty set is a refusal.
resolveWriteKey(form, k) ==
  LET prefixed == IF capabilities.prefix = NoLog THEN k
                  ELSE [epoch |-> capabilities.prefix,
                        length |-> capabilities.prefixLength + k.length]
  IN  IF form = "full"
        THEN {r \in {k} : validateKeySyntax(r)}
        ELSE {r \in {prefixed} : /\ capabilities.prefix # NoLog => k.epoch # capabilities.prefix
                                 /\ validateKeySyntax(r)}

\* WriteRequest refuses the key, or a session without write requirements.
WriteRefused(form, k) ==
  /\ phase = "open"
  /\ requirements = {} \/ resolveWriteKey(form, k) = {}
  /\ phase' = "failed"
  /\ UNCHANGED <<node, requirements, capabilities, logIdentity, key, reply, executed>>

WriteRequest(form, k) ==
  /\ phase = "open"
  /\ requirements # {}
  /\ key' \in resolveWriteKey(form, k)
  /\ phase' = "sent"
  /\ UNCHANGED <<node, requirements, capabilities, logIdentity, reply, executed>>

\* The daemon enforces its role, its prefix and its key limit by itself.
Serves(n, k) ==
  /\ n.manifest.role = "primary"
  /\ n.manifest.prefix # NoLog => k.epoch = n.manifest.prefix
  /\ k.length <= n.manifest.maxKey

\* The request reaches whatever is behind the base URL by now, once: the daemon
\* executes it or refuses it, also when the client no longer waits.
Serve ==
  /\ phase \in {"sent", "uncertain"}
  /\ key # NoKey
  /\ reply = NoReply
  /\ IF Serves(node, key)
       THEN /\ executed' = {[log |-> node.log,
                             durable |-> node.manifest.durability = "commit"]}
            /\ reply' = Committed(node.log, FALSE)
       ELSE /\ reply' = Failure("refused")
            /\ UNCHANGED executed
  /\ UNCHANGED <<node, requirements, phase, capabilities, logIdentity, key>>

\* The response is validated against the pinned identity.
Receive(d) ==
  /\ phase = "sent"
  /\ reply # NoReply
  /\ phase' = CASE doError(reply, d) = "none" ->
                     IF validateWriteSuccess(reply, d, logIdentity) THEN "success" ELSE "uncertain"
                [] possiblySubmitted(doError(reply, d), reply.status = "ok") -> "uncertain"
                [] OTHER -> "failed"
  /\ UNCHANGED <<node, requirements, capabilities, logIdentity, key, reply, executed>>

TimesOut ==
  /\ phase = "sent"
  /\ phase' = "uncertain"
  /\ UNCHANGED <<node, requirements, capabilities, logIdentity, key, reply, executed>>

\* The operator replaces the database, or restarts it configured differently.
Replace(n) ==
  /\ n # node
  /\ node' = n
  /\ UNCHANGED <<requirements, phase, capabilities, logIdentity, key, reply, executed>>

Next ==
  \/ RequireFails
  \/ ReadCapabilities
  \/ ReadIdentity
  \/ \E form \in {"suffix", "full"}, e \in Log \cup {NoLog}, n \in KeyLength :
       \/ WriteRefused(form, [epoch |-> e, length |-> n])
       \/ WriteRequest(form, [epoch |-> e, length |-> n])
  \/ Serve
  \/ \E d \in {"intact", "cut", "garbled", "noReplay"} : Receive(d)
  \/ TimesOut
  \/ \E n \in Node : Replace(n)

Spec == Init /\ [][Next]_vars

-----------------------------------------------------------------------------
\* A success names the log the session pinned, whatever the database behind the
\* base URL was when the capabilities and the identity were read.
\* session.go:31-52, 329-335.
SuccessOnPinnedLog ==
  phase = "success" => \E x \in executed : x.log = logIdentity

\* A snapshot read from one database and an identity read from another never
\* come to a success together: the key prefix binds the two.  session.go:35-52.
MixedSessionNeverSucceeds ==
  phase = "success" => capabilities.prefix = logIdentity

\* An ingestion session that reports a success has written durably:
\* "insufficient durability is refused before mutation" (COMPATIBILITY.md:95-97),
\* docs/SAFETY.md:8-12, session.go:126-130.
IngestionIsDurable ==
  phase = "success" /\ "ingestion" \in requirements => \A x \in executed : x.durable

-----------------------------------------------------------------------------
(* What the two properties about mixed sessions need of the deployment.    *)

\* Every database requires a prefix of its own ...
EveryEpochHasPrefix ==
  \A n \in Node : n.manifest.prefix = n.log

\* ... and is always run with the same durability.
DurabilityIsFixed ==
  \A n1, n2 \in Node : n1.log = n2.log =>
    n1.manifest.durability = n2.manifest.durability
=============================================================================

-------------------------------- MODULE Daemon --------------------------------
(***************************************************************************)
(* The JoeyDB daemon behind the base URL, as far as the client relies on   *)
(* it: a database with a log identity that may be replaced by another, and *)
(* per log the idempotency receipts of the keyed writes it committed.      *)
(* External to the repository: modelled from what session.go expects of    *)
(* its answers and from the fake daemon of the tests.                      *)
(***************************************************************************)
EXTENDS Wire

CONSTANTS Op,                \* the calls of Session.WriteExact
          Key,               \* idempotency keys
          Body,              \* request bodies, byte for byte
          Epoch,             \* Epoch[k]: the log whose required prefix k carries
          MaxAttempts,       \* RetryPolicy.MaxAttempts
          EpochPrefix,       \* the daemon advertises and enforces a key prefix
          CommitDurability   \* a write is durable before it is answered

ASSUME DaemonAssumption ==
  /\ Epoch \in [Key -> Log \cup {NoLog}]
  /\ MaxAttempts \in 1..10
  /\ EpochPrefix \in BOOLEAN
  /\ CommitDurability \in BOOLEAN

VARIABLES current,   \* identity of the database now behind the base URL
          receipts   \* receipts of committed keyed writes

\* op and attempt say which request committed the write; they are not part of
\* the daemon's state but let the properties name the committer.
Receipt == [log : Log, key : Key, body : Body, durable : BOOLEAN,
            op : Op, attempt : 1..MaxAttempts]

Held(l, k) == {r \in receipts : r.log = l /\ r.key = k}

\* The key's prefix names the epoch of one log; any other refuses it.
Accepts(k) == EpochPrefix => Epoch[k] = current

\* The daemon's answer to a keyed write: success on a new key, replay on an
\* exact match of key and body, idempotency_conflict otherwise.
Answer(k, b) ==
  IF ~Accepts(k) \/ \E r \in Held(current, k) : r.body # b
    THEN Failure("refused")
    ELSE Committed(current, Held(current, k) # {})

\* The receipts after that answer.
Applied(k, b, o, a) ==
  IF Accepts(k) /\ Held(current, k) = {}
    THEN receipts \cup {[log |-> current, key |-> k, body |-> b,
                         durable |-> CommitDurability, op |-> o, attempt |-> a]}
    ELSE receipts

\* Without commit durability the log reaches the disk some time later.
Sync(r) ==
  /\ r \in receipts
  /\ ~r.durable
  /\ receipts' = (receipts \ {r}) \cup {[r EXCEPT !.durable = TRUE]}
  /\ UNCHANGED current

\* A crash and restart of the daemon on the same log keeps what is durable.
Crash ==
  /\ \E r \in receipts : r.log = current /\ ~r.durable
  /\ receipts' = {r \in receipts : r.log = current => r.durable}
  /\ UNCHANGED current

\* The operator puts another database, with its own log, behind the base URL.
Replace(l) ==
  /\ l # current
  /\ current' = l
  /\ UNCHANGED receipts
=============================================================================

---------------------------- MODULE KeyedWriteInv ----------------------------
(***************************************************************************)
(* The inductive strengthening of the safety properties of KeyedWrite, and *)
(* what it assumes of the environment.  TLC checks it as an invariant; the *)
(* proofs are in KeyedWriteProofs.tla.                                     *)
(***************************************************************************)
EXTENDS KeyedWrite

\* What the client takes a definite failure to mean: net/http delivers one
\* Client.Do at most once, and only the daemon answers with a failure.
HonestTransport == MaxCopies = 1 /\ "refused" \notin Interposed

\* Requests of call o that did or may still change a log.
Exposed(o) == ByOp(o) \cup OnWire(o)

\* A call that has not returned has no result; a running one is within its
\* attempts and remembers no later one; only a call that waits for a copy's answer has a reply.
ControlInv ==
  \A o \in Op :
    /\ pc[o] = "done" <=> result[o].kind # "none"
    /\ pc[o] = "start" => attempt[o] = 0
    /\ pc[o] \notin {"start", "done"} => attempt[o] >= 1
    /\ pc[o] \in {"check", "backoff"} => attempt[o] < MaxAttempts
    /\ IF pc[o] = "await" THEN copy[o] >= 1 ELSE reply[o] = NoReply
    /\ uncertainty[o].attempt <= attempt[o]
    /\ pc[o] \in {"top", "send"} /\ active(o) => uncertainty[o].attempt < attempt[o]

\* From entry on the private copy holds the caller's bytes; a request on the
\* wire belongs to a call that has entered with an admissible key.
BodyInv ==
  \A o \in Op :
    /\ pc[o] = "start" => buf[o] = BodyOf[o] /\ OnWire(o) = {}
    /\ pc[o] \notin {"start", "done"} \/ OnWire(o) # {} =>
         exactBody[o] = BodyOf[o] /\ validateKeySyntax(KeyOf[o])

\* No attempt is exposed before it is made.
NotYetMade ==
  \A o \in Op : \A x \in Exposed(o) :
    /\ x.attempt <= attempt[o]
    /\ pc[o] \in {"top", "send"} => x.attempt < attempt[o]

\* A copy still on the wire has not been executed.
NotYetServed ==
  \A m \in wire : \A r \in ByOp(m.op) : r.attempt # m.attempt

\* Before the origin of the uncertainty nothing is exposed; without
\* uncertainty only the attempt being awaited can be.
Covered ==
  \A o \in Op : pc[o] # "done" => \A x \in Exposed(o) :
    \/ active(o) /\ x.attempt >= uncertainty[o].attempt
    \/ ~active(o) /\ pc[o] = "await" /\ x.attempt = attempt[o]

\* A failure reply means that its attempt was not executed and never will be.
FailureMeansUnexposed ==
  \A o \in Op : reply[o].status \in {"overload", "retryable", "refused"} =>
    \A x \in Exposed(o) : x.attempt # attempt[o]

IInv ==
  /\ NotYetMade
  /\ NotYetServed
  /\ Covered
  /\ FailureMeansUnexposed
  /\ DefiniteFailureNeverCommits
  /\ OriginBoundsCommit

-----------------------------------------------------------------------------
\* The daemon's receipt check: a key is executed at most once per log.
OncePerLog ==
  \A r1, r2 \in receipts : r1.log = r2.log /\ r1.key = r2.key => r1 = r2

\* The receipts are the exact bytes of their calls, at most one per key and log.
ReceiptInv ==
  /\ TypeOK
  /\ BodyInv
  /\ OncePerLog
  /\ ExactBytes

\* With key prefixes a 2xx reply of the daemon names the prefix's log too.
PrefixInv ==
  /\ ReceiptInv
  /\ StaysOnPrefixLog
  /\ \A o \in Op : reply[o].log \in {prefix, NoLog}

\* A 2xx reply of the daemon is backed by a durable receipt on its log, of the
\* call itself unless it is marked as replayed.
ReplyBacked ==
  \A o \in Op : reply[o].status = "ok" /\ reply[o].log # NoLog =>
    \E r \in Held(reply[o].log, KeyOf[o]) :
      r.body = BodyOf[o] /\ r.durable /\ (reply[o].replayed \/ r.op = o)

\* What makes a success true; it needs commit durability only.
SuccessInv ==
  /\ ReceiptInv
  /\ \A r \in receipts : r.durable
  /\ ReplyBacked
  /\ SuccessIsCommitted
  /\ FreshSuccessOwnsReceipt
=============================================================================

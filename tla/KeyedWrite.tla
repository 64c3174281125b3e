------------------------------ MODULE KeyedWrite ------------------------------
(***************************************************************************)
(* Concurrent calls of Session.WriteExact against one daemon: the attempt  *)
(* loop of session.go (uncertainty, identity recheck, backoff, retry), the *)
(* HTTP exchanges it makes through Client.do, and the copies of its        *)
(* requests that are still on the wire when the client has given up on     *)
(* them.  A Session is immutable, so the calls share nothing but the       *)
(* daemon.                                                                 *)
(***************************************************************************)
EXTENDS Daemon

CONSTANTS Pinned,       \* Session.logIdentity
          Writable,     \* Requirements.Writable or Requirements.Ingestion
          KeyOf,        \* KeyOf[o]: the key passed to call o
          BodyOf,       \* BodyOf[o]: the bytes in the caller's slice at the call
          Oversize,     \* bodies above Limits.MaxJSONRequestBytes
          NoBody,
          MaxCopies,    \* deliveries net/http may make of one Client.Do
          Interposed    \* statuses an intermediary may answer by itself

ASSUME KeyedWriteAssumption ==
  /\ Pinned \in Log
  /\ Writable \in BOOLEAN
  /\ KeyOf \in [Op -> Key]
  /\ BodyOf \in [Op -> Body]
  /\ Oversize \subseteq Body
  /\ NoBody \notin Body
  /\ MaxCopies \in Nat \ {0}
  /\ Interposed \subseteq {"ok", "refused"}

VARIABLES prefix,       \* the epoch of the key prefix the session requires
          pc,           \* where call o is in writeExact
          attempt,      \* the loop variable
          uncertainty,  \* writeUncertainty: the first unresolved attempt
          lastErr,      \* lastErr
          ctxDone,      \* ctx.Err() # nil
          buf,          \* the caller's slice
          exactBody,    \* the copy WriteExact took at entry
          result,       \* what the call returned
          wire,         \* request copies not yet answered by the daemon
          copy,         \* the copy whose answer Client.Do is waiting for
          reply         \* that answer, once it is on its way back

client == <<prefix, pc, attempt, uncertainty, lastErr, ctxDone, buf, exactBody, result>>
network == <<wire, copy, reply>>
vars == <<current, receipts, client, network>>

-----------------------------------------------------------------------------
PC == {"start", "top", "send", "await", "check", "backoff", "done"}

Request == [op : Op, attempt : 1..MaxAttempts, copy : 1..MaxCopies]

\* The causes an uncertainty can carry: an attempt's error, or a check that a
\* 2xx response failed.
Cause == AttemptError \cup {"none", "protocol", "decode"}

\* attempt = 0 stands for writeUncertainty.active = false.
Uncertainty == [attempt : 0..MaxAttempts, cause : Cause]
Certain == [attempt |-> 0, cause |-> "none"]
active(o) == uncertainty[o].attempt # 0

\* What a call returns.  "error" is the last attempt's own error, "refused" a
\* local refusal before the first attempt, "ctx" the bare context error,
\* "stopped" a RetryStoppedError, "uncertain" an UncertainOperationError with
\* its originating attempt and cause, its later failure (last) and why the
\* retries ended.
Result == [kind : {"none", "success", "uncertain", "error", "stopped", "ctx", "refused"},
           origin : Uncertainty, last : Cause,
           why : {"none", "identity", "changed", "ctx", "backoff"},
           replayed : BOOLEAN]
Outcome(kind, origin, last, why, replayed) ==
  [kind |-> kind, origin |-> origin, last |-> last, why |-> why, replayed |-> replayed]
Pending == Outcome("none", Certain, "none", "none", FALSE)

\* The epochs whose prefix the session's capability snapshot may require.  The
\* snapshot and the pinned identity are read in two requests: a database that
\* was replaced between them leaves the prefix of one log with the identity of
\* another (a mixed session, Preflight.tla).  NoLog: no prefix is required.
RequiredPrefix == IF EpochPrefix THEN Log ELSE {NoLog}

TypeOK ==
  /\ current \in Log
  /\ receipts \subseteq Receipt
  /\ prefix \in RequiredPrefix
  /\ pc \in [Op -> PC]
  /\ attempt \in [Op -> 0..MaxAttempts]
  /\ uncertainty \in [Op -> Uncertainty]
  /\ lastErr \in [Op -> AttemptError \cup {"none"}]
  /\ ctxDone \in [Op -> BOOLEAN]
  /\ buf \in [Op -> Body]
  /\ exactBody \in [Op -> Body \cup {NoBody}]
  /\ result \in [Op -> Result]
  /\ wire \subseteq Request
  /\ copy \in [Op -> 0..MaxCopies]
  /\ reply \in [Op -> Reply \cup {NoReply}]

Init ==
  /\ current = Pinned
  /\ receipts = {}
  /\ prefix \in RequiredPrefix
  /\ pc = [o \in Op |-> "start"]
  /\ attempt = [o \in Op |-> 0]
  /\ uncertainty = [o \in Op |-> Certain]
  /\ lastErr = [o \in Op |-> "none"]
  /\ ctxDone = [o \in Op |-> FALSE]
  /\ buf = BodyOf
  /\ exactBody = [o \in Op |-> NoBody]
  /\ result = [o \in Op |-> Pending]
  /\ wire = {}
  /\ copy = [o \in Op |-> 0]
  /\ reply = [o \in Op |-> NoReply]

-----------------------------------------------------------------------------
(* Endings of a call.                                                      *)

Return(o, r) ==
  /\ pc' = [pc EXCEPT ![o] = "done"]
  /\ result' = [result EXCEPT ![o] = r]

\* Mutant: the origin is always the last attempt.
uncertain_LastAttempt(u, last, lastAttempt, why) ==
  Outcome("uncertain", [attempt |-> lastAttempt, cause |-> last], "none", why, FALSE)

\* s.uncertain(u, last, lastAttempt, ...): an inactive uncertainty starts at
\* the last attempt; Last is kept only when it is a later attempt's.
uncertain(u, last, lastAttempt, why) ==
  LET origin == IF u.attempt # 0 THEN u ELSE [attempt |-> lastAttempt, cause |-> last]
  IN  Outcome("uncertain", origin,
              IF origin.attempt # lastAttempt THEN last ELSE "none", why, FALSE)

\* Mutant: a stopped retry forgets the uncertainty.
Stop_Forgetful(o, why) == Return(o, Outcome("stopped", Certain, lastErr[o], why, FALSE))

\* The shape of a retry that is stopped between two attempts.
Stop(o, why) ==
  Return(o, IF active(o)
              THEN uncertain(uncertainty[o], lastErr[o], attempt[o], why)
              ELSE Outcome("stopped", Certain, lastErr[o], why, FALSE))

-----------------------------------------------------------------------------
(* One action per step of writeExact.                                      *)

\* Mutant: the prefix is not checked.
validateKeySyntax_NoPrefix(k) == TRUE

\* validateKeySyntax, the part of it that depends on the session: the key
\* carries the prefix of the capability snapshot.
validateKeySyntax(k) == prefix # NoLog => Epoch[k] = prefix

Admitted(o) == Writable /\ validateKeySyntax(KeyOf[o]) /\ buf[o] \notin Oversize

\* append([]byte(nil), body...): the attempts use a copy of the caller's slice.
copied(o) == [exactBody EXCEPT ![o] = buf[o]]

\* Mutant: the requests share the caller's slice.
SentBody_Shared(o) == buf[o]

\* The body that a request of call o carries, whenever it is read.
SentBody(o) == exactBody[o]

Enter(o) ==
  /\ pc[o] = "start"
  /\ IF Admitted(o)
       THEN /\ pc' = [pc EXCEPT ![o] = "top"]
            /\ attempt' = [attempt EXCEPT ![o] = 1]
            /\ exactBody' = copied(o)
            /\ UNCHANGED result
       ELSE /\ Return(o, Outcome("refused", Certain, "none", "none", FALSE))
            /\ UNCHANGED <<attempt, exactBody>>
  /\ UNCHANGED <<current, receipts, prefix, uncertainty, lastErr, ctxDone, buf, network>>

\* Mutant: an ended context wins over the uncertainty.
Top_Forgetful(o) ==
  /\ pc[o] = "top"
  /\ IF ~ctxDone[o]
       THEN pc' = [pc EXCEPT ![o] = "send"] /\ UNCHANGED result
       ELSE Return(o, Outcome("ctx", Certain, "none", "ctx", FALSE))
  /\ UNCHANGED <<current, receipts, prefix, attempt, uncertainty, lastErr, ctxDone, buf,
                 exactBody, network>>

\* The head of the loop: a context that has ended stops the call.  Nothing is
\* kept of the attempt that will not be made.
Top(o) ==
  /\ pc[o] = "top"
  /\ IF ~ctxDone[o]
       THEN pc' = [pc EXCEPT ![o] = "send"] /\ UNCHANGED result
       ELSE Return(o,
              IF active(o)
                THEN uncertain(uncertainty[o], lastErr[o], attempt[o] - 1, "ctx")
              ELSE IF lastErr[o] # "none"
                THEN Outcome("stopped", Certain, lastErr[o], "ctx", FALSE)
              ELSE Outcome("ctx", Certain, "none", "ctx", FALSE))
  /\ UNCHANGED <<current, receipts, prefix, attempt, uncertainty, lastErr, ctxDone, buf,
                 exactBody, network>>

\* Client.do hands the request to net/http.
Send(o) ==
  /\ pc[o] = "send"
  /\ pc' = [pc EXCEPT ![o] = "await"]
  /\ wire' = wire \cup {[op |-> o, attempt |-> attempt[o], copy |-> 1]}
  /\ copy' = [copy EXCEPT ![o] = 1]
  /\ reply' = [reply EXCEPT ![o] = NoReply]
  /\ UNCHANGED <<current, receipts, prefix, attempt, uncertainty, lastErr, ctxDone, buf,
                 exactBody, result>>

\* uncertainty.note: only the first possibly submitted attempt is kept.
note(o, err, ok2xx) ==
  IF active(o) \/ ~possiblySubmitted(err, ok2xx)
    THEN uncertainty[o]
    ELSE [attempt |-> attempt[o], cause |-> err]

\* Nothing more is read of this attempt.
Abandon(o) ==
  /\ reply' = [reply EXCEPT ![o] = NoReply]
  /\ copy' = [copy EXCEPT ![o] = 0]
  /\ UNCHANGED wire

\* Mutant: the attempts are not bounded.
AttemptFailed_NoLimit(o, err, ok2xx) ==
  /\ uncertainty' = [uncertainty EXCEPT ![o] = note(o, err, ok2xx)]
  /\ lastErr' = [lastErr EXCEPT ![o] = err]
  /\ pc' = [pc EXCEPT ![o] = "check"]
  /\ UNCHANGED result
  /\ Abandon(o)
  /\ UNCHANGED <<current, receipts, prefix, attempt, ctxDone, buf, exactBody>>

\* The error branch: note the uncertainty; the last attempt, and an error that
\* is no retry candidate, end the call; any other goes to the identity check.
AttemptFailed(o, err, ok2xx) ==
  LET u == note(o, err, ok2xx)
  IN  /\ uncertainty' = [uncertainty EXCEPT ![o] = u]
      /\ lastErr' = [lastErr EXCEPT ![o] = err]
      /\ IF attempt[o] = MaxAttempts \/ ~retryCandidate(err)
           THEN Return(o, IF u.attempt # 0
                            THEN uncertain(u, err, attempt[o], "none")
                            ELSE Outcome("error", Certain, err, "none", FALSE))
           ELSE pc' = [pc EXCEPT ![o] = "check"] /\ UNCHANGED result
      /\ Abandon(o)
      /\ UNCHANGED <<current, receipts, prefix, attempt, ctxDone, buf, exactBody>>

\* do() fails before the transport: a bad request option, or a request-ID
\* generator that fails.
SendLocalError(o) ==
  /\ pc[o] = "send"
  /\ AttemptFailed(o, "local", FALSE)

\* http.Client.Do fails: timeout, cancellation or a broken connection.  The
\* request may never have been sent, may be on the wire, or may be answered.
Timeout(o) ==
  /\ pc[o] = "await"
  /\ AttemptFailed(o, "transport", FALSE)

\* A response has arrived and do() reports an error.
ReceiveError(o, d) ==
  /\ pc[o] = "await"
  /\ reply[o] # NoReply
  /\ doError(reply[o], d) # "none"
  /\ AttemptFailed(o, doError(reply[o], d), reply[o].status = "ok")

\* A 2xx response: the retained-response limit, validateWriteSuccess, and the
\* caller's own decoding of the body, in that order.
ReceiveOK(o, d, decodes) ==
  /\ pc[o] = "await"
  /\ reply[o] # NoReply
  /\ doError(reply[o], d) = "none"
  /\ Return(o,
       IF d = "oversize" \/ ~validateWriteSuccess(reply[o], d, Pinned)
         THEN uncertain(uncertainty[o], "protocol", attempt[o], "none")
       ELSE IF ~decodes
         THEN uncertain(uncertainty[o], "decode", attempt[o], "none")
       ELSE Outcome("success", Certain, "none", "none", reply[o].replayed))
  /\ lastErr' = [lastErr EXCEPT ![o] = "none"]
  /\ Abandon(o)
  /\ UNCHANGED <<current, receipts, prefix, attempt, uncertainty, ctxDone, buf, exactBody>>

\* currentIdentity fails: introspection is unavailable or invalid.
CheckUnavailable(o) ==
  /\ pc[o] = "check"
  /\ Return(o, uncertain(uncertainty[o], lastErr[o], attempt[o], "identity"))
  /\ UNCHANGED <<current, receipts, prefix, attempt, uncertainty, lastErr, ctxDone, buf,
                 exactBody, network>>

\* currentIdentity answers.  A context that has ended cannot reach the daemon.
Check(o) ==
  /\ pc[o] = "check"
  /\ ~ctxDone[o]
  /\ IF current # Pinned
       THEN Return(o, uncertain(uncertainty[o], lastErr[o], attempt[o], "changed"))
       ELSE pc' = [pc EXCEPT ![o] = "backoff"] /\ UNCHANGED result
  /\ UNCHANGED <<current, receipts, prefix, attempt, uncertainty, lastErr, ctxDone, buf,
                 exactBody, network>>

\* An injected Backoff may return a negative delay.
NegativeBackoff(o) ==
  /\ pc[o] = "backoff"
  /\ Stop(o, "backoff")
  /\ UNCHANGED <<current, receipts, prefix, attempt, uncertainty, lastErr, ctxDone, buf,
                 exactBody, network>>

\* Sleep returns early because the context ended.
SleepCancelled(o) ==
  /\ pc[o] = "backoff"
  /\ ctxDone[o]
  /\ Stop(o, "ctx")
  /\ UNCHANGED <<current, receipts, prefix, attempt, uncertainty, lastErr, ctxDone, buf,
                 exactBody, network>>

\* Mutant: the attempt is not counted.
Retry_Same(o) ==
  /\ pc[o] = "backoff"
  /\ pc' = [pc EXCEPT ![o] = "top"]
  /\ UNCHANGED <<current, receipts, prefix, attempt, uncertainty, lastErr, ctxDone, buf, exactBody,
                 result, network>>

\* The timer fires (it may win against a context that has just ended).
Retry(o) ==
  /\ pc[o] = "backoff"
  /\ pc' = [pc EXCEPT ![o] = "top"]
  /\ attempt' = [attempt EXCEPT ![o] = @ + 1]
  /\ UNCHANGED <<current, receipts, prefix, uncertainty, lastErr, ctxDone, buf, exactBody,
                 result, network>>

-----------------------------------------------------------------------------
(* The caller's other goroutines.                                          *)

Cancel(o) ==
  /\ pc[o] # "done"
  /\ ~ctxDone[o]
  /\ ctxDone' = [ctxDone EXCEPT ![o] = TRUE]
  /\ UNCHANGED <<current, receipts, prefix, pc, attempt, uncertainty, lastErr, buf,
                 exactBody, result, network>>

\* The slice belongs to the caller again once WriteExact has copied it.
Reuse(o, b) ==
  /\ pc[o] # "start"
  /\ b # buf[o]
  /\ buf' = [buf EXCEPT ![o] = b]
  /\ UNCHANGED <<current, receipts, prefix, pc, attempt, uncertainty, lastErr, ctxDone,
                 exactBody, result, network>>

-----------------------------------------------------------------------------
(* The network and the daemon.                                             *)

\* Client.Do of m's attempt is still waiting for this copy's answer.
Awaited(m) == pc[m.op] = "await" /\ attempt[m.op] = m.attempt /\ copy[m.op] = m.copy

Answered(m, r) ==
  /\ wire' = wire \ {m}
  /\ reply' = IF Awaited(m) THEN [reply EXCEPT ![m.op] = r] ELSE reply
  /\ UNCHANGED <<current, client, copy>>

\* The daemon executes a request, however late it arrives.
Serve(m) ==
  /\ m \in wire
  /\ receipts' = Applied(KeyOf[m.op], SentBody(m.op), m.op, m.attempt)
  /\ Answered(m, Answer(KeyOf[m.op], SentBody(m.op)))

\* The daemon refuses it unexecuted: overload, capacity, or a plain refusal.
Shed(m, status) ==
  /\ m \in wire
  /\ Answered(m, Failure(status))
  /\ UNCHANGED receipts

\* An intermediary answers for the daemon while the request is on the wire.
Interpose(o, status) ==
  /\ pc[o] = "await"
  /\ reply[o] = NoReply
  /\ reply' = [reply EXCEPT ![o] = Failure(status)]
  /\ UNCHANGED <<current, receipts, client, wire, copy>>

\* net/http sends a request with an Idempotency-Key and a rewindable body again
\* when a reused connection breaks before the first response byte.
TransportReplay(o) ==
  /\ pc[o] = "await"
  /\ copy[o] < MaxCopies
  /\ wire' = wire \cup {[op |-> o, attempt |-> attempt[o], copy |-> copy[o] + 1]}
  /\ copy' = [copy EXCEPT ![o] = @ + 1]
  /\ reply' = [reply EXCEPT ![o] = NoReply]
  /\ UNCHANGED <<current, receipts, client>>

-----------------------------------------------------------------------------
WriteExact(o) ==
  \/ Enter(o)
  \/ Top(o)
  \/ Send(o)
  \/ SendLocalError(o)
  \/ Timeout(o)
  \/ \E d \in Damage : ReceiveError(o, d)
  \/ \E d \in Damage, decodes \in BOOLEAN : ReceiveOK(o, d, decodes)
  \/ CheckUnavailable(o)
  \/ Check(o)
  \/ NegativeBackoff(o)
  \/ SleepCancelled(o)
  \/ Retry(o)

Caller(o) ==
  \/ Cancel(o)
  \/ \E b \in Body : Reuse(o, b)

Network ==
  \/ \E m \in wire : Serve(m)
  \/ \E m \in wire, status \in {"overload", "retryable", "refused"} : Shed(m, status)
  \/ \E o \in Op, status \in Interposed : Interpose(o, status)
  \/ \E o \in Op : TransportReplay(o)

Operator ==
  /\ \/ \E r \in receipts : Sync(r)
     \/ Crash
     \/ \E l \in Log : Replace(l)
  /\ UNCHANGED <<client, network>>

Next ==
  \/ \E o \in Op : WriteExact(o)
  \/ \E o \in Op : Caller(o)
  \/ Network
  \/ Operator

Spec == Init /\ [][Next]_vars

\* Every client step happens: http.Client always has a positive timeout
\* (config.go), the local steps do not block, and the default Sleep ends with
\* its timer.  Nothing is assumed of the network, the daemon or the caller.
Fairness == \A o \in Op : WF_vars(WriteExact(o))
FairSpec == Spec /\ Fairness

-----------------------------------------------------------------------------
(* What the calls promise.                                                 *)

returned(o, kinds) == result[o].kind \in kinds
Definite == {"error", "stopped", "ctx", "refused"}
ByOp(o) == {r \in receipts : r.op = o}
OnWire(o) == {m \in wire : m.op = o}

\* A success is the truth: the pinned log holds a receipt for the key with
\* exactly the caller's bytes, and (with commit durability, which an ingestion
\* session requires) no later crash takes it away.
\* session.go:210-232, docs/SAFETY.md attempt state.
SuccessIsCommitted ==
  \A o \in Op : returned(o, {"success"}) =>
    \E r \in Held(Pinned, KeyOf[o]) : r.body = BodyOf[o] /\ r.durable

\* A call that returns anything but success or uncertainty has not committed,
\* on any log, and never will: no copy of its requests is left on the wire to
\* be executed late.  session.go:194-206, 233-241, 254-277.
DefiniteFailureNeverCommits ==
  \A o \in Op : returned(o, Definite) => ByOp(o) = {} /\ OnWire(o) = {}

\* The attempt an UncertainOperationError names as its origin is at or before
\* the one that committed, so a caller who looks up UncertainRequestID does not
\* look too late; and everything still on the wire is at or after it.
\* session.go:289-297 (note), 360-385 (uncertain).
OriginBoundsCommit ==
  \A o \in Op : returned(o, {"uncertain"}) =>
    \A x \in ByOp(o) \cup OnWire(o) : x.attempt >= result[o].origin.attempt

\* A success that is not marked as replayed was executed by this very call, so
\* of all successful calls of one key at most one reports a fresh execution.
\* client.go:154-159 (Replayed), session.go:231.
FreshSuccessOwnsReceipt ==
  \A o \in Op : returned(o, {"success"}) /\ ~result[o].replayed =>
    \E r \in Held(Pinned, KeyOf[o]) : r.op = o

\* Whatever executes for a call, on the first attempt or on a delayed copy of a
\* later one, executes the bytes the caller passed under the key it passed, even
\* if the caller has reused its slice since.  session.go:168-170, 186-189.
ExactBytes ==
  \A r \in receipts : r.body = BodyOf[r.op] /\ r.key = KeyOf[r.op]

\* Under key prefixes a session changes no log but the one whose prefix its
\* snapshot requires, whatever is put behind the base URL between two attempts
\* or before a late copy arrives; and a mixed session, which executes on a log
\* it does not pin, never reports a success.
\* session.go:26-52 (two reads), 180 (required prefix), 242-252, 305-337.
StaysOnPrefixLog ==
  /\ \A r \in receipts : r.log = prefix
  /\ prefix # Pinned => \A o \in Op : ~returned(o, {"success"})

\* Once an attempt may have committed the call remembers that attempt for good,
\* and ends in success or in uncertainty about that very attempt, never in a
\* later attempt's plain error.  docs/SAFETY.md:116-120.
UncertaintyIsMonotone ==
  [][\A o \in Op : active(o) =>
        /\ uncertainty'[o] = uncertainty[o]
        /\ \/ result'[o] = result[o]
           \/ result'[o].kind = "success"
           \/ result'[o].kind = "uncertain" /\ result'[o].origin = uncertainty[o]]_vars

\* Every call returns, whatever the network, the daemon and the caller do: the
\* attempts are bounded and each wait has an end.  session.go:193-279.
Returns == \A o \in Op : <>(pc[o] = "done")

-----------------------------------------------------------------------------
(* The promise the calls keep (WritePromise.tla).                          *)

told(o) ==
  CASE result[o].kind = "none"      -> "pending"
    [] result[o].kind = "success"   -> "success"
    [] result[o].kind = "uncertain" -> "unknown"
    [] result[o].kind \in Definite  -> "failed"

Promise == INSTANCE WritePromise
  WITH outcome <- [o \in Op |-> told(o)],
       taken   <- {r.op : r \in {x \in receipts : x.log = Pinned}}

\* The session implements the promise: every step of a call, of the network or
\* of the operator is one step of it or changes nothing the callers can see.
\* session.go:168-280.
ImplementsPromise == Promise!Spec

-----------------------------------------------------------------------------
(* What the comments promise; the runs named in README.md refute these.    *)

\* "Automatic retries ... never cross an unavailable or changed log identity"
\* (session.go:168-170).
RetriesNeverCrossLogs ==
  \A r \in receipts : r.attempt > 1 => r.log = Pinned

\* "Once any attempt may have committed, uncertainty is monotonic: a later
\* managed error does not prove that the earlier attempt failed"
\* (docs/SAFETY.md:116-120): a plain error means that no request committed.
PlainErrorMeansNotCommitted ==
  \A o \in Op : returned(o, {"error", "stopped"}) => ByOp(o) = {}
=============================================================================

------------------------------- MODULE CallErrors -------------------------------
(***************************************************************************)
(* The error value a call of WriteExact returns (session.go:175-280,       *)
(* client.go:91-186), and what a caller that reads only Classify's view of *)
(* it may conclude.  The calls are KeyedWrite's; request IDs are the       *)
(* numbers of the attempts that carried them.                              *)
(***************************************************************************)
EXTENDS KeyedWriteInv, Classify

\* The ID of an introspection request: none of the write's.
IntrospectionID == MaxAttempts + 1

\* What a local failure or a broken exchange may wrap.
InnerCause == { <<>>, <<plain("context_canceled", 0)>>, <<plain("context_deadline", 0)>> }

\* What currentIdentity may fail with.
IdentityCause ==
  {TransportError(IntrospectionID, c) : c \in InnerCause}
    \cup {APIError(IntrospectionID, TRUE, <<>>), <<plain("capability", 0)>>}

\* The error of attempt n, for a cause of KeyedWrite.
attemptError(cause, n, inner) ==
  CASE cause = "none"      -> <<>>
    [] cause = "local"     -> wrapped(inner)
    [] cause = "transport" -> TransportError(n, wrapped(inner))
    [] cause = "tooLarge"  -> ResponseTooLargeError(n)
    [] cause = "protocol"  -> ProtocolError(n, <<>>)
    [] cause = "decode"    -> DecodeError(n, <<>>)
    [] OTHER               -> APIError(n, cause = "retryable", <<>>)

\* ctx.Err() of a context that has ended.
ctxError(inner) == IF inner = <<>> THEN <<plain("context_canceled", 0)>> ELSE inner

\* The reason why the retries ended, as an error.
stopCause(why, inner) ==
  CASE why = "ctx"     -> ctxError(inner)
    [] why = "backoff" -> <<plain("unknown", 0)>>
    [] OTHER           -> <<>>

\* Why Enter refused a call.
refusal(o) ==
  IF ~Writable THEN <<plain("capability", 0)>>
  ELSE IF ~validateKeySyntax(KeyOf[o]) THEN <<plain("invalid_key", 0)>>
  ELSE <<plain("request_too_large", 0)>>

\* The error that call o returned.  n is the number of its last attempt,
\* inner the context error or other cause in it, identity that of a failed
\* identity check.
returnedError(o, n, inner, identity) ==
  LET r == result[o]
      last == attemptError(r.last, n, inner)
  IN  CASE r.kind = "refused"   -> refusal(o)
        [] r.kind = "ctx"       -> ctxError(inner)
        [] r.kind = "error"     -> attemptError(r.last, n, inner)
        [] r.kind = "stopped"   -> RetryStoppedError(RequestIDFromError(last), last,
                                                     stopCause(r.why, inner))
        [] r.kind = "uncertain" ->
             UncertainOperationError(
               IF r.last = "none" THEN r.origin.attempt ELSE RequestIDFromError(last),
               RequestIDFromError(attemptError(r.origin.cause, r.origin.attempt, inner)),
               attemptError(r.origin.cause, r.origin.attempt, inner), last,
               IF r.why = "identity" THEN identity ELSE <<>>, stopCause(r.why, inner))
        [] OTHER                -> <<>>

\* The last attempt a returned call made: at the head of the loop the counter
\* is already one ahead.
LastAttempt(o) == {attempt[o], attempt[o] - 1} \cap 1..MaxAttempts

\* The causes of an attempt that went out: their errors carry its request ID.
SentCause == Cause \ {"none", "local"}

\* Uncertainty is about an attempt that went out, never about a local failure.
CauseInv ==
  \A o \in Op :
    /\ active(o) => uncertainty[o].cause \in SentCause
    /\ pc[o] \in {"check", "backoff"} => lastErr[o] \in SentCause
    /\ returned(o, {"uncertain"}) =>
         result[o].origin.cause \in SentCause /\ result[o].origin.attempt \in 1..MaxAttempts

\* What a caller who wraps the error and reads only Classify's view of it
\* concludes is true: if a request of the call has changed a log or still may,
\* MayHaveCommitted says so and UncertainRequestID names an attempt at or
\* before that request; and an error without MayHaveCommitted, whatever it
\* wraps, is never about such a call.  classify.go:91-118, docs/SAFETY.md
\* "Error diagnostics".
ClassifiedTruth ==
  \A o \in Op : returned(o, Definite \cup {"uncertain"}) =>
    \A x \in Exposed(o), n \in LastAttempt(o), inner \in InnerCause, identity \in IdentityCause :
      LET info == Classify(wrapped(returnedError(o, n, inner, identity)))
      IN  info.mayHaveCommitted /\ info.uncertainRequestID \in 1..x.attempt
=============================================================================

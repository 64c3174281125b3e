-------------------------------- MODULE Classify --------------------------------
(***************************************************************************)
(* Classify of classify.go: the machine-readable view of any error the SDK *)
(* returns.  An error is the sequence of the nodes errors.As and errors.Is *)
(* visit, in their order: an error first, then what it unwraps to, depth   *)
(* first and left to right (the Unwrap methods of errors.go).  Texts,      *)
(* paths, sizes and bodies are left out.  Constant-level.                  *)
(***************************************************************************)
EXTENDS Integers, Sequences

\* The types Classify looks for, in the order in which it does.
Precedence ==
  << "uncertain_operation", "retry_stopped", "api", "capability", "invalid_key",
     "request_too_large", "response_too_large", "decode", "transport", "protocol",
     "query_validation", "write_validation", "ingest_validation",
     "context_canceled", "context_deadline" >>

\* The types that implement requestIDValue.
Carrier == {"uncertain_operation", "retry_stopped", "api", "response_too_large", "decode",
            "transport", "protocol"}

\* A node: its type ("unknown" is any type Classify does not look for), the
\* request ID it keeps ("" is 0), for an uncertain operation also the first
\* uncertain request's, and for an APIError its flag.
ErrorType == {Precedence[i] : i \in DOMAIN Precedence} \cup {"unknown"}
Node == [type : ErrorType, id : Nat, origin : Nat, retryable : BOOLEAN]
node(type, id, origin, retryable) ==
  [type |-> type, id |-> id, origin |-> origin, retryable |-> retryable]
plain(type, id) == node(type, id, 0, FALSE)

-----------------------------------------------------------------------------
(* The errors of errors.go.  A nil cause is the empty sequence.            *)

APIError(id, retryable, decodeError) == <<node("api", id, 0, retryable)>> \o decodeError
TransportError(id, cause) == <<plain("transport", id)>> \o cause
ResponseTooLargeError(id) == <<plain("response_too_large", id)>>
DecodeError(id, cause) == <<plain("decode", id)>> \o cause
ProtocolError(id, cause) == <<plain("protocol", id)>> \o cause
RetryStoppedError(id, last, cause) == <<plain("retry_stopped", id)>> \o (cause \o last)
UncertainOperationError(id, originID, cause, last, identityCause, stop) ==
  <<node("uncertain_operation", id, originID, FALSE)>>
     \o (cause \o last \o identityCause \o stop)

\* fmt.Errorf("...: %w", err), by the caller or inside the SDK.
wrapped(err) == <<plain("unknown", 0)>> \o err

-----------------------------------------------------------------------------
reaches(err, types) == \E i \in DOMAIN err : err[i].type \in types

\* errors.As: the first node of one of these types.
as(err, types) ==
  err[CHOOSE i \in DOMAIN err :
        err[i].type \in types /\ \A j \in DOMAIN err : j < i => err[j].type \notin types]

RequestIDFromError(err) ==
  IF reaches(err, Carrier) THEN as(err, Carrier).id ELSE 0

IsRetryable(err) == reaches(err, {"api"}) /\ as(err, {"api"}).retryable

\* Mutant: the context errors are looked for first.
kind_ContextFirst(err) ==
  IF reaches(err, {"context_canceled", "context_deadline"})
    THEN as(err, {"context_canceled", "context_deadline"}).type
  ELSE IF \E i \in DOMAIN Precedence : reaches(err, {Precedence[i]})
    THEN Precedence[CHOOSE i \in DOMAIN Precedence :
           /\ reaches(err, {Precedence[i]})
           /\ \A j \in DOMAIN Precedence : j < i => ~reaches(err, {Precedence[j]})]
    ELSE "unknown"

\* The first type of the order that the error reaches.
kind(err) ==
  IF \E i \in DOMAIN Precedence : reaches(err, {Precedence[i]})
    THEN Precedence[CHOOSE i \in DOMAIN Precedence :
           /\ reaches(err, {Precedence[i]})
           /\ \A j \in DOMAIN Precedence : j < i => ~reaches(err, {Precedence[j]})]
    ELSE "unknown"

\* Mutant: the final request's ID stands for the uncertain one's.
Classify_FinalID(err) ==
  IF err = <<>>
    THEN [kind |-> "", retryable |-> FALSE, requestID |-> 0, uncertainRequestID |-> 0,
          mayHaveCommitted |-> FALSE]
    ELSE [kind |-> kind(err), retryable |-> IsRetryable(err),
          requestID |-> RequestIDFromError(err),
          uncertainRequestID |-> RequestIDFromError(err),
          mayHaveCommitted |-> kind(err) = "uncertain_operation"]

\* The request ID and the flag of the node that gives the kind; a type that
\* keeps none leaves those that RequestIDFromError and IsRetryable found.
Classify(err) ==
  LET k == kind(err)
      found == as(err, {k})
  IN  IF err = <<>>
        THEN [kind |-> "", retryable |-> FALSE, requestID |-> 0, uncertainRequestID |-> 0,
              mayHaveCommitted |-> FALSE]
        ELSE [kind |-> k,
              retryable |-> IF k = "api" THEN found.retryable ELSE IsRetryable(err),
              requestID |-> IF k \in Carrier THEN found.id ELSE RequestIDFromError(err),
              uncertainRequestID |->
                IF k # "uncertain_operation" THEN 0
                ELSE IF found.origin # 0 THEN found.origin ELSE found.id,
              mayHaveCommitted |-> k = "uncertain_operation"]
=============================================================================

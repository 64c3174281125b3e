--------------------------------- MODULE Wire ---------------------------------
(***************************************************************************)
(* One HTTP exchange as the client of joeydb-go sees it: what a reply of   *)
(* the daemon can carry, what can happen to it on the way, the error that  *)
(* Client.do makes of it, and the three predicates with which              *)
(* Session.writeExact classifies that error.  Constant-level: the state    *)
(* machines of Daemon.tla and KeyedWrite.tla use these operators.          *)
(***************************************************************************)
EXTENDS Naturals

CONSTANTS Log,      \* the log identities a daemon may report
          NoLog     \* no identity, or a text that is not one

ASSUME WireAssumption == NoLog \notin Log

\* The classes of HTTP status the client tells apart.  "retryable" is a
\* managed error with its retryable flag set; "refused" is any other status
\* that is neither 2xx nor 429.
Status == {"ok", "overload", "retryable", "refused"}

\* A reply: its status, the log identity in a 2xx body, and the value of the
\* Idempotency-Replayed header.  NoReply: the exchange has no answer yet.
Reply == [status : Status, log : Log \cup {NoLog}, replayed : BOOLEAN]
NoReply == [status |-> "none", log |-> NoLog, replayed |-> FALSE]

Failure(status) == [status |-> status, log |-> NoLog, replayed |-> FALSE]
\* Mutant: the replay header is dropped.
Committed_NoReplayHeader(l, replayed) == [status |-> "ok", log |-> l, replayed |-> FALSE]

Committed(l, replayed) == [status |-> "ok", log |-> l, replayed |-> replayed]

\* What can happen to a reply before or while do() reads it: nothing; the
\* connection is cut inside the body; the body is not JoeyDB's (malformed,
\* committed:false, no valid identity); the replay header is missing or not a
\* boolean; the body exceeds the advertised retained-response limit, or the
\* client's own response limit.
Damage == {"intact", "cut", "garbled", "noReplay", "oversize", "huge"}

\* The errors that do() and the checks after it can leave in lastErr.
AttemptError == {"local", "transport", "tooLarge", "overload", "retryable", "refused"}

\* do() once a status line has arrived: a read error comes before the status
\* is looked at; a managed error whose body is damaged or truncated loses its
\* retryable flag but keeps its status; only then is a 2xx body's size checked.
doError(r, d) ==
  CASE d = "cut"                         -> "transport"
    [] d # "cut" /\ r.status = "ok"      -> IF d = "huge" THEN "tooLarge" ELSE "none"
    [] d # "cut" /\ r.status = "retryable"
                                         -> IF d \in {"garbled", "huge"} THEN "refused" ELSE "retryable"
    [] OTHER                             -> r.status

\* Mutant: a 2xx response that could not be read counts as not submitted.
possiblySubmitted_TransportOnly(err, ok2xx) == err = "transport"

\* possiblySubmitted(response, err); "ok2xx" says that err came with a 2xx
\* response (a read error or an oversized body).
possiblySubmitted(err, ok2xx) == err = "transport" \/ ok2xx

\* retryCandidate(err): a transport failure, a managed retryable error, or 429.
retryCandidate(err) == err \in {"transport", "retryable", "overload"}

\* Mutant: the identity in the body is not compared with the pinned one.
validateWriteSuccess_AnyIdentity(r, d, pinned) ==
  d \notin {"noReplay", "garbled"} /\ r.log # NoLog

\* validateWriteSuccess: replay header, JSON, committed, valid identity, and
\* the identity the session pins.
validateWriteSuccess(r, d, pinned) ==
  d \notin {"noReplay", "garbled"} /\ r.log = pinned
=============================================================================

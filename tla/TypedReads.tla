------------------------------ MODULE TypedReads ------------------------------
(***************************************************************************)
(* Typed reads beside writes: QueryTable and its four siblings check a     *)
(* request before any I/O and the answer after it.  An application writes, *)
(* keeps the watermark of each receipt, and reads, while the daemon behind *)
(* the base URL may lag behind its log or be replaced by another one.      *)
(*                                                                         *)
(* The daemon is external.  It is taken to honour required_watermark and   *)
(* log_identity, and nothing else: it may lag whatever the consistency     *)
(* asked for, and answer with any shape.                                   *)
(***************************************************************************)
EXTENDS TypedQuery

CONSTANTS Requests,     \* what the application asks without a read constraint
          MaxWatermark  \* bound on the writes of one log

ASSUME TypedReadsAssumption ==
  /\ MaxWatermark \in Nat
  /\ \A r \in Requests :
       \A p \in {r.where.subject, r.where.predicate, r.where.object} : p.values \in Seq(Label)

Writes == [log : Identity, watermark : 1..MaxWatermark]

VARIABLES db,       \* the log behind the base URL and its watermark
          receipts, \* the application's writes
          stage,    \* where its read is
          method,   \* the shape of the Query method it calls
          request,  \* the request it passes
          body,     \* what is on the wire
          answer,   \* what came back
          outcome   \* what the method returned

vars == <<db, receipts, stage, method, request, body, answer, outcome>>
read == <<stage, method, request, body, answer, outcome>>

NoRequest == <<>>
NoAnswer == [kind |-> "none", shape |-> "", payload |-> FALSE, log |-> NoLog, applied |-> 0]
Outcome == {"none", "validation", "mismatch", "error", "protocol", "success"}

TypeOK ==
  /\ db.log \in Identity /\ db.watermark \in 0..MaxWatermark
  /\ receipts \subseteq Writes
  /\ stage \in {"idle", "sent", "answered", "returned"}
  /\ method \in Shapes
  /\ outcome \in Outcome
  /\ answer.kind \in {"none", "ok", "undecodable", "failed"}
  /\ outcome # "none" <=> stage = "returned"
  /\ stage \in {"sent", "answered"} => Validate(request) /\ body = Encode(request)

Init ==
  /\ db \in [log : Identity, watermark : {0}]
  /\ receipts = {}
  /\ stage = "idle"
  /\ method \in Shapes
  /\ request = NoRequest
  /\ body = NoRequest
  /\ answer = NoAnswer
  /\ outcome = "none"

-----------------------------------------------------------------------------
\* A keyed write of the application commits and it keeps the receipt.
Write ==
  /\ db.watermark < MaxWatermark
  /\ db' = [db EXCEPT !.watermark = @ + 1]
  /\ receipts' = receipts \cup {[log |-> db.log, watermark |-> db.watermark + 1]}
  /\ UNCHANGED read

\* Somebody else's write, or another database: it is as far as it is.
Replace ==
  /\ \E l \in Identity, w \in 0..MaxWatermark :
       /\ l = db.log => w > db.watermark
       /\ db' = [log |-> l, watermark |-> w]
  /\ \A r \in receipts : r.log = db'.log => r.watermark <= db'.watermark
  /\ UNCHANGED <<receipts, read>>

\* Constraints an application can form: from a receipt, from the identity of a
\* session, and ones it got wrong.
Constraints ==
  {Unconstrained, ReadAfter(0, db.log), ReadAfter(1, NoLog)}
    \cup {ReadAfter(r.watermark, r.log) : r \in receipts}
    \cup {OnLog(l) : l \in Identity}

\* The simplest read under a constraint.
ReadAll(shape, c) ==
  [where |-> [all |-> TRUE, subject |-> Anything, predicate |-> Anything, object |-> Anything,
              number |-> NoRange],
   return |-> Return(shape, <<>>), consistency |-> "",
   optimization |-> [tag |-> "auto", representation |-> ""], constraint |-> c,
   limit |-> NoLimit, order |-> <<>>, offset |-> 0]

\* Mutant: the error is kept but the method goes on waiting.
Fail_Waiting(error) == stage' = "idle" /\ outcome' = error /\ UNCHANGED <<body, answer>>

\* The method returns before any I/O.
Fail(error) == stage' = "returned" /\ outcome' = error /\ UNCHANGED <<body, answer>>

\* QueryTable, QueryGraph, ...: validateTypedQueryShape, then QueryRequest up to
\* the request on the wire.
Query(r) ==
  /\ stage = "idle"
  /\ request' = r
  /\ \/ ~Validate(r) /\ Fail("validation")
     \/ Validate(r) /\ r.return.shape # method /\ Fail("mismatch")
     \/ /\ Validate(r) /\ r.return.shape = method
        /\ stage' = "sent" /\ body' = Encode(r) /\ UNCHANGED <<answer, outcome>>
  /\ UNCHANGED <<db, receipts, method>>

\* Whether a daemon that has applied so much of its log may execute a body.
Honours(b, applied) ==
  /\ b.constraint.log_identity \in {NoLog, db.log}
  /\ b.constraint.required_watermark <= applied

\* External: the daemon answers from what it has applied.
Serve ==
  /\ stage = "sent"
  /\ \E applied \in 0..db.watermark, shape \in Shapes \cup {""}, payload \in BOOLEAN :
       /\ Honours(body, applied)
       /\ answer' = [kind |-> "ok", shape |-> shape, payload |-> payload,
                     log |-> db.log, applied |-> applied]
  /\ stage' = "answered"
  /\ UNCHANGED <<db, receipts, method, request, body, outcome>>

\* External: it refuses, or the answer is lost or cannot be decoded.
Break ==
  /\ stage = "sent"
  /\ \E kind \in {"failed", "undecodable"} : answer' = [NoAnswer EXCEPT !.kind = kind]
  /\ stage' = "answered"
  /\ UNCHANGED <<db, receipts, method, request, body, outcome>>

\* validateTypedQueryResult: no error.
validateTypedQueryResult(a) == a.shape = method /\ a.payload

\* Client.Query returns and the method checks the result.
Receive ==
  /\ stage = "answered"
  /\ stage' = "returned"
  /\ outcome' = CASE answer.kind # "ok" -> "error"
                  [] answer.kind = "ok" /\ ~validateTypedQueryResult(answer) -> "protocol"
                  [] OTHER -> "success"
  /\ UNCHANGED <<db, receipts, method, request, body, answer>>

\* The application goes on to its next read.
Again ==
  /\ stage = "returned"
  /\ stage' = "idle"
  /\ request' = NoRequest /\ body' = NoRequest /\ answer' = NoAnswer /\ outcome' = "none"
  /\ UNCHANGED <<db, receipts, method>>

Next ==
  \/ Write \/ Replace \/ Serve \/ Break \/ Receive \/ Again
  \/ \E r \in Requests : Query(r)
  \/ \E c \in Constraints : Query(ReadAll(method, c))

Spec == Init /\ [][Next]_vars

-----------------------------------------------------------------------------
\* A read after one's own write sees it or fails, and a read on a log never sees
\* another, whatever happened to the daemon since the receipt.
\* query/types.go:195-206, query/encode.go:92-98.
ReadYourWrites ==
  outcome = "success" =>
    /\ \A w \in receipts :
         request.constraint = ReadAfter(w.watermark, w.log)
           => answer.log = w.log /\ answer.applied >= w.watermark
    /\ \A l \in Identity : request.constraint = OnLog(l) => answer.log = l

\* How the daemon reads a label of a query: one question mark starts a variable,
\* a second one escapes it.
Variable(l) == l.marks = 1
Literal(l) == IF l.marks > 1 THEN [l EXCEPT !.marks = @ - 1] ELSE l

\* Every label reaches the daemon as the literal that the caller wrote, never as
\* a variable that would match everything.  query/encode.go:115-134.
LabelsStayLiteral ==
  stage = "sent" =>
    \A p \in {<<body.subject, request.where.subject>>, <<body.predicate, request.where.predicate>>,
              <<body.object, request.where.object>>} :
      \A i \in 1..Len(p[1].labels) :
        ~Variable(p[1].labels[i]) /\ Literal(p[1].labels[i]) = p[2].values[i]
=============================================================================

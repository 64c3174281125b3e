--------------------------- MODULE TypedReadsProofs ---------------------------
(***************************************************************************)
(* Typed reads keep their promises for any set of requests, logs, texts    *)
(* and watermarks.                                                         *)
(***************************************************************************)
EXTENDS TypedReads, TLAPS

\* The labels of a request are texts, question marks counted.
Labelled(r) ==
  /\ r.where.subject.values \in Seq(Label)
  /\ r.where.predicate.values \in Seq(Label)
  /\ r.where.object.values \in Seq(Label)

(***************************************************************************)
(* What was checked when the request was sent still holds when the answer  *)
(* comes, and the answer honours the constraint that was on the wire.      *)
(***************************************************************************)
SentInv ==
  stage \in {"sent", "answered"} =>
    /\ Validate(request) /\ body = Encode(request) /\ request.return.shape = method
    /\ Labelled(request)

AnswerInv ==
  stage = "answered" /\ answer.kind = "ok" =>
    /\ request.constraint.log \in {NoLog, answer.log}
    /\ request.constraint.watermark <= answer.applied

SuccessInv ==
  outcome = "success" =>
    /\ request.constraint.log \in {NoLog, answer.log}
    /\ request.constraint.watermark <= answer.applied

Inv == TypeOK /\ SentInv /\ AnswerInv /\ SuccessInv

LEMMA InitInv == Init => Inv
<1>. SUFFICES ASSUME Init PROVE Inv
  OBVIOUS
<1>1. db.log \in Identity /\ db.watermark \in 0..MaxWatermark
  <2>1. db.log \in Identity /\ db.watermark = 0
    BY DEF Init
  <2>. QED BY <2>1, TypedReadsAssumption
<1>2. answer.kind = "none"
  BY DEF Init, NoAnswer
<1>3. TypeOK
  BY <1>1, <1>2 DEF Init, TypeOK, Outcome
<1>4. SentInv /\ AnswerInv /\ SuccessInv
  BY DEF Init, SentInv, AnswerInv, SuccessInv
<1>. QED BY <1>3, <1>4 DEF Inv

\* The database moves on its own: the read in flight is as it was.
LEMMA WriteInv == Inv /\ Write => Inv'
<1>. SUFFICES ASSUME Inv, Write PROVE Inv'
  OBVIOUS
<1>. /\ db'.log = db.log /\ db'.watermark = db.watermark + 1
     /\ db'.watermark \in 1..MaxWatermark
  <2>1. db' = [db EXCEPT !.watermark = db.watermark + 1] /\ db.watermark < MaxWatermark
    BY DEF Write
  <2>2. db.watermark \in 0..MaxWatermark
    BY DEF Inv, TypeOK
  <2>. QED BY <2>1, <2>2, TypedReadsAssumption
<1>1. receipts' \subseteq Writes
  <2>1. [log |-> db.log, watermark |-> db.watermark + 1] \in Writes
    BY DEF Inv, TypeOK, Writes
  <2>. QED BY <2>1 DEF Inv, TypeOK, Write
<1>2. TypeOK'
  BY <1>1, TypedReadsAssumption DEF Inv, TypeOK, Write, read
<1>3. SentInv' /\ AnswerInv' /\ SuccessInv'
  BY DEF Inv, SentInv, AnswerInv, SuccessInv, Write, read
<1>. QED BY <1>2, <1>3 DEF Inv

LEMMA ReplaceInv == Inv /\ Replace => Inv'
<1>. SUFFICES ASSUME Inv, Replace PROVE Inv'
  OBVIOUS
<1>1. db'.log \in Identity /\ db'.watermark \in 0..MaxWatermark
  BY DEF Replace
<1>2. TypeOK'
  BY <1>1 DEF Inv, TypeOK, Replace, read
<1>3. SentInv' /\ AnswerInv' /\ SuccessInv'
  BY DEF Inv, SentInv, AnswerInv, SuccessInv, Replace, read
<1>. QED BY <1>2, <1>3 DEF Inv

\* A request is refused before any I/O or goes out as it was validated.
LEMMA QueryInv ==
  ASSUME Inv, NEW r, Labelled(r), Query(r)
  PROVE  Inv'
<1>. stage' \in {"returned", "sent"} /\ outcome' # "success"
  BY DEF Inv, TypeOK, Query, Fail
<1>1. TypeOK'
  BY DEF Inv, TypeOK, Query, Fail, Outcome
<1>2. SentInv'
  BY DEF Inv, SentInv, Query, Fail, Labelled
<1>3. AnswerInv' /\ SuccessInv'
  BY DEF AnswerInv, SuccessInv
<1>. QED BY <1>1, <1>2, <1>3 DEF Inv

\* The daemon compares the constraint on the wire with its state of the moment.
LEMMA ServeInv == Inv /\ Serve => Inv'
<1>. SUFFICES ASSUME Inv, Serve PROVE Inv'
  OBVIOUS
<1>1. TypeOK'
  <2>1. answer'.kind = "ok"
    <3>1. PICK applied \in 0..db.watermark, shape \in Shapes \cup {""}, payload \in BOOLEAN :
            answer' = [kind |-> "ok", shape |-> shape, payload |-> payload,
                       log |-> db.log, applied |-> applied]
      BY DEF Serve
    <3>. QED BY <3>1
  <2>. QED BY <2>1 DEF Inv, TypeOK, Serve
<1>2. SentInv'
  BY DEF Inv, SentInv, Serve
<1>3. AnswerInv'
  <2>1. PICK applied \in 0..db.watermark, shape \in Shapes \cup {""}, payload \in BOOLEAN :
          /\ Honours(body, applied)
          /\ answer' = [kind |-> "ok", shape |-> shape, payload |-> payload,
                        log |-> db.log, applied |-> applied]
    BY DEF Serve
  <2>2. body.constraint.log_identity = request.constraint.log
        /\ body.constraint.required_watermark = request.constraint.watermark
    <3>1. body = Encode(request)
      BY DEF Inv, SentInv, Serve
    <3>2. body.constraint = constraintWire(request.constraint)
      BY <3>1 DEF Encode
    <3>3. /\ constraintWire(request.constraint).log_identity = request.constraint.log
          /\ constraintWire(request.constraint).required_watermark = request.constraint.watermark
      BY DEF constraintWire
    <3>. QED BY <3>2, <3>3
  <2>3. answer'.log = db.log /\ answer'.applied = applied
    BY <2>1
  <2>. QED BY <2>1, <2>2, <2>3 DEF AnswerInv, Honours, Serve
<1>4. SuccessInv'
  BY DEF Inv, TypeOK, SuccessInv, Serve
<1>. QED BY <1>1, <1>2, <1>3, <1>4 DEF Inv

LEMMA BreakInv == Inv /\ Break => Inv'
BY DEF Inv, Break, TypeOK, SentInv, AnswerInv, SuccessInv, NoAnswer

LEMMA ReceiveInv == Inv /\ Receive => Inv'
<1>. SUFFICES ASSUME Inv, Receive PROVE Inv'
  OBVIOUS
<1>1. outcome' \in {"error", "protocol", "success"}
  BY DEF Receive
<1>2. outcome' = "success" => answer.kind = "ok" /\ validateTypedQueryResult(answer)
  BY DEF Receive
<1>3. TypeOK'
  BY <1>1 DEF Inv, TypeOK, Receive, Outcome
<1>4. SentInv' /\ AnswerInv'
  BY DEF Inv, SentInv, AnswerInv, Receive
<1>5. SuccessInv'
  BY <1>2 DEF Inv, SentInv, AnswerInv, SuccessInv, Receive, validateTypedQueryResult
<1>. QED BY <1>3, <1>4, <1>5 DEF Inv

LEMMA AgainInv == Inv /\ Again => Inv'
<1>. SUFFICES ASSUME Inv, Again PROVE Inv'
  OBVIOUS
<1>1. stage' = "idle" /\ outcome' = "none" /\ answer'.kind = "none"
  BY DEF Again, NoAnswer
<1>2. TypeOK'
  BY <1>1 DEF Inv, TypeOK, Again, Outcome
<1>. QED BY <1>1, <1>2 DEF Inv, SentInv, AnswerInv, SuccessInv

LEMMA NextInv == Inv /\ [Next]_vars => Inv'
<1>. SUFFICES ASSUME Inv, [Next]_vars PROVE Inv'
  OBVIOUS
<1>1. ASSUME NEW r \in Requests, Query(r) PROVE Inv'
  <2>1. Labelled(r)
    BY TypedReadsAssumption DEF Labelled
  <2>. QED BY <1>1, <2>1, QueryInv
<1>2. ASSUME NEW c \in Constraints, Query(ReadAll(method, c)) PROVE Inv'
  <2>1. <<>> \in Seq(Label)
    OBVIOUS
  <2>2. Labelled(ReadAll(method, c))
    BY <2>1 DEF Labelled, ReadAll, Anything
  <2>. QED BY <1>2, <2>2, QueryInv
<1>3. CASE UNCHANGED vars
  BY <1>3 DEF Inv, vars, TypeOK, SentInv, AnswerInv, SuccessInv
<1>. QED
  BY <1>1, <1>2, <1>3, WriteInv, ReplaceInv, ServeInv, BreakInv, ReceiveInv, AgainInv DEF Next

LEMMA Always == Spec => []Inv
BY InitInv, NextInv, PTL DEF Spec

-----------------------------------------------------------------------------
\* The state of a typed read is well formed, and what waits for an answer was
\* validated and encoded.
THEOREM ReadsTypeCorrect == Spec => []TypeOK
<1>1. Inv => TypeOK
  BY DEF Inv
<1>. QED BY <1>1, Always, PTL

\* A successful read under the watermark of one's own receipt contains the
\* write, however often the database was replaced since.
THEOREM ReadYourWritesHolds == Spec => []ReadYourWrites
<1>1. Inv => ReadYourWrites
  <2>. SUFFICES ASSUME Inv, outcome = "success" PROVE ReadYourWrites
    BY DEF ReadYourWrites
  <2>1. /\ request.constraint.log \in {NoLog, answer.log}
        /\ request.constraint.watermark <= answer.applied
    BY DEF Inv, SuccessInv
  <2>2. ASSUME NEW w \in receipts, request.constraint = ReadAfter(w.watermark, w.log)
        PROVE  answer.log = w.log /\ answer.applied >= w.watermark
    <3>1. w.log \in Identity /\ w.watermark \in Nat
      BY DEF Inv, TypeOK, Writes
    <3>2. request.constraint.log = w.log /\ request.constraint.watermark = w.watermark
      BY <2>2 DEF ReadAfter
    <3>. QED BY <2>1, <3>1, <3>2, TypedQueryAssumption
  <2>3. ASSUME NEW l \in Identity, request.constraint = OnLog(l)
        PROVE  answer.log = l
    <3>1. request.constraint.log = l
      BY <2>3 DEF OnLog
    <3>. QED BY <2>1, <3>1, TypedQueryAssumption
  <2>. QED BY <2>2, <2>3 DEF ReadYourWrites
<1>. QED BY <1>1, Always, PTL

\* A position on the wire is its labels, escaped one by one, and escaping is what
\* the daemon undoes.
LEMMA EscapedLabels ==
  ASSUME NEW l, l.values \in Seq(Label), NEW n \in 1..Len(labelsWire(l).labels)
  PROVE  /\ ~Variable(labelsWire(l).labels[n])
         /\ Literal(labelsWire(l).labels[n]) = l.values[n]
<1>1. labelsWire(l).labels = [k \in 1..Len(l.values) |-> escapeLabel(l.values[k])]
  BY DEF labelsWire
<1>2. n \in 1..Len(l.values)
  <2>1. Len(l.values) \in Nat
    OBVIOUS
  <2>. QED BY <1>1, <2>1
<1>3. labelsWire(l).labels[n] = escapeLabel(l.values[n])
  BY <1>1, <1>2
<1>4. l.values[n] \in Label
  BY <1>2
<1>. DEFINE v == l.values[n]
<1>. HIDE DEF v
<1>5. v = [marks |-> v.marks, name |-> v.name] /\ v.marks \in Nat
  BY <1>4 DEF v, Label
<1>6. CASE v.marks = 0
  <2>1. escapeLabel(v) = v
    BY <1>6 DEF escapeLabel
  <2>. QED BY <1>3, <1>6, <2>1 DEF Variable, Literal, v
<1>7. CASE v.marks > 0
  <2>. DEFINE e == [v EXCEPT !.marks = v.marks + 1]
  <2>1. escapeLabel(v) = e
    BY <1>7 DEF escapeLabel
  <2>2. e = [marks |-> v.marks + 1, name |-> v.name]
    BY <1>5
  <2>. HIDE DEF e
  <2>3. e.marks = v.marks + 1 /\ e.name = v.name
    BY <2>2
  <2>4. [e EXCEPT !.marks = e.marks - 1] = [marks |-> v.marks, name |-> v.name]
    BY <1>5, <2>2, <2>3
  <2>5. ~Variable(e)
    BY <1>5, <1>7, <2>3 DEF Variable
  <2>6. Literal(e) = v
    BY <1>5, <1>7, <2>3, <2>4 DEF Literal
  <2>. QED BY <1>3, <2>1, <2>5, <2>6 DEF v
<1>. QED BY <1>5, <1>6, <1>7

\* No label of a query becomes a variable on its way to the daemon, and none is
\* changed, whatever question marks it starts with.
THEOREM LabelsStayLiteralHolds == Spec => []LabelsStayLiteral
<1>1. Inv => LabelsStayLiteral
  <2>. SUFFICES ASSUME Inv, stage = "sent" PROVE LabelsStayLiteral
    BY DEF LabelsStayLiteral
  <2>1. body = Encode(request) /\ Labelled(request)
    BY DEF Inv, SentInv
  <2>2. /\ body.subject = labelsWire(request.where.subject)
        /\ body.predicate = labelsWire(request.where.predicate)
        /\ body.object = labelsWire(request.where.object)
    BY <2>1 DEF Encode
  <2>. DEFINE positions == {<<body.subject, request.where.subject>>,
                            <<body.predicate, request.where.predicate>>,
                            <<body.object, request.where.object>>}
  <2>3. ASSUME NEW p \in positions, NEW n \in 1..Len(p[1].labels)
        PROVE  ~Variable(p[1].labels[n]) /\ Literal(p[1].labels[n]) = p[2].values[n]
    <3>1. p[1] = labelsWire(p[2]) /\ p[2].values \in Seq(Label)
      BY <2>1, <2>2 DEF Labelled
    <3>. HIDE DEF positions
    <3>. QED BY <3>1, EscapedLabels
  <2>. QED BY <2>3 DEF LabelsStayLiteral
<1>. QED BY <1>1, Always, PTL
=============================================================================

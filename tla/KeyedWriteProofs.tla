--------------------------- MODULE KeyedWriteProofs ---------------------------
(***************************************************************************)
(* Theorems about KeyedWrite, for any number of calls, keys, bodies, logs  *)
(* and attempts; at the end, that what Classify tells of the error a call  *)
(* returns is true.                                                        *)
(***************************************************************************)
EXTENDS CallErrors, TLAPS

\* What a call can return is a Result (types.go, errors.go).
LEMMA OutcomeType ==
  ASSUME NEW k \in {"none", "success", "uncertain", "error", "stopped", "ctx", "refused"},
         NEW origin \in Uncertainty, NEW last \in Cause,
         NEW why \in {"none", "identity", "changed", "ctx", "backoff"},
         NEW replayed \in BOOLEAN
  PROVE  Outcome(k, origin, last, why, replayed) \in Result
BY DEF Outcome, Result

\* s.uncertain() keeps the types, and names the noted attempt or the last one.
LEMMA UncertainType ==
  ASSUME NEW u \in Uncertainty, NEW last \in Cause, NEW n \in 0..MaxAttempts,
         NEW why \in {"none", "identity", "changed", "ctx", "backoff"}
  PROVE  /\ uncertain(u, last, n, why) \in Result
         /\ uncertain(u, last, n, why).kind = "uncertain"
         /\ uncertain(u, last, n, why).origin.attempt
              = IF u.attempt # 0 THEN u.attempt ELSE n
<1> DEFINE origin == IF u.attempt # 0 THEN u ELSE [attempt |-> n, cause |-> last]
<1>1. origin \in Uncertainty
  BY DEF Uncertainty
<1>2. "none" \in Cause
  BY DEF Cause
<1> QED BY <1>1, <1>2 DEF uncertain, Outcome, Result

\* uncertainty.note keeps the types, never forgets and never looks ahead.
LEMMA NoteType ==
  ASSUME TypeOK, NEW o \in Op, NEW err \in AttemptError, NEW ok2xx \in BOOLEAN
  PROVE  /\ note(o, err, ok2xx) \in Uncertainty
         /\ active(o) => note(o, err, ok2xx) = uncertainty[o]
         /\ note(o, err, ok2xx) = uncertainty[o]
            \/ note(o, err, ok2xx).attempt = attempt[o]
         /\ possiblySubmitted(err, ok2xx) /\ attempt[o] # 0 => note(o, err, ok2xx).attempt # 0
BY DEF note, TypeOK, Uncertainty, Cause, active

\* The error of an exchange that has a status line (client.go:137-186).
LEMMA DoErrorType ==
  ASSUME NEW r \in Reply, NEW d \in Damage
  PROVE  /\ doError(r, d) \in AttemptError \cup {"none"}
         /\ doError(r, d) = "none" => r.status = "ok"
         /\ r.status = "ok" => doError(r, d) \in {"none", "transport", "tooLarge"}
BY DEF doError, Reply, Status, Damage, AttemptError

-----------------------------------------------------------------------------
Base == TypeOK /\ ControlInv

LEMMA BaseInit == Init => Base
<1> USE WireAssumption, DaemonAssumption, KeyedWriteAssumption
<1> SUFFICES ASSUME Init PROVE Base
  OBVIOUS
<1>1. Certain \in Uncertainty /\ "none" \in Cause
  BY DEF Uncertainty, Certain, Cause
<1>2. Pending \in Result
  BY <1>1, OutcomeType DEF Pending
<1>3. TypeOK
  BY <1>1, <1>2 DEF Init, TypeOK, PC
<1>4. ControlInv
  BY DEF Init, ControlInv, Pending, Outcome, Certain, active
<1> QED BY <1>3, <1>4 DEF Base

\* A call that returns an outcome keeps the invariant (the endings of
\* writeExact that change nothing else).
LEMMA ReturnBase ==
  ASSUME Base, NEW o \in Op, NEW r \in Result, r.kind # "none",
         pc[o] \notin {"await", "done"}, Return(o, r),
         UNCHANGED <<current, receipts, prefix, attempt, uncertainty, lastErr, ctxDone,
                     buf, exactBody, network>>
  PROVE  Base'
<1>1. TypeOK'
  BY DEF Base, TypeOK, Return, PC, network
<1>2. ControlInv'
  BY DEF Base, TypeOK, ControlInv, Return, network, active
<1> QED BY <1>1, <1>2 DEF Base

\* A failed attempt keeps the invariant: the call goes on only while attempts
\* are left (session.go:233-241).
LEMMA AttemptFailedBase ==
  ASSUME Base, NEW o \in Op, NEW err \in AttemptError, NEW ok2xx \in BOOLEAN,
         pc[o] \in {"send", "await"}, AttemptFailed(o, err, ok2xx)
  PROVE  Base'
<1> USE DaemonAssumption, KeyedWriteAssumption
<1> DEFINE u == note(o, err, ok2xx)
           r == IF u.attempt # 0
                  THEN uncertain(u, err, attempt[o], "none")
                  ELSE Outcome("error", Certain, err, "none", FALSE)
           ends == attempt[o] = MaxAttempts \/ ~retryCandidate(err)
<1>1. u \in Uncertainty /\ u.attempt <= attempt[o]
  <2>1. u \in Uncertainty /\ (u = uncertainty[o] \/ u.attempt = attempt[o])
    BY NoteType DEF Base
  <2>2. uncertainty[o].attempt <= attempt[o] /\ attempt[o] \in 0..MaxAttempts
    BY DEF Base, ControlInv, TypeOK
  <2> QED BY <2>1, <2>2
<1>2. r \in Result /\ r.kind # "none"
  <2>1. attempt[o] \in 0..MaxAttempts /\ err \in Cause /\ Certain \in Uncertainty
    BY DEF Base, TypeOK, Cause, Certain, Uncertainty
  <2>2. CASE u.attempt # 0
    BY <1>1, <2>1, <2>2, UncertainType
  <2>3. CASE u.attempt = 0
    <3>1. Outcome("error", Certain, err, "none", FALSE) \in Result
      BY <2>1, OutcomeType
    <3> QED BY <2>3, <3>1 DEF Outcome
  <2> QED BY <2>2, <2>3
<1>3. /\ uncertainty' = [uncertainty EXCEPT ![o] = u]
      /\ lastErr' = [lastErr EXCEPT ![o] = err]
      /\ reply' = [reply EXCEPT ![o] = NoReply]
      /\ copy' = [copy EXCEPT ![o] = 0]
      /\ UNCHANGED <<wire, current, receipts, prefix, attempt, ctxDone, buf, exactBody>>
  BY DEF AttemptFailed, Abandon
<1>4. \/ ends /\ pc' = [pc EXCEPT ![o] = "done"] /\ result' = [result EXCEPT ![o] = r]
      \/ ~ends /\ pc' = [pc EXCEPT ![o] = "check"] /\ UNCHANGED result
  BY DEF AttemptFailed, Return
<1> HIDE DEF u, r
<1>5. TypeOK'
  BY <1>1, <1>2, <1>3, <1>4 DEF Base, TypeOK, PC
<1>6. ControlInv'
  <2>1. attempt[o] \in 1..MaxAttempts
    BY DEF Base, TypeOK, ControlInv
  <2> QED BY <2>1, <1>1, <1>2, <1>3, <1>4 DEF Base, TypeOK, ControlInv, active
<1> QED BY <1>5, <1>6 DEF Base

\* Every step of a call keeps the invariant.
LEMMA WriteExactBase ==
  ASSUME Base, NEW o \in Op, WriteExact(o)
  PROVE  Base'
<1> USE DaemonAssumption, KeyedWriteAssumption
<1>0. /\ uncertainty[o] \in Uncertainty /\ lastErr[o] \in Cause
      /\ attempt[o] \in 0..MaxAttempts /\ Certain \in Uncertainty /\ "none" \in Cause
      /\ {"protocol", "decode"} \subseteq Cause
  BY DEF Base, TypeOK, Cause, Certain, Uncertainty
<1>1. CASE Enter(o)
  <2>1. CASE Admitted(o)
    <3>1. TypeOK'
      BY <1>1, <2>1 DEF Enter, copied, Base, TypeOK, network, PC, DaemonAssumption
    <3>2. ControlInv'
      BY <1>1, <2>1 DEF Enter, Base, TypeOK, ControlInv, active, network, PC, Uncertainty,
                        DaemonAssumption
    <3> QED BY <3>1, <3>2 DEF Base
  <2>2. CASE ~Admitted(o)
    <3> DEFINE r == Outcome("refused", Certain, "none", "none", FALSE)
    <3>1. r \in Result /\ r.kind # "none"
      BY <1>0, OutcomeType DEF Outcome
    <3> HIDE DEF r
    <3> QED BY <1>1, <2>2, <3>1, ReturnBase DEF Enter, r
  <2> QED BY <2>1, <2>2
<1>2. CASE Top(o)
  <2>1. CASE ~ctxDone[o]
    BY <1>2, <2>1 DEF Top, Base, TypeOK, ControlInv, active, network, PC
  <2>2. CASE ctxDone[o]
    <3> DEFINE u == uncertain(uncertainty[o], lastErr[o], attempt[o] - 1, "ctx")
               s == Outcome("stopped", Certain, lastErr[o], "ctx", FALSE)
               c == Outcome("ctx", Certain, "none", "ctx", FALSE)
               r == IF active(o) THEN u ELSE IF lastErr[o] # "none" THEN s ELSE c
    <3>1. attempt[o] - 1 \in 0..MaxAttempts
      BY <1>0, <1>2 DEF Top, Base, ControlInv
    <3>2. u \in Result /\ u.kind # "none"
      BY <1>0, <3>1, UncertainType
    <3>3. s \in Result /\ c \in Result
      BY <1>0, OutcomeType
    <3>4. s.kind # "none" /\ c.kind # "none"
      BY DEF Outcome
    <3>5. r \in Result /\ r.kind # "none"
      BY <3>2, <3>3, <3>4
    <3>6. Return(o, r)
      BY <1>2, <2>2 DEF Top
    <3> HIDE DEF r
    <3> QED BY <1>2, <3>5, <3>6, ReturnBase DEF Top
  <2> QED BY <2>1, <2>2
<1>3. CASE Send(o)
  BY <1>3 DEF Send, Base, TypeOK, ControlInv, active, network, PC, Request
<1>4. CASE SendLocalError(o)
  BY <1>4, AttemptFailedBase DEF SendLocalError, AttemptError
<1>5. CASE Timeout(o)
  BY <1>5, AttemptFailedBase DEF Timeout, AttemptError
<1>6. ASSUME NEW d \in Damage, ReceiveError(o, d) PROVE Base'
  <2>1. reply[o] \in Reply
    BY <1>6 DEF ReceiveError, Base, TypeOK
  <2>2. doError(reply[o], d) \in AttemptError
    BY <1>6, <2>1, DoErrorType DEF ReceiveError
  <2> QED BY <1>6, <2>2, AttemptFailedBase DEF ReceiveError
<1>7. ASSUME NEW d \in Damage, NEW decodes \in BOOLEAN, ReceiveOK(o, d, decodes)
      PROVE  Base'
  <2> DEFINE p == uncertain(uncertainty[o], "protocol", attempt[o], "none")
             c == uncertain(uncertainty[o], "decode", attempt[o], "none")
             s == Outcome("success", Certain, "none", "none", reply[o].replayed)
             r == IF d = "oversize" \/ ~validateWriteSuccess(reply[o], d, Pinned) THEN p
                  ELSE IF ~decodes THEN c ELSE s
  <2>1. reply[o] \in Reply
    BY <1>7 DEF ReceiveOK, Base, TypeOK
  <2>2. p \in Result /\ p.kind # "none" /\ c \in Result /\ c.kind # "none"
    BY <1>0, UncertainType
  <2>3. reply[o].replayed \in BOOLEAN
    BY <2>1 DEF Reply
  <2>4. s \in Result
    BY <1>0, <2>3, OutcomeType
  <2>5. s.kind # "none"
    BY DEF Outcome
  <2>6. r \in Result /\ r.kind # "none"
    BY <2>2, <2>4, <2>5
  <2>7. Return(o, r)
    BY <1>7 DEF ReceiveOK
  <2> HIDE DEF r
  <2> QED
    BY <1>7, <2>6, <2>7
    DEF ReceiveOK, Return, Abandon, Base, TypeOK, ControlInv, active, network, PC
<1>8. CASE CheckUnavailable(o)
  <2> DEFINE r == uncertain(uncertainty[o], lastErr[o], attempt[o], "identity")
  <2>1. r \in Result /\ r.kind # "none"
    BY <1>0, UncertainType
  <2> HIDE DEF r
  <2> QED BY <1>8, <2>1, ReturnBase DEF CheckUnavailable, r
<1>9. CASE Check(o)
  <2>1. CASE current # Pinned
    <3> DEFINE r == uncertain(uncertainty[o], lastErr[o], attempt[o], "changed")
    <3>1. r \in Result /\ r.kind # "none"
      BY <1>0, UncertainType
    <3> HIDE DEF r
    <3> QED BY <1>9, <2>1, <3>1, ReturnBase DEF Check, r
  <2>2. CASE current = Pinned
    BY <1>9, <2>2 DEF Check, Base, TypeOK, ControlInv, active, network, PC
  <2> QED BY <2>1, <2>2
<1>10. ASSUME NEW why \in {"ctx", "backoff"}, pc[o] = "backoff", Stop(o, why),
              UNCHANGED <<current, receipts, prefix, attempt, uncertainty, lastErr, ctxDone,
                          buf, exactBody, network>>
       PROVE  Base'
  <2> DEFINE u == uncertain(uncertainty[o], lastErr[o], attempt[o], why)
             s == Outcome("stopped", Certain, lastErr[o], why, FALSE)
             r == IF active(o) THEN u ELSE s
  <2>1. u \in Result /\ u.kind # "none" /\ s \in Result
    BY <1>0, UncertainType, OutcomeType
  <2>2. s.kind # "none"
    BY DEF Outcome
  <2>3. r \in Result /\ r.kind # "none"
    BY <2>1, <2>2
  <2>4. Return(o, r)
    BY <1>10 DEF Stop
  <2> HIDE DEF r
  <2> QED BY <1>10, <2>3, <2>4, ReturnBase
<1>11. CASE NegativeBackoff(o)
  BY <1>11, <1>10 DEF NegativeBackoff
<1>12. CASE SleepCancelled(o)
  BY <1>12, <1>10 DEF SleepCancelled
<1>13. CASE Retry(o)
  <2>1. TypeOK'
    BY <1>13 DEF Retry, Base, TypeOK, ControlInv, network, PC, DaemonAssumption
  <2>2. ControlInv'
    BY <1>13 DEF Retry, Base, TypeOK, ControlInv, active, network, PC, Uncertainty,
                 DaemonAssumption
  <2> QED BY <2>1, <2>2 DEF Base
<1> QED
  BY <1>1, <1>2, <1>3, <1>4, <1>5, <1>6, <1>7, <1>8, <1>9, <1>11, <1>12, <1>13
  DEF WriteExact

\* An answer of the daemon is a reply, and what it commits is a receipt.
LEMMA ServeType ==
  ASSUME Base, NEW m \in Request, SentBody(m.op) \in Body
  PROVE  /\ Answer(KeyOf[m.op], SentBody(m.op)) \in Reply
         /\ Applied(KeyOf[m.op], SentBody(m.op), m.op, m.attempt) \subseteq Receipt
<1> USE DaemonAssumption, KeyedWriteAssumption DEF DaemonAssumption, KeyedWriteAssumption
<1>1. current \in Log /\ receipts \subseteq Receipt
  BY DEF Base, TypeOK
<1>2. KeyOf[m.op] \in Key /\ m.op \in Op /\ m.attempt \in 1..MaxAttempts
  BY DEF Request
<1>3. Answer(KeyOf[m.op], SentBody(m.op)) \in Reply
  BY <1>1 DEF Answer, Failure, Committed, Reply, Status
<1>4. Applied(KeyOf[m.op], SentBody(m.op), m.op, m.attempt) \subseteq Receipt
  BY <1>1, <1>2 DEF Applied, Receipt
<1> QED BY <1>3, <1>4

\* A reply that reaches the client, or is dropped, keeps the invariant.
LEMMA AnsweredBase ==
  ASSUME Base, NEW m \in wire, NEW r \in Reply, Answered(m, r), receipts' \subseteq Receipt
  PROVE  Base'
<1>1. TypeOK'
  BY DEF Answered, Base, TypeOK, client
<1>2. m.op \in Op
  BY DEF Base, TypeOK, Request
<1>3. ControlInv'
  BY <1>2 DEF Answered, Awaited, Base, TypeOK, ControlInv, client, active
<1> QED BY <1>1, <1>3 DEF Base

\* The caller, the network and the operator keep the invariant.
LEMMA EnvironmentBase ==
  ASSUME Base, BodyInv, (\E o \in Op : Caller(o)) \/ Network \/ Operator
  PROVE  Base'
<1> USE DaemonAssumption, KeyedWriteAssumption DEF DaemonAssumption, KeyedWriteAssumption
<1>1. ASSUME NEW o \in Op, Cancel(o) PROVE Base'
  BY <1>1 DEF Cancel, Base, TypeOK, ControlInv, active, network
<1>2. ASSUME NEW o \in Op, NEW b \in Body, Reuse(o, b) PROVE Base'
  BY <1>2 DEF Reuse, Base, TypeOK, ControlInv, active, network
<1>3. ASSUME NEW m \in wire, Serve(m) PROVE Base'
  <2>1. m \in Request
    BY DEF Base, TypeOK
  <2>2. SentBody(m.op) \in Body
    BY <2>1 DEF BodyInv, OnWire, SentBody, Request
  <2> QED BY <1>3, <2>1, <2>2, ServeType, AnsweredBase DEF Serve
<1>4. ASSUME NEW m \in wire, NEW status \in {"overload", "retryable", "refused"},
             Shed(m, status)
      PROVE  Base'
  <2>1. Failure(status) \in Reply
    BY DEF Failure, Reply, Status
  <2>2. receipts' \subseteq Receipt
    BY <1>4 DEF Shed, Base, TypeOK
  <2> QED BY <1>4, <2>1, <2>2, AnsweredBase DEF Shed
<1>5. ASSUME NEW o \in Op, NEW status \in Interposed, Interpose(o, status) PROVE Base'
  <2>1. Failure(status) \in Reply
    BY DEF Failure, Reply, Status
  <2> QED BY <1>5, <2>1 DEF Interpose, Base, TypeOK, ControlInv, active, client
<1>6. ASSUME NEW o \in Op, TransportReplay(o) PROVE Base'
  <2>1. TypeOK'
    <3>1. attempt[o] \in 1..MaxAttempts /\ copy[o] + 1 \in 1..MaxCopies
      <4>1. pc[o] = "await" /\ copy[o] < MaxCopies
        BY <1>6 DEF TransportReplay
      <4>2. attempt[o] \in 0..MaxAttempts /\ copy[o] \in 0..MaxCopies
        BY DEF Base, TypeOK
      <4>3. attempt[o] >= 1
        BY <4>1 DEF Base, ControlInv
      <4> QED BY <4>1, <4>2, <4>3
    <3>2. [op |-> o, attempt |-> attempt[o], copy |-> copy[o] + 1] \in Request
      BY <3>1 DEF Request
    <3>3. wire' \subseteq Request /\ copy' \in [Op -> 0..MaxCopies]
      BY <1>6, <3>1, <3>2 DEF TransportReplay, Base, TypeOK
    <3>4. UNCHANGED <<current, receipts, client>> /\ reply' = [reply EXCEPT ![o] = NoReply]
      BY <1>6 DEF TransportReplay
    <3> QED BY <3>3, <3>4 DEF Base, TypeOK, client
  <2>2. ControlInv'
    BY <1>6 DEF TransportReplay, Base, TypeOK, ControlInv, active, client
  <2> QED BY <2>1, <2>2 DEF Base
<1>7. CASE Operator
  <2>1. UNCHANGED <<client, network>>
    BY <1>7 DEF Operator
  <2>2. current' \in Log /\ receipts' \subseteq Receipt
    <3>1. ASSUME NEW r \in receipts, Sync(r) PROVE receipts' \subseteq Receipt
      BY <3>1 DEF Sync, Receipt, Base, TypeOK
    <3> QED BY <1>7, <3>1 DEF Operator, Crash, Replace, Sync, Base, TypeOK
  <2>3. TypeOK'
    BY <2>1, <2>2 DEF client, network, Base, TypeOK
  <2>4. ControlInv'
    BY <2>1 DEF client, network, Base, ControlInv, active
  <2> QED BY <2>3, <2>4 DEF Base
<1> QED
  BY <1>1, <1>2, <1>3, <1>4, <1>5, <1>6, <1>7 DEF Caller, Network

-----------------------------------------------------------------------------
\* What a step of a running call leaves alone, and the requests it adds.
LEMMA ClientFrame ==
  ASSUME Base, NEW o \in Op, WriteExact(o), ~Enter(o)
  PROVE  /\ UNCHANGED <<current, receipts, prefix, buf, exactBody, ctxDone>>
         /\ pc[o] \notin {"start", "done"}
         /\ \E s \in PC \ {"start"} : pc' = [pc EXCEPT ![o] = s]
         /\ wire' = wire \/ Send(o)
<1>1. CASE Top(o)
  BY <1>1 DEF Top, Return, PC, network
<1>2. CASE Send(o)
  BY <1>2 DEF Send, PC
<1>3. ASSUME NEW err \in AttemptError, NEW ok2xx \in BOOLEAN,
             pc[o] \in {"send", "await"}, AttemptFailed(o, err, ok2xx)
      PROVE  /\ UNCHANGED <<current, receipts, prefix, buf, exactBody, ctxDone, wire>>
             /\ pc[o] \notin {"start", "done"}
             /\ \E s \in PC \ {"start"} : pc' = [pc EXCEPT ![o] = s]
  BY <1>3 DEF AttemptFailed, Abandon, Return, PC
<1>4. CASE SendLocalError(o)
  BY <1>3, <1>4 DEF SendLocalError, AttemptError
<1>5. CASE Timeout(o)
  BY <1>3, <1>5 DEF Timeout, AttemptError
<1>6. ASSUME NEW d \in Damage, ReceiveError(o, d)
      PROVE  doError(reply[o], d) \in AttemptError
  BY <1>6, DoErrorType DEF ReceiveError, Base, TypeOK
<1>7. CASE \E d \in Damage : ReceiveError(o, d)
  BY <1>3, <1>6, <1>7 DEF ReceiveError
<1>8. CASE \E d \in Damage, decodes \in BOOLEAN : ReceiveOK(o, d, decodes)
  BY <1>8 DEF ReceiveOK, Return, Abandon, PC
<1>9. CASE CheckUnavailable(o) \/ Check(o)
  BY <1>9 DEF CheckUnavailable, Check, Return, PC, network
<1>10. CASE NegativeBackoff(o) \/ SleepCancelled(o) \/ Retry(o)
  BY <1>10 DEF NegativeBackoff, SleepCancelled, Retry, Stop, Return, PC, network
<1> QED
  BY <1>1, <1>2, <1>4, <1>5, <1>7, <1>8, <1>9, <1>10 DEF WriteExact

\* A session is immutable: its key check is the same for its whole life.
LEMMA PrefixFrame ==
  ASSUME Base, [Next]_vars
  PROVE  prefix' = prefix /\ \A k : validateKeySyntax(k)' = validateKeySyntax(k)
<1>1. ASSUME NEW o \in Op, WriteExact(o) PROVE prefix' = prefix
  BY <1>1, ClientFrame DEF Enter
<1>2. prefix' = prefix
  BY <1>1 DEF Next, vars, client, Caller, Cancel, Reuse, Network, Serve, Shed, Answered,
              Interpose, TransportReplay, Operator
<1> QED BY <1>2 DEF validateKeySyntax

\* The private copy holds the caller's bytes for as long as a request may be
\* executed, although the caller may reuse its own slice.
LEMMA BodyStep ==
  ASSUME Base, BodyInv, [Next]_vars
  PROVE  BodyInv'
<1>0. \A k : validateKeySyntax(k)' = validateKeySyntax(k)
  BY PrefixFrame
<1>1. CASE UNCHANGED vars
  BY <1>0, <1>1 DEF vars, client, network, BodyInv, OnWire
<1>2. ASSUME NEW o \in Op, Enter(o) PROVE BodyInv'
  <2>1. pc[o] = "start" /\ buf' = buf /\ \A p \in Op : OnWire(p)' = OnWire(p)
    BY <1>2 DEF Enter, network, OnWire
  <2>2. buf[o] = BodyOf[o] /\ OnWire(o) = {}
    BY <2>1 DEF BodyInv
  <2>3. CASE Admitted(o)
    <3>1. pc' = [pc EXCEPT ![o] = "top"] /\ exactBody' = [exactBody EXCEPT ![o] = buf[o]]
      BY <1>2, <2>3 DEF Enter, copied
    <3>2. validateKeySyntax(KeyOf[o])
      BY <2>3 DEF Admitted
    <3> QED
      BY <1>0, <2>1, <2>2, <3>1, <3>2 DEF Base, TypeOK, BodyInv
  <2>4. CASE ~Admitted(o)
    <3>1. pc' = [pc EXCEPT ![o] = "done"] /\ exactBody' = exactBody
      BY <1>2, <2>4 DEF Enter, Return
    <3> QED
      BY <1>0, <2>1, <2>2, <3>1 DEF Base, TypeOK, BodyInv
  <2> QED
    BY <2>3, <2>4
<1>3. ASSUME NEW o \in Op, WriteExact(o), ~Enter(o) PROVE BodyInv'
  <2>1. PICK s \in PC \ {"start"} : pc' = [pc EXCEPT ![o] = s]
    BY <1>3, ClientFrame
  <2>2. UNCHANGED <<buf, exactBody>> /\ pc[o] \notin {"start", "done"}
    BY <1>3, ClientFrame
  <2>3. \A p \in Op : p # o => OnWire(p)' = OnWire(p)
    BY <1>3, ClientFrame DEF Send, OnWire
  <2> QED BY <1>0, <2>1, <2>2, <2>3 DEF Base, TypeOK, BodyInv
<1>4. ASSUME NEW o \in Op, Caller(o) PROVE BodyInv'
  BY <1>0, <1>4 DEF Caller, Cancel, Reuse, network, Base, TypeOK, BodyInv, OnWire
<1>5. CASE Network
  <2>1. UNCHANGED client
    BY <1>5 DEF Network, Serve, Shed, Answered, Interpose, TransportReplay
  <2>2. \A o \in Op : OnWire(o)' # {} => pc[o] \notin {"start", "done"} \/ OnWire(o) # {}
    BY <1>5 DEF Network, Serve, Shed, Answered, Interpose, TransportReplay, OnWire
  <2> QED BY <1>0, <2>1, <2>2 DEF client, BodyInv
<1>6. CASE Operator
  BY <1>0, <1>6 DEF Operator, client, network, BodyInv, OnWire
<1> QED BY <1>1, <1>2, <1>3, <1>4, <1>5, <1>6 DEF Next

\* Base and BodyInv are inductive together.
LEMMA BaseStep ==
  ASSUME Base, BodyInv, [Next]_vars
  PROVE  Base'
<1>1. CASE UNCHANGED vars
  BY <1>1 DEF vars, client, network, Base, TypeOK, ControlInv, active
<1> QED BY <1>1, WriteExactBase, EnvironmentBase DEF Next

LEMMA BodyInit == Init => BodyInv
BY DEF Init, BodyInv, OnWire

LEMMA BaseAlways == Spec => [](Base /\ BodyInv)
BY BaseInit, BodyInit, BaseStep, BodyStep, PTL DEF Spec

\* Every reachable state has the types of the declarations of session.go: in
\* particular no call makes more than RetryPolicy.MaxAttempts attempts, and no
\* uncertainty names an attempt beyond them.
THEOREM TypeCorrect == Spec => []TypeOK
BY BaseAlways, PTL DEF Base

-----------------------------------------------------------------------------
\* Only Serve, Sync and Crash touch the receipts.
LEMMA ReceiptFrame ==
  ASSUME Base, [Next]_vars
  PROVE  \/ receipts' = receipts
         \/ \E m \in wire : Serve(m)
         \/ \E r \in receipts : Sync(r)
         \/ Crash
<1>1. ASSUME NEW o \in Op, WriteExact(o) PROVE receipts' = receipts
  BY <1>1, ClientFrame DEF Enter
<1>2. ASSUME NEW o \in Op, Caller(o) PROVE receipts' = receipts
  BY <1>2 DEF Caller, Cancel, Reuse
<1>3. Network => receipts' = receipts \/ \E m \in wire : Serve(m)
  BY DEF Network, Shed, Interpose, TransportReplay
<1> QED BY <1>1, <1>2, <1>3 DEF Next, vars, Operator, Replace

\* A request is executed at most once per key and log, with the caller's bytes.
LEMMA ReceiptStep ==
  ASSUME Base, ReceiptInv, [Next]_vars
  PROVE  OncePerLog' /\ ExactBytes'
<1> USE DEF ReceiptInv
<1>1. CASE receipts' = receipts
  BY <1>1 DEF OncePerLog, ExactBytes
<1>2. ASSUME NEW m \in wire, Serve(m)
      PROVE  OncePerLog' /\ ExactBytes'
  <2>1. m \in Request
    BY DEF Base, TypeOK
  <2>2. exactBody[m.op] = BodyOf[m.op]
    BY <2>1 DEF BodyInv, OnWire, Request
  <2>3. OncePerLog'
    BY <1>2 DEF Serve, Applied, Held, OncePerLog
  <2>4. ExactBytes'
    BY <1>2, <2>2 DEF Serve, Applied, SentBody, ExactBytes
  <2> QED BY <2>3, <2>4
<1>3. ASSUME NEW r \in receipts, Sync(r)
      PROVE  OncePerLog' /\ ExactBytes'
  <2> DEFINE s == [r EXCEPT !.durable = TRUE]
  <2>1. receipts' = (receipts \ {r}) \cup {s}
    BY <1>3 DEF Sync
  <2>2. s.log = r.log /\ s.key = r.key /\ s.body = r.body /\ s.op = r.op
    BY DEF Base, TypeOK, Receipt
  <2> HIDE DEF s
  <2> QED BY <2>1, <2>2 DEF OncePerLog, ExactBytes
<1>4. CASE Crash
  BY <1>4 DEF Crash, OncePerLog, ExactBytes
<1> QED BY <1>1, <1>2, <1>3, <1>4, ReceiptFrame

LEMMA ReceiptInit == Init => ReceiptInv
BY BaseInit, BodyInit DEF Init, Base, ReceiptInv, OncePerLog, ExactBytes

LEMMA ReceiptAlways == Spec => []ReceiptInv
<1>1. Init => ReceiptInv
  BY ReceiptInit
<1>2. Base /\ ReceiptInv /\ Base' /\ BodyInv' /\ [Next]_vars => ReceiptInv'
  BY ReceiptStep DEF Base, ReceiptInv
<1> QED BY <1>1, <1>2, BaseAlways, PTL DEF Spec

\* What is executed is byte for byte what the caller passed to WriteExact, even
\* for a copy that arrives after the caller has reused its slice.
THEOREM ExecutesExactBytes == Spec => []ExactBytes
BY ReceiptAlways, PTL DEF ReceiptInv

-----------------------------------------------------------------------------
\* What a step of a call makes of its result and of its reply: it succeeds only
\* by a validated 2xx reply, and keeps no reply it has read.
LEMMA ClientResult ==
  ASSUME Base, NEW o \in Op, WriteExact(o)
  PROVE  /\ reply' \in {reply, [reply EXCEPT ![o] = NoReply]}
         /\ \E r \in Result :
              /\ result' = [result EXCEPT ![o] = r]
              /\ \/ r = result[o]
                 \/ r.kind \in Definite \cup {"uncertain"}
                 \/ /\ r.kind = "success" /\ r.replayed = reply[o].replayed
                    /\ reply[o].status = "ok" /\ reply[o].log = Pinned
<1> DEFINE Good(r) == \/ r = result[o]
                      \/ r.kind \in Definite \cup {"uncertain"}
                      \/ /\ r.kind = "success" /\ r.replayed = reply[o].replayed
                         /\ reply[o].status = "ok" /\ reply[o].log = Pinned
           Goal == /\ reply' \in {reply, [reply EXCEPT ![o] = NoReply]}
                   /\ \E r \in Result : result' = [result EXCEPT ![o] = r] /\ Good(r)
<1>0. /\ uncertainty[o] \in Uncertainty /\ lastErr[o] \in Cause
      /\ attempt[o] \in 0..MaxAttempts /\ result[o] \in Result
  BY DEF Base, TypeOK, Cause
<1>1. ASSUME UNCHANGED result PROVE \E r \in Result : result' = [result EXCEPT ![o] = r] /\ Good(r)
  BY <1>0, <1>1 DEF Base, TypeOK
<1>2. result' \in [Op -> Result]
  BY WriteExactBase DEF Base, TypeOK
<1>3. ASSUME NEW r, Return(o, r), r.kind \in Definite \cup {"uncertain"}
      PROVE  \E q \in Result : result' = [result EXCEPT ![o] = q] /\ Good(q)
  BY <1>2, <1>3 DEF Return, Base, TypeOK
<1>4. \A u, last, n, why : uncertain(u, last, n, why).kind = "uncertain"
  BY DEF uncertain, Outcome
<1>5. \A k, last, why : Outcome(k, Certain, last, why, FALSE).kind = k
  BY DEF Outcome
<1>6. CASE Enter(o)
  <2>1. CASE Admitted(o)
    BY <1>1, <1>6, <2>1 DEF Enter, network
  <2>2. CASE ~Admitted(o)
    <3> DEFINE r == Outcome("refused", Certain, "none", "none", FALSE)
    <3>1. r.kind \in Definite
      BY <1>5 DEF Definite
    <3>2. Return(o, r)
      BY <1>6, <2>2 DEF Enter
    <3> HIDE DEF r
    <3> QED BY <1>3, <1>6, <3>1, <3>2 DEF Enter, network
  <2> QED BY <2>1, <2>2
<1>7. CASE Top(o)
  <2>1. CASE ~ctxDone[o]
    BY <1>1, <1>7, <2>1 DEF Top, network
  <2>2. CASE ctxDone[o]
    <3> DEFINE r == IF active(o)
                      THEN uncertain(uncertainty[o], lastErr[o], attempt[o] - 1, "ctx")
                    ELSE IF lastErr[o] # "none"
                      THEN Outcome("stopped", Certain, lastErr[o], "ctx", FALSE)
                    ELSE Outcome("ctx", Certain, "none", "ctx", FALSE)
    <3>1. r.kind \in {"uncertain", "stopped", "ctx"}
      BY DEF uncertain, Outcome
    <3>2. Return(o, r)
      BY <1>7, <2>2 DEF Top
    <3> HIDE DEF r
    <3> QED BY <1>3, <1>7, <3>1, <3>2 DEF Top, network, Definite
  <2> QED BY <2>1, <2>2
<1>8. CASE Send(o)
  BY <1>1, <1>8 DEF Send
<1>9. ASSUME NEW err, NEW ok2xx, AttemptFailed(o, err, ok2xx) PROVE Goal
  <2> DEFINE u == note(o, err, ok2xx)
             r == IF u.attempt # 0
                    THEN uncertain(u, err, attempt[o], "none")
                    ELSE Outcome("error", Certain, err, "none", FALSE)
  <2>1. Return(o, r) \/ UNCHANGED result
    BY <1>9 DEF AttemptFailed
  <2>2. r.kind \in {"uncertain", "stopped", "error"}
    BY DEF uncertain, Outcome
  <2>3. reply' = [reply EXCEPT ![o] = NoReply]
    BY <1>9 DEF AttemptFailed, Abandon
  <2> HIDE DEF r, u
  <2> QED BY <1>1, <1>3, <2>1, <2>2, <2>3 DEF Definite
<1>10. CASE SendLocalError(o) \/ Timeout(o) \/ \E d \in Damage : ReceiveError(o, d)
  BY <1>9, <1>10 DEF SendLocalError, Timeout, ReceiveError
<1>11. ASSUME NEW d \in Damage, NEW decodes \in BOOLEAN, ReceiveOK(o, d, decodes)
       PROVE  Goal
  <2>1. reply' = [reply EXCEPT ![o] = NoReply]
    BY <1>11 DEF ReceiveOK, Abandon
  <2>2. CASE \/ d = "oversize" \/ ~validateWriteSuccess(reply[o], d, Pinned) \/ ~decodes
    BY <1>3, <1>4, <1>11, <2>1, <2>2 DEF ReceiveOK
  <2>3. CASE d # "oversize" /\ validateWriteSuccess(reply[o], d, Pinned) /\ decodes
    <3> DEFINE r == Outcome("success", Certain, "none", "none", reply[o].replayed)
    <3>1. Return(o, r)
      BY <1>11, <2>3 DEF ReceiveOK
    <3>2. r.kind = "success" /\ r.replayed = reply[o].replayed
      BY DEF Outcome
    <3>3. reply[o].status = "ok" /\ reply[o].log = Pinned
      BY <1>11, <2>3, DoErrorType DEF ReceiveOK, validateWriteSuccess, Base, TypeOK
    <3> HIDE DEF r
    <3> QED BY <1>2, <2>1, <3>1, <3>2, <3>3 DEF Return, Base, TypeOK
  <2> QED BY <2>2, <2>3
<1>12. CASE CheckUnavailable(o)
  BY <1>3, <1>4, <1>12 DEF CheckUnavailable, network
<1>13. CASE Check(o)
  <2>1. CASE current # Pinned
    BY <1>3, <1>4, <1>13, <2>1 DEF Check, network
  <2>2. CASE current = Pinned
    BY <1>1, <1>13, <2>2 DEF Check, network
  <2> QED BY <2>1, <2>2
<1>14. CASE NegativeBackoff(o) \/ SleepCancelled(o)
  <2>1. PICK why : Stop(o, why)
    BY <1>14 DEF NegativeBackoff, SleepCancelled
  <2> DEFINE r == IF active(o)
                    THEN uncertain(uncertainty[o], lastErr[o], attempt[o], why)
                    ELSE Outcome("stopped", Certain, lastErr[o], why, FALSE)
  <2>2. r.kind \in {"uncertain", "stopped", "error"}
    BY DEF uncertain, Outcome
  <2>3. Return(o, r)
    BY <2>1 DEF Stop
  <2> HIDE DEF r
  <2> QED BY <1>3, <1>14, <2>2, <2>3 DEF NegativeBackoff, SleepCancelled, network, Definite
<1>15. CASE Retry(o)
  BY <1>1, <1>15 DEF Retry, network
<1> QED
  BY <1>6, <1>7, <1>8, <1>10, <1>11, <1>12, <1>13, <1>14, <1>15 DEF WriteExact

\* What the network does to the replies and the results.
LEMMA NetworkReply ==
  ASSUME Base, Network, NEW o \in Op
  PROVE  /\ result' = result
         /\ \/ reply'[o] = reply[o]
            \/ reply'[o].log = NoLog
            \/ \E m \in wire : /\ Serve(m) /\ m.op = o
                               /\ reply'[o] = Answer(KeyOf[o], SentBody(o))
<1>1. ASSUME NEW m \in wire, Serve(m)
      PROVE  result' = result
             /\ (reply'[o] = reply[o]
                 \/ (m.op = o /\ reply'[o] = Answer(KeyOf[o], SentBody(o))))
  <2>1. result' = result
    BY <1>1 DEF Serve, Answered, client
  <2>2. CASE m.op = o
    <3>1. Answered(m, Answer(KeyOf[o], SentBody(o)))
      BY <1>1, <2>2 DEF Serve
    <3> QED BY <2>1, <2>2, <3>1 DEF Answered, Awaited, Base, TypeOK
  <2>3. CASE m.op # o
    <3> DEFINE a == Answer(KeyOf[m.op], SentBody(m.op))
    <3>1. Answered(m, a)
      BY <1>1 DEF Serve
    <3> HIDE DEF a
    <3> QED BY <2>1, <2>3, <3>1 DEF Answered, Awaited, Base, TypeOK
  <2> QED BY <2>1, <2>2, <2>3
<1>2. ASSUME NEW m \in wire, NEW status, Shed(m, status)
      PROVE  result' = result /\ (reply'[o] = reply[o] \/ reply'[o].log = NoLog)
  BY <1>2 DEF Shed, Answered, Failure, client, Base, TypeOK
<1>3. ASSUME NEW p \in Op, NEW status, Interpose(p, status)
      PROVE  result' = result /\ (reply'[o] = reply[o] \/ reply'[o].log = NoLog)
  BY <1>3 DEF Interpose, Failure, client, Base, TypeOK
<1>4. ASSUME NEW p \in Op, TransportReplay(p)
      PROVE  result' = result /\ (reply'[o] = reply[o] \/ reply'[o].log = NoLog)
  BY <1>4 DEF TransportReplay, NoReply, client, Base, TypeOK
<1> QED BY <1>1, <1>2, <1>3, <1>4 DEF Network

\* Only a request under the required prefix is executed, so the receipts and the
\* 2xx replies are of the prefix's log.
LEMMA PrefixStep ==
  ASSUME EpochPrefix, Base, PrefixInv, [Next]_vars, ReceiptInv'
  PROVE  PrefixInv'
<1> USE WireAssumption, KeyedWriteAssumption
<1>1. prefix' = prefix /\ prefix \in Log
  BY PrefixFrame DEF Base, TypeOK, RequiredPrefix
<1>2. ASSUME NEW m \in wire, Serve(m) PROVE Accepts(KeyOf[m.op]) => current = prefix
  <2>1. m.op \in Op /\ OnWire(m.op) # {}
    BY DEF Base, TypeOK, Request, OnWire
  <2>2. validateKeySyntax(KeyOf[m.op])
    BY <2>1 DEF PrefixInv, ReceiptInv, BodyInv
  <2> QED BY <2>2, <1>1 DEF validateKeySyntax, Accepts
<1>3. \A r \in receipts' : r.log = prefix
  <2>1. ASSUME NEW m \in wire, Serve(m) PROVE \A r \in receipts' : r.log = prefix
    <3> DEFINE n == [log |-> current, key |-> KeyOf[m.op], body |-> SentBody(m.op),
                     durable |-> CommitDurability, op |-> m.op, attempt |-> m.attempt]
    <3>1. receipts' = receipts \/ (Accepts(KeyOf[m.op]) /\ receipts' = receipts \cup {n})
      BY <2>1 DEF Serve, Applied
    <3>2. n.log = current
      OBVIOUS
    <3>3. Accepts(KeyOf[m.op]) => current = prefix
      BY <2>1, <1>2
    <3> HIDE DEF n
    <3> QED BY <3>1, <3>2, <3>3 DEF PrefixInv, StaysOnPrefixLog
  <2>2. ASSUME NEW r \in receipts, Sync(r) PROVE \A q \in receipts' : q.log = prefix
    <3>1. [r EXCEPT !.durable = TRUE].log = r.log
      BY DEF Base, TypeOK, Receipt
    <3> QED BY <2>2, <3>1 DEF Sync, PrefixInv, StaysOnPrefixLog
  <2>3. Crash => \A r \in receipts' : r.log = prefix
    BY DEF Crash, PrefixInv, StaysOnPrefixLog
  <2> QED BY <2>1, <2>2, <2>3, ReceiptFrame DEF PrefixInv, StaysOnPrefixLog
<1>4. ASSUME NEW o \in Op
      PROVE  reply'[o].log \in {prefix, NoLog}
             /\ (prefix # Pinned => result'[o].kind # "success")
  <2>1. reply[o].log \in {prefix, NoLog} /\ (prefix # Pinned => result[o].kind # "success")
    BY DEF PrefixInv, StaysOnPrefixLog, returned
  <2>2. ASSUME NEW p \in Op, WriteExact(p)
        PROVE  /\ reply'[o] = reply[o] \/ reply'[o] = NoReply
               /\ \/ result'[o] = result[o]
                  \/ result'[o].kind \in Definite \cup {"uncertain"}
                  \/ reply[o].log = Pinned
    BY <2>2, ClientResult DEF Base, TypeOK
  <2>3. ASSUME Network
        PROVE  reply'[o].log \in {prefix, NoLog} /\ result' = result
    <3>1. ASSUME NEW m \in wire, Serve(m), m.op = o, reply'[o] = Answer(KeyOf[o], SentBody(o))
          PROVE  reply'[o].log \in {prefix, NoLog}
      BY <3>1, <1>2 DEF Answer, Failure, Committed
    <3> QED BY <2>1, <2>3, <3>1, NetworkReply
  <2>4. ASSUME NEW p \in Op, Caller(p) PROVE UNCHANGED <<reply, result>>
    BY <2>4 DEF Caller, Cancel, Reuse, network
  <2>5. Operator \/ UNCHANGED vars => UNCHANGED <<reply, result>>
    BY DEF Operator, vars, client, network
  <2>6. NoReply.log = NoLog /\ Pinned # NoLog /\ "success" \notin Definite \cup {"uncertain"}
    BY DEF NoReply, Definite
  <2> QED BY <2>1, <2>2, <2>3, <2>4, <2>5, <2>6 DEF Next
<1> QED BY <1>1, <1>3, <1>4 DEF PrefixInv, StaysOnPrefixLog, returned

\* Under key prefixes every write of the session lands on the log whose prefix
\* its capability snapshot requires, in spite of the gap between the identity
\* check and the next attempt; and a session whose two reads met two databases
\* may change the other one but never calls that a success.
THEOREM PrefixKeepsLog == ASSUME EpochPrefix PROVE Spec => []StaysOnPrefixLog
<1>1. Init => PrefixInv
  <2> SUFFICES ASSUME Init, ReceiptInv PROVE PrefixInv
    BY ReceiptInit
  <2> QED
    BY DEF Init, PrefixInv, StaysOnPrefixLog, returned, Pending, Outcome, NoReply
<1>2. Base /\ PrefixInv /\ ReceiptInv' /\ [Next]_vars => PrefixInv'
  BY PrefixStep
<1>3. PrefixInv => StaysOnPrefixLog
  BY DEF PrefixInv
<1> QED BY <1>1, <1>2, <1>3, ReceiptAlways, BaseAlways, PTL DEF Spec

\* With commit durability no receipt is lost.
LEMMA ReceiptsGrow ==
  ASSUME Base, SuccessInv, CommitDurability, [Next]_vars
  PROVE  receipts \subseteq receipts' /\ \A r \in receipts' : r.durable
<1>1. ASSUME NEW m \in wire, Serve(m)
      PROVE  receipts \subseteq receipts' /\ \A r \in receipts' : r.durable
  BY <1>1 DEF Serve, Applied, SuccessInv
<1>2. ~Crash /\ \A r \in receipts : ~Sync(r)
  BY DEF Crash, Sync, SuccessInv
<1> QED BY <1>1, <1>2, ReceiptFrame DEF SuccessInv

LEMMA SuccessStep ==
  ASSUME Base, SuccessInv, CommitDurability, [Next]_vars, ReceiptInv'
  PROVE  SuccessInv'
<1> USE WireAssumption, KeyedWriteAssumption DEF KeyedWriteAssumption
<1>0. receipts \subseteq receipts' /\ \A r \in receipts' : r.durable
  BY ReceiptsGrow
<1> DEFINE Backed(o, l, replayed) ==
             \E r \in Held(l, KeyOf[o]) :
               r.body = BodyOf[o] /\ r.durable /\ (replayed \/ r.op = o)
           Backed2(o, l, replayed) ==
             \E r \in receipts' : /\ r.log = l /\ r.key = KeyOf[o] /\ r.body = BodyOf[o]
                                  /\ r.durable /\ (replayed \/ r.op = o)
<1>1. \A o, l, replayed : Backed(o, l, replayed) => Backed2(o, l, replayed)
  BY <1>0 DEF Held
<1>2. /\ \A o \in Op : reply[o].status = "ok" /\ reply[o].log # NoLog
             => Backed(o, reply[o].log, reply[o].replayed)
      /\ \A o \in Op : result[o].kind = "success"
             => Backed(o, Pinned, result[o].replayed)
  <2>1. ReceiptInv /\ SuccessIsCommitted /\ FreshSuccessOwnsReceipt
    BY DEF SuccessInv
  <2>2. \A o \in Op : result[o].kind = "success" => Backed(o, Pinned, result[o].replayed)
    BY <2>1 DEF SuccessIsCommitted, FreshSuccessOwnsReceipt, returned, Held, ReceiptInv, OncePerLog
  <2> QED BY <2>2 DEF SuccessInv, ReplyBacked
<1> SUFFICES ASSUME NEW o \in Op
             PROVE  /\ reply'[o].status = "ok" /\ reply'[o].log # NoLog
                          => Backed2(o, reply'[o].log, reply'[o].replayed)
                    /\ result'[o].kind = "success"
                          => Backed2(o, Pinned, result'[o].replayed)
  BY <1>0 DEF SuccessInv, ReplyBacked, SuccessIsCommitted, FreshSuccessOwnsReceipt, returned, Held
<1> HIDE DEF Backed, Backed2
<1>3. CASE UNCHANGED <<reply, result>>
  BY <1>1, <1>2, <1>3
<1>4. ASSUME NEW p \in Op, WriteExact(p)
      PROVE  /\ reply'[o].status = "ok" /\ reply'[o].log # NoLog
                   => Backed2(o, reply'[o].log, reply'[o].replayed)
             /\ result'[o].kind = "success" => Backed2(o, Pinned, result'[o].replayed)
  <2>1. reply'[o] = reply[o] \/ reply'[o] = NoReply
    BY <1>4, ClientResult DEF Base, TypeOK
  <2>2. \/ result'[o] = result[o]
        \/ result'[o].kind \in Definite \cup {"uncertain"}
        \/ /\ result'[o].replayed = reply[o].replayed
           /\ reply[o].status = "ok" /\ reply[o].log = Pinned
    BY <1>4, ClientResult DEF Base, TypeOK
  <2>3. Pinned # NoLog /\ NoReply.status # "ok"
    BY DEF NoReply
  <2>4. \A r : r.kind \in Definite \cup {"uncertain"} => r.kind # "success"
    BY DEF Definite
  <2> QED BY <2>1, <2>2, <2>3, <2>4, <1>1, <1>2
<1>5. CASE Network
  <2>1. result' = result
    BY <1>5, NetworkReply
  <2>2. ASSUME NEW m \in wire, Serve(m), m.op = o,
               reply'[o] = Answer(KeyOf[o], SentBody(o)), reply'[o].status = "ok"
        PROVE  Backed2(o, reply'[o].log, reply'[o].replayed)
    <3>1. SentBody(o) = BodyOf[o]
      BY <2>2 DEF SentBody, SuccessInv, ReceiptInv, BodyInv, OnWire
    <3>2. /\ Accepts(KeyOf[o]) /\ \A r \in Held(current, KeyOf[o]) : r.body = BodyOf[o]
          /\ reply'[o] = Committed(current, Held(current, KeyOf[o]) # {})
      BY <2>2, <3>1 DEF Answer, Failure
    <3>3. CASE Held(current, KeyOf[o]) = {}
      <4>1. reply'[o].log = current
        BY <3>2 DEF Committed
      <4> DEFINE r == [log |-> current, key |-> KeyOf[o], body |-> SentBody(o),
                       durable |-> CommitDurability, op |-> o, attempt |-> m.attempt]
      <4>2. r \in receipts'
        BY <2>2, <3>2, <3>3 DEF Serve, Applied
      <4>3. r.log = current /\ r.key = KeyOf[o] /\ r.body = SentBody(o) /\ r.op = o
        OBVIOUS
      <4>4. r.durable
        BY <4>2, <1>0
      <4> HIDE DEF r
      <4> QED BY <3>1, <4>1, <4>2, <4>3, <4>4 DEF Backed2
    <3>4. CASE Held(current, KeyOf[o]) # {}
      <4>1. PICK r \in Held(current, KeyOf[o]) : r.body = BodyOf[o]
        BY <3>2, <3>4
      <4>2. r \in receipts' /\ r.durable /\ r.log = current /\ r.key = KeyOf[o]
        BY <1>0 DEF Held
      <4>3. reply'[o].replayed /\ reply'[o].log = current
        <5>1. (Held(current, KeyOf[o]) # {}) = TRUE
          BY <3>4
        <5>2. reply'[o] = Committed(current, TRUE)
          BY <3>2, <5>1
        <5> QED BY <5>2 DEF Committed
      <4> QED BY <4>1, <4>2, <4>3 DEF Backed2
    <3> QED BY <3>3, <3>4
  <2> QED BY <1>1, <1>2, <1>5, <2>1, <2>2, NetworkReply
<1>6. ASSUME NEW p \in Op, Caller(p) PROVE UNCHANGED <<reply, result>>
  BY <1>6 DEF Caller, Cancel, Reuse, network
<1>7. Operator => UNCHANGED <<reply, result>>
  BY DEF Operator, client, network
<1> QED BY <1>3, <1>4, <1>5, <1>6, <1>7 DEF Next, vars, client, network

LEMMA SuccessAlways == ASSUME CommitDurability PROVE Spec => []SuccessInv
<1>1. Init => SuccessInv
  <2> SUFFICES ASSUME Init, ReceiptInv PROVE SuccessInv
    BY ReceiptInit
  <2> QED
    BY DEF Init, SuccessInv, ReplyBacked, SuccessIsCommitted, FreshSuccessOwnsReceipt,
           returned, Pending, Outcome, NoReply
<1>2. Base /\ SuccessInv /\ ReceiptInv' /\ [Next]_vars => SuccessInv'
  BY SuccessStep
<1> QED BY <1>1, <1>2, ReceiptAlways, BaseAlways, PTL DEF Spec

\* With commit durability, which an ingestion session requires, a success means
\* a durable receipt with the caller's bytes on the pinned log, for good.
THEOREM SuccessHolds == ASSUME CommitDurability PROVE Spec => []SuccessIsCommitted
BY SuccessAlways, PTL DEF SuccessInv

\* A success that is not a replay was executed by the call that returned it.
THEOREM FreshSuccessHolds ==
  ASSUME CommitDurability PROVE Spec => []FreshSuccessOwnsReceipt
BY SuccessAlways, PTL DEF SuccessInv

-----------------------------------------------------------------------------
\* A call that returns keeps IInv if what it returns fits what is exposed.
LEMMA EndTrack ==
  ASSUME Base, IInv, NEW o \in Op, NEW r \in Result, Return(o, r),
         UNCHANGED <<receipts, wire, attempt>>,
         \A p \in Op \ {o} : uncertainty'[p] = uncertainty[p] /\ reply'[p] = reply[p],
         reply'[o] = NoReply,
         r.kind \in Definite => Exposed(o) = {},
         r.kind = "uncertain" => \A x \in Exposed(o) : x.attempt >= r.origin.attempt
  PROVE  IInv'
<1>1. /\ \A p \in Op : p # o => pc'[p] = pc[p] /\ result'[p] = result[p]
      /\ pc'[o] = "done" /\ result'[o] = r
  BY DEF Return, Base, TypeOK
<1>2. \A p \in Op : Exposed(p)' = Exposed(p) /\ ByOp(p)' = ByOp(p) /\ OnWire(p)' = OnWire(p)
  BY DEF Exposed, ByOp, OnWire
<1>3. NotYetMade'
  BY <1>1, <1>2 DEF IInv, NotYetMade
<1>4. NotYetServed'
  BY DEF IInv, NotYetServed, ByOp
<1>5. Covered'
  BY <1>1, <1>2 DEF IInv, Covered, active
<1>6. FailureMeansUnexposed'
  BY <1>2 DEF IInv, FailureMeansUnexposed, NoReply
<1>7. DefiniteFailureNeverCommits'
  BY <1>1, <1>2 DEF IInv, DefiniteFailureNeverCommits, returned, Exposed
<1>8. OriginBoundsCommit'
  BY <1>1, <1>2 DEF IInv, OriginBoundsCommit, returned, Exposed
<1> QED BY <1>3, <1>4, <1>5, <1>6, <1>7, <1>8 DEF IInv

\* A call that goes on without a new request keeps IInv if it stays covered.
LEMMA GoOnTrack ==
  ASSUME Base, IInv, NEW o \in Op, NEW s \in PC \ {"done"},
         pc' = [pc EXCEPT ![o] = s],
         UNCHANGED <<receipts, wire, result>>,
         \A p \in Op \ {o} : /\ uncertainty'[p] = uncertainty[p] /\ reply'[p] = reply[p]
                             /\ attempt'[p] = attempt[p],
         reply'[o] = NoReply, pc[o] # "done",
         \A x \in Exposed(o) : /\ x.attempt <= attempt'[o]
                               /\ s \in {"top", "send"} => x.attempt < attempt'[o]
                               /\ uncertainty'[o].attempt # 0
                               /\ x.attempt >= uncertainty'[o].attempt
  PROVE  IInv'
<1>1. \A p \in Op : p # o => pc'[p] = pc[p]
  BY DEF Base, TypeOK
<1>2. pc'[o] = s /\ result'[o].kind = "none"
  BY DEF Base, TypeOK, ControlInv
<1>3. \A p \in Op : Exposed(p)' = Exposed(p) /\ ByOp(p)' = ByOp(p) /\ OnWire(p)' = OnWire(p)
  BY DEF Exposed, ByOp, OnWire
<1>4. NotYetMade'
  <2> SUFFICES ASSUME NEW p \in Op, NEW x \in Exposed(p)
               PROVE  x.attempt <= attempt'[p]
                      /\ (pc'[p] \in {"top", "send"} => x.attempt < attempt'[p])
    BY <1>3 DEF NotYetMade
  <2>1. CASE p = o
    BY <1>2, <2>1
  <2>2. CASE p # o
    BY <1>1, <2>2 DEF IInv, NotYetMade
  <2> QED BY <2>1, <2>2
<1>5. NotYetServed'
  BY DEF IInv, NotYetServed, ByOp
<1>6. Covered'
  <2> SUFFICES ASSUME NEW p \in Op, pc'[p] # "done", NEW x \in Exposed(p)
               PROVE  \/ active(p)' /\ x.attempt >= uncertainty'[p].attempt
                      \/ ~active(p)' /\ pc'[p] = "await" /\ x.attempt = attempt'[p]
    BY <1>3 DEF Covered
  <2>1. CASE p = o
    BY <2>1 DEF active
  <2>2. CASE p # o
    BY <1>1, <2>2 DEF IInv, Covered, active
  <2> QED BY <2>1, <2>2
<1>7. FailureMeansUnexposed'
  BY <1>3 DEF IInv, FailureMeansUnexposed, NoReply
<1>8. DefiniteFailureNeverCommits'
  BY <1>3 DEF IInv, DefiniteFailureNeverCommits, returned
<1>9. OriginBoundsCommit'
  BY <1>3 DEF IInv, OriginBoundsCommit, returned
<1> QED BY <1>4, <1>5, <1>6, <1>7, <1>8, <1>9 DEF IInv

\* A failed attempt either may have been submitted, and is noted, or was
\* refused, and leaves nothing that could commit.
LEMMA AttemptFailedTrack ==
  ASSUME Base, IInv, NEW o \in Op, NEW err \in AttemptError, NEW ok2xx \in BOOLEAN,
         pc[o] \in {"send", "await"}, AttemptFailed(o, err, ok2xx),
         active(o) \/ possiblySubmitted(err, ok2xx) \/ Exposed(o) = {}
  PROVE  IInv'
<1> DEFINE u == note(o, err, ok2xx)
           r == IF u.attempt # 0
                  THEN uncertain(u, err, attempt[o], "none")
                  ELSE Outcome("error", Certain, err, "none", FALSE)
           ends == attempt[o] = MaxAttempts \/ ~retryCandidate(err)
<1>0. /\ u \in Uncertainty /\ attempt[o] \in 1..MaxAttempts /\ err \in Cause
      /\ uncertainty[o] \in Uncertainty
  BY NoteType DEF Base, TypeOK, ControlInv, Cause
<1>1. \A x \in Exposed(o) : x.attempt \in Nat /\ x.attempt <= attempt[o]
  BY DEF Exposed, ByOp, OnWire, Base, TypeOK, Receipt, Request, IInv, NotYetMade
<1>2. \A x \in Exposed(o) : u.attempt # 0 /\ x.attempt >= u.attempt
  <2>1. CASE active(o)
    BY <2>1, <1>0, NoteType DEF Base, IInv, Covered, active
  <2>2. CASE ~active(o) /\ possiblySubmitted(err, ok2xx)
    <3>1. u.attempt = attempt[o]
      BY <1>0, <2>2 DEF note
    <3> QED BY <1>0, <1>1, <2>2, <3>1 DEF IInv, Covered
  <2> QED BY <2>1, <2>2
<1>3. /\ uncertainty' = [uncertainty EXCEPT ![o] = u]
      /\ reply' = [reply EXCEPT ![o] = NoReply]
      /\ UNCHANGED <<wire, receipts, attempt>>
  BY DEF AttemptFailed, Abandon
<1>4. \/ ends /\ Return(o, r)
      \/ ~ends /\ pc' = [pc EXCEPT ![o] = "check"] /\ UNCHANGED result
  BY DEF AttemptFailed
<1>5. /\ r \in Result
      /\ r.kind \in Definite => u.attempt = 0
      /\ r.kind = "uncertain" => r.origin.attempt = u.attempt
  <2>1. CASE u.attempt # 0
    BY <1>0, <2>1, UncertainType DEF Definite
  <2>2. CASE u.attempt = 0
    <3>1. Certain \in Uncertainty
      BY DaemonAssumption DEF Certain, Uncertainty, Cause, DaemonAssumption
    <3>2. Outcome("error", Certain, err, "none", FALSE) \in Result
      BY <1>0, <3>1, OutcomeType
    <3> QED BY <2>2, <3>2 DEF Outcome
  <2> QED BY <2>1, <2>2
<1> HIDE DEF u, r, ends
<1>6. /\ uncertainty'[o] = u /\ reply'[o] = NoReply
      /\ \A p \in Op \ {o} : uncertainty'[p] = uncertainty[p] /\ reply'[p] = reply[p]
  BY <1>3 DEF Base, TypeOK
<1>7. CASE Return(o, r)
  BY <1>2, <1>3, <1>5, <1>6, <1>7, EndTrack
<1>8. CASE pc' = [pc EXCEPT ![o] = "check"] /\ UNCHANGED result
  <2>1. "check" \in PC \ {"done"} /\ "check" \notin {"top", "send"} /\ pc[o] # "done"
    BY DEF PC
  <2>2. \A x \in Exposed(o) : /\ x.attempt <= attempt'[o]
                              /\ uncertainty'[o].attempt # 0
                              /\ x.attempt >= uncertainty'[o].attempt
    BY <1>1, <1>2, <1>3, <1>6
  <2> QED BY <1>3, <1>6, <1>8, <2>1, <2>2, GoOnTrack
<1> QED BY <1>4, <1>7, <1>8

\* Every step of a call keeps IInv.
LEMMA WriteExactTrack ==
  ASSUME HonestTransport, Base, IInv, NEW o \in Op, WriteExact(o)
  PROVE  IInv'
<1> USE DaemonAssumption DEF DaemonAssumption
<1>0. /\ uncertainty[o] \in Uncertainty /\ lastErr[o] \in Cause
      /\ attempt[o] \in 0..MaxAttempts /\ Certain \in Uncertainty /\ "none" \in Cause
      /\ {"protocol", "decode"} \subseteq Cause
      /\ uncertainty[o].attempt \in 0..MaxAttempts
  BY DEF Base, TypeOK, Cause, Certain, Uncertainty
<1>1. \A x \in Exposed(o) : x.attempt \in 1..MaxAttempts /\ x.attempt <= attempt[o]
  BY DEF Exposed, ByOp, OnWire, Base, TypeOK, Receipt, Request, IInv, NotYetMade
<1>2. pc[o] \notin {"await", "done"} =>
        \A x \in Exposed(o) : active(o) /\ x.attempt >= uncertainty[o].attempt
  BY DEF IInv, Covered
<1>3. pc[o] # "await" => reply[o] = NoReply
  BY DEF Base, ControlInv
\* A call that ends between attempts, with nothing else changed.
<1>4. ASSUME NEW r \in Result, Return(o, r), pc[o] \notin {"await", "done"},
             UNCHANGED <<receipts, wire, attempt, uncertainty, reply>>,
             r.kind \in Definite => ~active(o) \/ pc[o] = "start",
             r.kind = "uncertain" /\ active(o) => r.origin.attempt = uncertainty[o].attempt
      PROVE  IInv'
  <2>1. r.kind \in Definite => Exposed(o) = {}
    <3>1. pc[o] = "start" => Exposed(o) = {}
      BY <1>1 DEF Base, ControlInv
    <3> QED BY <1>2, <1>4, <3>1
  <2>2. r.kind = "uncertain" => \A x \in Exposed(o) : x.attempt >= r.origin.attempt
    BY <1>2, <1>4
  <2> QED BY <1>3, <1>4, <2>1, <2>2, EndTrack
\* A call that goes on between attempts.
<1>5. ASSUME NEW s \in {"top", "send", "backoff"}, pc' = [pc EXCEPT ![o] = s],
             pc[o] \notin {"await", "done"},
             UNCHANGED <<receipts, wire, uncertainty, reply, result>>,
             attempt'[o] \in Nat,
             \A p \in Op \ {o} : attempt'[p] = attempt[p],
             \A x \in Exposed(o) :
               /\ x.attempt <= attempt'[o]
               /\ s \in {"top", "send"} => x.attempt < attempt'[o]
      PROVE  IInv'
  <2>1. \A x \in Exposed(o) : /\ x.attempt <= attempt'[o]
                              /\ s \in {"top", "send"} => x.attempt < attempt'[o]
                              /\ uncertainty'[o].attempt # 0
                              /\ x.attempt >= uncertainty'[o].attempt
    BY <1>2, <1>5 DEF active
  <2>2. s \in PC \ {"done"} /\ reply'[o] = NoReply
    BY <1>3, <1>5 DEF PC
  <2> QED BY <1>5, <2>1, <2>2, GoOnTrack
<1>6. CASE Enter(o)
  <2>1. Exposed(o) = {} /\ pc[o] = "start"
    BY <1>1, <1>6 DEF Enter, Base, ControlInv
  <2>2. CASE Admitted(o)
    BY <1>5, <1>6, <2>1, <2>2 DEF Enter, network, Base, TypeOK
  <2>3. CASE ~Admitted(o)
    <3> DEFINE r == Outcome("refused", Certain, "none", "none", FALSE)
    <3>1. r \in Result /\ r.kind = "refused"
      BY <1>0, OutcomeType DEF Outcome
    <3> HIDE DEF r
    <3> QED BY <1>4, <1>6, <2>1, <2>3, <3>1 DEF Enter, network, r
  <2> QED BY <2>2, <2>3
<1>7. CASE Top(o)
  <2>1. CASE ~ctxDone[o]
    <3>1. \A x \in Exposed(o) : x.attempt < attempt[o]
      BY <1>7 DEF Top, IInv, NotYetMade
    <3> QED BY <1>0, <1>1, <1>5, <1>7, <2>1, <3>1 DEF Top, network
  <2>2. CASE ctxDone[o]
    <3> DEFINE u == uncertain(uncertainty[o], lastErr[o], attempt[o] - 1, "ctx")
               s == Outcome("stopped", Certain, lastErr[o], "ctx", FALSE)
               c == Outcome("ctx", Certain, "none", "ctx", FALSE)
               r == IF active(o) THEN u ELSE IF lastErr[o] # "none" THEN s ELSE c
    <3>1. attempt[o] - 1 \in 0..MaxAttempts
      BY <1>0, <1>7 DEF Top, Base, ControlInv
    <3>2. /\ u \in Result /\ u.kind = "uncertain"
          /\ active(o) => u.origin.attempt = uncertainty[o].attempt
      BY <1>0, <3>1, UncertainType DEF active
    <3>3. s \in Result /\ c \in Result /\ s.kind = "stopped" /\ c.kind = "ctx"
      BY <1>0, OutcomeType DEF Outcome
    <3>4. Return(o, r)
      BY <1>7, <2>2 DEF Top
    <3>5. /\ r \in Result
          /\ r.kind \in Definite => ~active(o)
          /\ r.kind = "uncertain" /\ active(o) => r.origin.attempt = uncertainty[o].attempt
      BY <3>2, <3>3 DEF Definite, active
    <3> HIDE DEF r
    <3> QED BY <1>4, <1>7, <3>4, <3>5 DEF Top, network
  <2> QED BY <2>1, <2>2
<1>8. CASE Send(o)
  <2> DEFINE m == [op |-> o, attempt |-> attempt[o], copy |-> 1]
  <2>1. /\ pc[o] = "send" /\ pc' = [pc EXCEPT ![o] = "await"]
        /\ wire' = wire \cup {m} /\ reply' = [reply EXCEPT ![o] = NoReply]
        /\ UNCHANGED <<receipts, attempt, uncertainty, result>>
    BY <1>8 DEF Send
  <2>2. \A x \in Exposed(o) : x.attempt < attempt[o]
    BY <2>1 DEF IInv, NotYetMade
  <2>3. m.op = o /\ m.attempt = attempt[o]
    OBVIOUS
  <2>4. result[o].kind = "none"
    BY <2>1 DEF Base, ControlInv
  <2>5. /\ \A p \in Op : ByOp(p)' = ByOp(p)
        /\ \A p \in Op \ {o} : Exposed(p)' = Exposed(p) /\ OnWire(p)' = OnWire(p)
        /\ Exposed(o)' = Exposed(o) \cup {m} /\ OnWire(o)' = OnWire(o) \cup {m}
    BY <2>1, <2>3 DEF Exposed, ByOp, OnWire
  <2>6. /\ pc'[o] = "await" /\ reply'[o] = NoReply
        /\ \A p \in Op \ {o} : pc'[p] = pc[p] /\ reply'[p] = reply[p]
    BY <2>1 DEF Base, TypeOK
  <2> HIDE DEF m
  <2>7. NotYetMade'
    BY <1>0, <2>1, <2>2, <2>3, <2>5, <2>6 DEF IInv, NotYetMade
  <2>8. NotYetServed'
    BY <2>1, <2>2, <2>3, <1>1 DEF IInv, NotYetServed, ByOp, Exposed
  <2>9. Covered'
    <3> SUFFICES ASSUME NEW p \in Op, pc'[p] # "done", NEW x \in Exposed(p)'
                 PROVE  \/ active(p)' /\ x.attempt >= uncertainty'[p].attempt
                        \/ ~active(p)' /\ pc'[p] = "await" /\ x.attempt = attempt'[p]
      BY DEF Covered
    <3>1. CASE p # o
      BY <2>1, <2>5, <2>6, <3>1 DEF IInv, Covered, active
    <3>2. CASE p = o /\ x = m
      BY <1>0, <2>1, <2>3, <2>6, <3>2 DEF active, Base, ControlInv
    <3>3. CASE p = o /\ x \in Exposed(o)
      BY <1>2, <2>1, <3>3 DEF active
    <3> QED BY <2>5, <3>1, <3>2, <3>3
  <2>10. FailureMeansUnexposed'
    BY <2>1, <2>5, <2>6 DEF IInv, FailureMeansUnexposed, NoReply
  <2>11. DefiniteFailureNeverCommits'
    BY <2>1, <2>4, <2>5 DEF IInv, DefiniteFailureNeverCommits, returned, Definite
  <2>12. OriginBoundsCommit'
    BY <2>1, <2>4, <2>5 DEF IInv, OriginBoundsCommit, returned
  <2> QED BY <2>7, <2>8, <2>9, <2>10, <2>11, <2>12 DEF IInv
<1>9. CASE SendLocalError(o)
  <2>1. active(o) \/ Exposed(o) = {}
    BY <1>2, <1>9 DEF SendLocalError
  <2> QED BY <1>9, <2>1, AttemptFailedTrack DEF SendLocalError, AttemptError
<1>10. CASE Timeout(o)
  BY <1>10, AttemptFailedTrack DEF Timeout, AttemptError, possiblySubmitted
<1>11. ASSUME NEW d \in Damage, ReceiveError(o, d) PROVE IInv'
  <2>1. reply[o] \in Reply
    BY <1>11 DEF ReceiveError, Base, TypeOK
  <2>2. doError(reply[o], d) \in AttemptError
    BY <1>11, <2>1, DoErrorType DEF ReceiveError
  <2>3. active(o) \/ reply[o].status = "ok" \/ Exposed(o) = {}
    BY <2>1, <1>11 DEF ReceiveError, IInv, Covered, FailureMeansUnexposed, Reply, Status
  <2> QED BY <1>11, <2>2, <2>3, AttemptFailedTrack DEF ReceiveError, possiblySubmitted
<1>12. ASSUME NEW d \in Damage, NEW decodes \in BOOLEAN, ReceiveOK(o, d, decodes)
       PROVE  IInv'
  <2> DEFINE p == uncertain(uncertainty[o], "protocol", attempt[o], "none")
             c == uncertain(uncertainty[o], "decode", attempt[o], "none")
             s == Outcome("success", Certain, "none", "none", reply[o].replayed)
             r == IF d = "oversize" \/ ~validateWriteSuccess(reply[o], d, Pinned) THEN p
                  ELSE IF ~decodes THEN c ELSE s
             origin == IF uncertainty[o].attempt # 0 THEN uncertainty[o].attempt
                       ELSE attempt[o]
  <2>1. /\ p \in Result /\ p.kind = "uncertain" /\ p.origin.attempt = origin
        /\ c \in Result /\ c.kind = "uncertain" /\ c.origin.attempt = origin
    BY <1>0, UncertainType
  <2>2. reply[o].replayed \in BOOLEAN
    BY <1>12 DEF ReceiveOK, Base, TypeOK, Reply
  <2>3. s \in Result /\ s.kind = "success"
    BY <1>0, <2>2, OutcomeType DEF Outcome
  <2>4. /\ r \in Result /\ r.kind \notin Definite
        /\ r.kind = "uncertain" => r.origin.attempt = origin
    BY <2>1, <2>3 DEF Definite
  <2>5. \A x \in Exposed(o) : x.attempt >= origin
    BY <1>0, <1>1, <1>12 DEF ReceiveOK, IInv, Covered, active
  <2>6. Return(o, r) /\ Abandon(o) /\ UNCHANGED <<receipts, attempt, uncertainty>>
    BY <1>12 DEF ReceiveOK
  <2> HIDE DEF r, origin
  <2>7. /\ reply'[o] = NoReply /\ UNCHANGED wire
        /\ \A q \in Op \ {o} : uncertainty'[q] = uncertainty[q] /\ reply'[q] = reply[q]
    BY <2>6 DEF Abandon, Base, TypeOK
  <2> QED BY <2>4, <2>5, <2>6, <2>7, EndTrack
<1>13. ASSUME NEW why \in {"identity", "changed"}, pc[o] = "check",
              Return(o, uncertain(uncertainty[o], lastErr[o], attempt[o], why)),
              UNCHANGED <<receipts, wire, attempt, uncertainty, reply>>
       PROVE  IInv'
  <2> DEFINE r == uncertain(uncertainty[o], lastErr[o], attempt[o], why)
  <2>1. /\ r \in Result /\ r.kind = "uncertain"
        /\ active(o) => r.origin.attempt = uncertainty[o].attempt
    BY <1>0, UncertainType DEF active
  <2> HIDE DEF r
  <2>2. Return(o, r)
    BY <1>13 DEF r
  <2> QED BY <1>4, <1>13, <2>1, <2>2 DEF Definite
<1>14. CASE CheckUnavailable(o)
  BY <1>13, <1>14 DEF CheckUnavailable, network
<1>15. CASE Check(o)
  <2>1. CASE current # Pinned
    BY <1>13, <1>15, <2>1 DEF Check, network
  <2>2. CASE current = Pinned
    BY <1>0, <1>1, <1>5, <1>15, <2>2 DEF Check, network
  <2> QED BY <2>1, <2>2
<1>16. CASE NegativeBackoff(o) \/ SleepCancelled(o)
  <2>1. PICK why \in {"ctx", "backoff"} : Stop(o, why)
    BY <1>16 DEF NegativeBackoff, SleepCancelled
  <2> DEFINE u == uncertain(uncertainty[o], lastErr[o], attempt[o], why)
             s == Outcome("stopped", Certain, lastErr[o], why, FALSE)
             r == IF active(o) THEN u ELSE s
  <2>2. /\ u \in Result /\ u.kind = "uncertain"
        /\ active(o) => u.origin.attempt = uncertainty[o].attempt
    BY <1>0, UncertainType DEF active
  <2>3. s \in Result /\ s.kind = "stopped"
    BY <1>0, OutcomeType DEF Outcome
  <2>4. /\ r \in Result
        /\ r.kind \in Definite => ~active(o)
        /\ r.kind = "uncertain" /\ active(o) => r.origin.attempt = uncertainty[o].attempt
    BY <2>2, <2>3 DEF Definite, active
  <2>5. Return(o, r)
    BY <2>1 DEF Stop
  <2>6. /\ pc[o] = "backoff"
        /\ UNCHANGED <<receipts, wire, attempt, uncertainty, reply>>
    BY <1>16 DEF NegativeBackoff, SleepCancelled, network
  <2> HIDE DEF r
  <2> QED BY <1>4, <2>4, <2>5, <2>6
<1>17. CASE Retry(o)
  <2>1. /\ attempt'[o] = attempt[o] + 1
        /\ \A p \in Op \ {o} : attempt'[p] = attempt[p]
    BY <1>17 DEF Retry, Base, TypeOK
  <2>2. attempt'[o] \in Nat /\ \A x \in Exposed(o) : x.attempt < attempt'[o]
    BY <1>0, <1>1, <2>1
  <2>3. \A x \in Exposed(o) : x.attempt <= attempt'[o] /\ x.attempt < attempt'[o]
    BY <1>1, <2>2
  <2> QED BY <1>5, <1>17, <2>1, <2>2, <2>3 DEF Retry, network
<1> QED
  BY <1>6, <1>7, <1>8, <1>9, <1>10, <1>11, <1>12, <1>14, <1>15, <1>16, <1>17
  DEF WriteExact

\* Whatever the daemon or the network does to a request, no attempt becomes
\* exposed that was not, and results and control state stay.
LEMMA ExposureTrack ==
  ASSUME Base, IInv, UNCHANGED <<pc, attempt, uncertainty, result>>,
         NotYetServed', FailureMeansUnexposed',
         \A p \in Op : \A x2 \in Exposed(p)' : \E x \in Exposed(p) : x.attempt = x2.attempt
  PROVE  IInv'
<1>1. NotYetMade'
  BY DEF IInv, NotYetMade
<1>2. Covered'
  BY DEF IInv, Covered, active
<1>3. DefiniteFailureNeverCommits'
  BY DEF IInv, DefiniteFailureNeverCommits, returned, Exposed
<1>4. OriginBoundsCommit'
  BY DEF IInv, OriginBoundsCommit, returned, Exposed
<1> QED BY <1>1, <1>2, <1>3, <1>4 DEF IInv

\* With one delivery per Client.Do, an answer that refuses a request leaves no
\* trace of its attempt.
LEMMA AnsweredTrack ==
  ASSUME HonestTransport, Base, IInv, NEW m \in wire, NEW r \in Reply, Answered(m, r),
         \/ receipts' = receipts
         \/ \E n \in Receipt : /\ receipts' = receipts \cup {n} /\ r.status = "ok"
                               /\ n.op = m.op /\ n.attempt = m.attempt
  PROVE  IInv'
<1>1. /\ m \in Request /\ m.op \in Op
      /\ wire' = wire \ {m} /\ UNCHANGED <<pc, attempt, uncertainty, result>>
  BY DEF Base, TypeOK, Request, Answered, client
<1>2. \A n \in wire \ {m} : n.op # m.op \/ n.attempt # m.attempt
  BY DEF HonestTransport, Base, TypeOK, Request
<1>3. NotYetServed'
  <2> SUFFICES ASSUME NEW w \in wire', NEW q \in receipts', q.op = w.op
               PROVE  q.attempt # w.attempt
    BY DEF NotYetServed, ByOp
  <2>1. CASE q \in receipts
    BY <1>1, <2>1 DEF IInv, NotYetServed, ByOp
  <2>2. CASE q \notin receipts
    BY <1>1, <1>2, <2>2
  <2> QED BY <2>1, <2>2
<1>4. \A p \in Op : \A x2 \in Exposed(p)' : \E x \in Exposed(p) : x.attempt = x2.attempt
  BY <1>1 DEF Exposed, ByOp, OnWire
<1>5. FailureMeansUnexposed'
  <2> SUFFICES ASSUME NEW p \in Op,
                      reply'[p].status \in {"overload", "retryable", "refused"},
                      NEW x2 \in Exposed(p)'
               PROVE  x2.attempt # attempt[p]
    BY <1>1 DEF FailureMeansUnexposed
  <2>1. CASE reply'[p] = reply[p]
    BY <1>4, <2>1 DEF IInv, FailureMeansUnexposed
  <2>2. CASE reply'[p] # reply[p]
    <3>1. p = m.op /\ attempt[p] = m.attempt /\ reply'[p] = r
      BY <1>1, <2>2 DEF Answered, Awaited, Base, TypeOK
    <3>2. receipts' = receipts
      BY <3>1
    <3>3. CASE x2 \in ByOp(p)
      BY <3>1, <3>3 DEF IInv, NotYetServed
    <3>4. CASE x2 \in wire' /\ x2.op = p
      BY <1>1, <1>2, <3>1, <3>4
    <3> QED BY <3>2, <3>3, <3>4 DEF Exposed, ByOp, OnWire
  <2> QED BY <2>1, <2>2
<1> QED BY <1>1, <1>3, <1>4, <1>5, ExposureTrack

\* The caller, the network and the operator keep IInv.
LEMMA EnvironmentTrack ==
  ASSUME HonestTransport, Base, BodyInv, IInv,
         (\E o \in Op : Caller(o)) \/ Network \/ Operator
  PROVE  IInv'
<1> USE DaemonAssumption, KeyedWriteAssumption DEF DaemonAssumption, KeyedWriteAssumption
<1>1. ASSUME UNCHANGED <<pc, attempt, uncertainty, result, wire, receipts>>, NotYetServed',
             FailureMeansUnexposed'
      PROVE  IInv'
  BY <1>1, ExposureTrack DEF Exposed, ByOp, OnWire
<1>2. ASSUME NEW o \in Op, Caller(o) PROVE IInv'
  <2>1. UNCHANGED <<pc, attempt, uncertainty, result, wire, receipts, reply>>
    BY <1>2 DEF Caller, Cancel, Reuse, network
  <2> QED
    BY <1>1, <2>1 DEF IInv, NotYetServed, FailureMeansUnexposed, Exposed, ByOp, OnWire
<1>3. ASSUME NEW m \in wire, Serve(m) PROVE IInv'
  <2> DEFINE k == KeyOf[m.op]
             b == SentBody(m.op)
             n == [log |-> current, key |-> k, body |-> b,
                   durable |-> CommitDurability, op |-> m.op, attempt |-> m.attempt]
  <2>1. m \in Request
    BY DEF Base, TypeOK
  <2>2. b \in Body
    BY <2>1 DEF BodyInv, OnWire, SentBody, Request
  <2>3. Answer(k, b) \in Reply
    BY <2>1, <2>2, ServeType
  <2>4. Answered(m, Answer(k, b)) /\ receipts' = Applied(k, b, m.op, m.attempt)
    BY <1>3 DEF Serve
  <2>5. receipts' = receipts \/ (receipts' = receipts \cup {n} /\ Answer(k, b).status = "ok")
    BY <2>4 DEF Applied, Answer, Committed
  <2>6. n \in Receipt /\ n.op = m.op /\ n.attempt = m.attempt
    BY <2>1, <2>2 DEF Receipt, Request, Base, TypeOK
  <2> HIDE DEF k, b, n
  <2> QED BY <2>3, <2>4, <2>5, <2>6, AnsweredTrack
<1>4. ASSUME NEW m \in wire, NEW status \in {"overload", "retryable", "refused"},
             Shed(m, status)
      PROVE  IInv'
  <2>1. Failure(status) \in Reply
    BY DEF Failure, Reply, Status
  <2> QED BY <1>4, <2>1, AnsweredTrack DEF Shed
<1>5. ASSUME NEW o \in Op, NEW status \in Interposed, Interpose(o, status) PROVE IInv'
  <2>1. /\ UNCHANGED <<pc, attempt, uncertainty, result, wire, receipts>>
        /\ reply' = [reply EXCEPT ![o] = Failure(status)]
    BY <1>5 DEF Interpose, client
  <2>2. Failure(status).status = "ok"
    BY DEF Failure, HonestTransport
  <2> QED
    BY <1>1, <2>1, <2>2 DEF IInv, NotYetServed, FailureMeansUnexposed, Exposed, ByOp, OnWire,
                            Base, TypeOK
<1>6. ASSUME NEW o \in Op PROVE ~TransportReplay(o)
  BY DEF TransportReplay, HonestTransport, Base, ControlInv, TypeOK
<1>7. CASE Operator
  <2>1. UNCHANGED <<client, network>>
    BY <1>7 DEF Operator
  <2>2. \A q \in receipts' : \E r \in receipts : r.op = q.op /\ r.attempt = q.attempt
    <3>1. ASSUME NEW r \in receipts, Sync(r), NEW q \in receipts'
          PROVE  \E r2 \in receipts : r2.op = q.op /\ r2.attempt = q.attempt
      <4>1. CASE q \in receipts
        BY <4>1
      <4>2. CASE q = [r EXCEPT !.durable = TRUE]
        BY <4>2 DEF Base, TypeOK, Receipt
      <4> QED BY <3>1, <4>1, <4>2 DEF Sync
    <3> QED BY <1>7, <3>1 DEF Operator, Crash, Replace
  <2>3. \A p \in Op : \A x2 \in Exposed(p)' : \E x \in Exposed(p) : x.attempt = x2.attempt
    BY <2>1, <2>2 DEF network, Exposed, ByOp, OnWire
  <2>4. NotYetServed'
    BY <2>1, <2>2 DEF network, IInv, NotYetServed, ByOp
  <2>5. FailureMeansUnexposed'
    BY <2>1, <2>3 DEF network, client, IInv, FailureMeansUnexposed
  <2> QED BY <2>1, <2>3, <2>4, <2>5, ExposureTrack DEF client
<1> QED
  BY <1>2, <1>3, <1>4, <1>5, <1>6, <1>7 DEF Network

LEMMA TrackAlways == ASSUME HonestTransport PROVE Spec => []IInv
<1>1. Init => IInv
  BY DEF Init, IInv, NotYetMade, NotYetServed, Covered, FailureMeansUnexposed,
         DefiniteFailureNeverCommits, OriginBoundsCommit, Exposed, ByOp, OnWire, NoReply
<1>2. Base /\ BodyInv /\ IInv /\ [Next]_vars => IInv'
  <2> SUFFICES ASSUME Base, BodyInv, IInv, [Next]_vars PROVE IInv'
    OBVIOUS
  <2>1. CASE UNCHANGED vars
    BY <2>1 DEF vars, client, network, IInv, NotYetMade, NotYetServed, Covered,
                FailureMeansUnexposed, DefiniteFailureNeverCommits, OriginBoundsCommit,
                Exposed, ByOp, OnWire, active, returned
  <2> QED BY <2>1, WriteExactTrack, EnvironmentTrack DEF Next
<1> QED BY <1>1, <1>2, BaseAlways, PTL DEF Spec

\* If net/http delivers one Client.Do at most once and only the daemon answers
\* with a failure, a call that returns neither success nor uncertainty has not
\* committed on any log and has nothing left on the wire that could.
THEOREM DefiniteFailureHolds ==
  ASSUME HonestTransport PROVE Spec => []DefiniteFailureNeverCommits
BY TrackAlways, PTL DEF IInv

\* Under the same conditions the attempt an UncertainOperationError names as its
\* origin is not later than the one that committed.
THEOREM OriginHolds == ASSUME HonestTransport PROVE Spec => []OriginBoundsCommit
BY TrackAlways, PTL DEF IInv

-----------------------------------------------------------------------------
(* The session implements WritePromise.                                    *)

Trustworthy == HonestTransport /\ CommitDurability
Safe == Base /\ ReceiptInv /\ SuccessInv /\ IInv

bar == [o \in Op |-> told(o)]
takenBar == {r.op : r \in {x \in receipts : x.log = Pinned}}

LEMMA ToldCases ==
  ASSUME NEW o \in Op
  PROVE  /\ result[o].kind = "none" => told(o) = "pending"
         /\ result[o].kind = "success" => told(o) = "success"
         /\ result[o].kind = "uncertain" => told(o) = "unknown"
         /\ result[o].kind \in Definite => told(o) = "failed"
BY DEF told, Definite

\* What a call returns is one answer of the promise.
LEMMA WriteExactPromise ==
  ASSUME Trustworthy, Safe, Safe', NEW o \in Op, WriteExact(o)
  PROVE  Promise!Next \/ UNCHANGED Promise!vars
<1>1. PICK r \in Result :
        /\ result' = [result EXCEPT ![o] = r]
        /\ \/ r = result[o]
           \/ r.kind \in Definite \cup {"uncertain"}
           \/ r.kind = "success"
  BY ClientResult DEF Safe
<1>2. receipts' = receipts
  BY ClientFrame DEF Enter, Safe
<1>3. takenBar' = takenBar
  BY <1>2 DEF takenBar
<1>4. \A p \in Op : p # o => told(p)' = told(p)
  BY <1>1 DEF Safe, Base, TypeOK, told
<1>5. CASE r = result[o]
  <2>1. result' = result
    BY <1>1, <1>5 DEF Safe, Base, TypeOK
  <2>2. bar' = bar
    BY <2>1 DEF bar, told
  <2> QED BY <1>3, <2>2 DEF Promise!vars, bar, takenBar
<1>6. CASE r # result[o]
  <2>1. result[o].kind = "none"
    BY ClientFrame DEF Enter, Safe, Base, ControlInv
  <2>2. told(o) = "pending"
    BY <2>1, ToldCases
  <2>3. result'[o] = r
    BY <1>1 DEF Safe, Base, TypeOK
  <2>4. bar' = [bar EXCEPT ![o] = told(o)']
    BY <1>4 DEF bar
  <2>5. ASSUME NEW answer, told(o)' = answer PROVE Promise!Tell(o, answer)
    BY <1>3, <2>2, <2>4, <2>5 DEF Promise!Tell, bar, takenBar
  <2>6. CASE r.kind = "uncertain"
    <3>1. told(o)' = "unknown"
      BY <2>3, <2>6 DEF told, Definite
    <3> QED BY <2>5, <3>1 DEF Promise!Next, Promise!GiveUp
  <2>7. CASE r.kind \in Definite
    <3>1. told(o)' = "failed"
      BY <2>3, <2>7 DEF told, Definite
    <3>2. ByOp(o) = {}
      BY <1>2, <2>3, <2>7 DEF Safe, IInv, DefiniteFailureNeverCommits, returned, ByOp
    <3>3. o \notin takenBar
      BY <3>2 DEF ByOp, takenBar
    <3> QED BY <2>5, <3>1, <3>3 DEF Promise!Next, Promise!Fail, takenBar
  <2>8. CASE r.kind = "success"
    <3>1. told(o)' = "success"
      BY <2>3, <2>8 DEF told, Definite
    <3>2. PICK q \in receipts : q.log = Pinned /\ q.key = KeyOf[o] /\ q.body = BodyOf[o]
      BY <1>2, <2>3, <2>8 DEF Safe, SuccessInv, SuccessIsCommitted, returned, Held
    <3>3. q.op \in takenBar /\ KeyOf[q.op] = KeyOf[o] /\ BodyOf[q.op] = BodyOf[o]
      BY <3>2 DEF takenBar, Safe, ReceiptInv, ExactBytes
    <3> QED BY <2>5, <3>1, <3>3 DEF Promise!Next, Promise!Succeed, takenBar
  <2> QED BY <1>1, <1>6, <2>6, <2>7, <2>8
<1> QED BY <1>5, <1>6

\* A request that the daemon executes takes effect in the promise; one that it
\* replays or refuses changes nothing there.
LEMMA ServePromise ==
  ASSUME Trustworthy, Safe, Safe', NEW m \in wire, Serve(m)
  PROVE  Promise!Next \/ UNCHANGED Promise!vars
<1>1. UNCHANGED result /\ receipts' = Applied(KeyOf[m.op], SentBody(m.op), m.op, m.attempt)
  BY DEF Serve, Answered, client
<1>2. bar' = bar
  BY <1>1 DEF bar, told
<1>3. CASE receipts' = receipts
  BY <1>2, <1>3 DEF Promise!vars, bar, takenBar
<1>4. CASE receipts' # receipts
  <2>1. /\ Accepts(KeyOf[m.op]) /\ Held(current, KeyOf[m.op]) = {}
        /\ m.op \in Op /\ m \in OnWire(m.op)
    BY <1>1, <1>4 DEF Applied, Safe, Base, TypeOK, Request, OnWire
  <2> DEFINE n == [log |-> current, key |-> KeyOf[m.op], body |-> SentBody(m.op),
                   durable |-> CommitDurability, op |-> m.op, attempt |-> m.attempt]
  <2>2. receipts' = receipts \cup {n} /\ n.log = current /\ n.op = m.op
    BY <1>1, <2>1 DEF Applied
  <2> HIDE DEF n
  <2>10. CASE current # Pinned
    BY <1>2, <2>2, <2>10 DEF Promise!vars, bar, takenBar
  <2> SUFFICES ASSUME current = Pinned PROVE Promise!Next
    BY <2>10
  <2>3. takenBar' = takenBar \cup {m.op}
    BY <2>2 DEF takenBar
  <2>4. \A p \in takenBar : KeyOf[p] # KeyOf[m.op]
    BY <2>1 DEF takenBar, Held, Safe, ReceiptInv, ExactBytes
  <2>5. result[m.op].kind \notin Definite \cup {"success"}
    BY <2>1
    DEF Safe, IInv, DefiniteFailureNeverCommits, SuccessInv, SuccessIsCommitted, returned
  <2>6. result[m.op].kind \in {"none", "uncertain"}
    BY <2>1, <2>5 DEF Safe, Base, TypeOK, Result, Definite
  <2>7. told(m.op) \in {"pending", "unknown"}
    BY <2>1, <2>6, ToldCases
  <2>8. Promise!TakeEffect(m.op)
    BY <1>2, <2>1, <2>3, <2>4, <2>7 DEF Promise!TakeEffect, bar, takenBar
  <2> QED BY <2>1, <2>8 DEF Promise!Next
<1> QED BY <1>3, <1>4

LEMMA PromiseStep ==
  ASSUME Trustworthy, Safe, Safe', [Next]_vars
  PROVE  Promise!Next \/ UNCHANGED Promise!vars
<1>1. ASSUME UNCHANGED <<result, receipts>> PROVE UNCHANGED Promise!vars
  BY <1>1 DEF Promise!vars, told
<1>2. ASSUME NEW o \in Op, Caller(o) PROVE UNCHANGED <<result, receipts>>
  BY <1>2 DEF Caller, Cancel, Reuse
<1>3. Network => UNCHANGED <<result, receipts>> \/ \E m \in wire : Serve(m)
  BY DEF Network, Shed, Answered, Interpose, TransportReplay, client
<1>4. Operator => UNCHANGED <<result, receipts>>
  BY DEF Operator, client, Crash, Sync, Replace, Safe, SuccessInv
<1>5. UNCHANGED vars => UNCHANGED <<result, receipts>>
  BY DEF vars, client
<1> QED
  BY <1>1, <1>2, <1>3, <1>4, <1>5, WriteExactPromise, ServePromise DEF Next

\* The attempt loop of session.go keeps the promise of WritePromise.tla, when
\* the transport is honest and writes are durable before they are answered,
\* whatever database is put behind the base URL and with or without key prefixes.
THEOREM SessionKeepsPromise == ASSUME Trustworthy PROVE Spec => ImplementsPromise
<1>1. Init => Promise!Init
  <2> SUFFICES ASSUME Init PROVE Promise!Init
    OBVIOUS
  <2>1. \A o \in Op : told(o) = "pending"
    BY ToldCases DEF Init, Pending, Outcome
  <2> QED BY <2>1 DEF Init, Promise!Init
<1>2. Safe /\ Safe' /\ [Next]_vars => [Promise!Next]_(Promise!vars)
  BY PromiseStep
<1>3. Spec => []Safe
  <2>1. HonestTransport /\ CommitDurability
    BY DEF Trustworthy
  <2>2. (Spec => []IInv) /\ (Spec => []SuccessInv)
    BY <2>1, TrackAlways, SuccessAlways
  <2> QED BY <2>2, BaseAlways, ReceiptAlways, PTL DEF Safe
<1> QED BY <1>1, <1>2, <1>3, PTL DEF Spec, ImplementsPromise, Promise!Spec
-----------------------------------------------------------------------------
(* Uncertainty is never forgotten.                                         *)

\* What a step may do to a call whose outcome is uncertain.
Remembers(o) ==
  /\ uncertainty'[o] = uncertainty[o]
  /\ \/ result'[o] = result[o]
     \/ result'[o].kind = "success"
     \/ /\ result'[o].kind = "uncertain"
        /\ result'[o].origin = uncertainty[o]

LEMMA WriteExactRemembers ==
  ASSUME Base, NEW o \in Op, WriteExact(o), active(o)
  PROVE  Remembers(o)
<1>0. /\ uncertainty[o].attempt # 0
      /\ uncertainty \in [Op -> Uncertainty] /\ result \in [Op -> Result]
  BY DEF active, Base, TypeOK
<1>1. \A last, n, why : /\ uncertain(uncertainty[o], last, n, why).kind = "uncertain"
                        /\ uncertain(uncertainty[o], last, n, why).origin = uncertainty[o]
  BY <1>0 DEF uncertain, Outcome
<1>2. ~Enter(o)
  <2>1. attempt[o] \in Nat /\ uncertainty[o].attempt \in Nat
    BY <1>0 DEF Base, TypeOK, Uncertainty, DaemonAssumption
  <2>2. uncertainty[o].attempt <= attempt[o] /\ (pc[o] = "start" => attempt[o] = 0)
    BY DEF Base, ControlInv
  <2>3. pc[o] # "start"
    BY <1>0, <2>1, <2>2
  <2> QED BY <2>3 DEF Enter
<1>3. ASSUME NEW r, Return(o, r), uncertainty' = uncertainty,
             r.kind = "success" \/ (r.kind = "uncertain" /\ r.origin = uncertainty[o])
      PROVE  Remembers(o)
  BY <1>0, <1>3 DEF Return, Remembers
<1>4. ASSUME NEW err, NEW ok2xx, AttemptFailed(o, err, ok2xx) PROVE Remembers(o)
  <2> DEFINE r == uncertain(uncertainty[o], err, attempt[o], "none")
  <2>1. note(o, err, ok2xx) = uncertainty[o]
    BY DEF note
  <2>2. uncertainty' = [uncertainty EXCEPT ![o] = uncertainty[o]]
    BY <1>4, <2>1 DEF AttemptFailed
  <2>3. uncertainty' = uncertainty
    BY <1>0, <2>2
  <2>4. Return(o, r) \/ UNCHANGED result
    BY <1>0, <1>4, <2>1 DEF AttemptFailed
  <2>5. r.kind = "uncertain" /\ r.origin = uncertainty[o]
    BY <1>1
  <2> HIDE DEF r
  <2>6. CASE Return(o, r)
    BY <1>3, <2>3, <2>5, <2>6
  <2>7. CASE UNCHANGED result
    BY <2>3, <2>7 DEF Remembers
  <2> QED BY <2>4, <2>6, <2>7
<1>5. CASE SendLocalError(o) \/ Timeout(o) \/ \E d \in Damage : ReceiveError(o, d)
  BY <1>4, <1>5 DEF SendLocalError, Timeout, ReceiveError
<1>6. ASSUME UNCHANGED <<uncertainty, result>> PROVE Remembers(o)
  BY <1>6 DEF Remembers
<1>7. ASSUME NEW last, NEW n, NEW why, uncertainty' = uncertainty,
             Return(o, uncertain(uncertainty[o], last, n, why))
      PROVE  Remembers(o)
  BY <1>1, <1>3, <1>7
<1>8. CASE Top(o)
  <2>1. \/ UNCHANGED <<uncertainty, result>>
        \/ /\ uncertainty' = uncertainty
           /\ Return(o, uncertain(uncertainty[o], lastErr[o], attempt[o] - 1, "ctx"))
    BY <1>8 DEF Top
  <2> QED BY <1>6, <1>7, <2>1
<1>9. CASE Send(o) \/ Retry(o)
  BY <1>6, <1>9 DEF Send, Retry
<1>10. ASSUME NEW d \in Damage, NEW decodes \in BOOLEAN, ReceiveOK(o, d, decodes)
       PROVE  Remembers(o)
  <2> DEFINE s == Outcome("success", Certain, "none", "none", reply[o].replayed)
  <2>1. \/ Return(o, uncertain(uncertainty[o], "protocol", attempt[o], "none"))
        \/ Return(o, uncertain(uncertainty[o], "decode", attempt[o], "none"))
        \/ Return(o, s)
    BY <1>10 DEF ReceiveOK
  <2>2. uncertainty' = uncertainty
    BY <1>10 DEF ReceiveOK
  <2>3. s.kind = "success"
    BY DEF Outcome
  <2> HIDE DEF s
  <2>4. CASE Return(o, s)
    BY <1>0, <2>2, <2>3, <2>4 DEF Return, Remembers
  <2>5. CASE Return(o, uncertain(uncertainty[o], "protocol", attempt[o], "none"))
    BY <1>7, <2>2, <2>5
  <2>6. CASE Return(o, uncertain(uncertainty[o], "decode", attempt[o], "none"))
    BY <1>7, <2>2, <2>6
  <2> QED BY <2>1, <2>4, <2>5, <2>6
<1>11. CASE CheckUnavailable(o) \/ Check(o)
  BY <1>6, <1>7, <1>11 DEF CheckUnavailable, Check
<1>12. CASE NegativeBackoff(o) \/ SleepCancelled(o)
  BY <1>7, <1>12 DEF NegativeBackoff, SleepCancelled, Stop
<1> QED
  BY <1>2, <1>5, <1>8, <1>9, <1>10, <1>11, <1>12 DEF WriteExact

\* A step of another call, the network or the operator touches neither the
\* uncertainty nor the result of a call.
LEMMA OtherRemembers ==
  ASSUME Base, NEW o \in Op, [Next]_vars, ~WriteExact(o)
  PROVE  Remembers(o)
<1> DEFINE same == uncertainty'[o] = uncertainty[o] /\ result'[o] = result[o]
<1> SUFFICES same
  BY DEF Remembers
<1>1. ASSUME NEW p \in Op, WriteExact(p) PROVE same
  <2>0. p # o
    BY <1>1
  <2>1. ASSUME NEW err, NEW ok2xx, AttemptFailed(p, err, ok2xx) PROVE same
    BY <2>0, <2>1 DEF AttemptFailed, Return, Base, TypeOK
  <2>2. CASE SendLocalError(p) \/ Timeout(p) \/ \E d \in Damage : ReceiveError(p, d)
    BY <2>1, <2>2 DEF SendLocalError, Timeout, ReceiveError
  <2>3. CASE Enter(p) \/ Top(p) \/ Send(p)
    BY <2>0, <2>3 DEF Enter, Top, Send, Return, Base, TypeOK
  <2>4. CASE \E d \in Damage, decodes \in BOOLEAN : ReceiveOK(p, d, decodes)
    BY <2>0, <2>4 DEF ReceiveOK, Return, Base, TypeOK
  <2>5. CASE CheckUnavailable(p) \/ Check(p)
    BY <2>0, <2>5 DEF CheckUnavailable, Check, Return, Base, TypeOK
  <2>6. CASE NegativeBackoff(p) \/ SleepCancelled(p) \/ Retry(p)
    BY <2>0, <2>6 DEF NegativeBackoff, SleepCancelled, Retry, Stop, Return, Base, TypeOK
  <2> QED BY <1>1, <2>2, <2>3, <2>4, <2>5, <2>6 DEF WriteExact
<1>2. CASE (\E p \in Op : Caller(p)) \/ Network \/ Operator \/ UNCHANGED vars
  BY <1>2 DEF Caller, Cancel, Reuse, Network, Serve, Shed, Answered, Interpose,
              TransportReplay, Operator, vars, client
<1> QED BY <1>1, <1>2 DEF Next

\* No step makes a call forget that an attempt may have committed, or end in a
\* definite failure afterwards (session.go:289-297 and every return of
\* writeExact); no assumption on the transport or the daemon is needed.
THEOREM UncertaintyHolds == Spec => UncertaintyIsMonotone
<1>1. Base /\ [Next]_vars =>
        [\A o \in Op : active(o) =>
           /\ uncertainty'[o] = uncertainty[o]
           /\ \/ result'[o] = result[o]
              \/ result'[o].kind = "success"
              \/ result'[o].kind = "uncertain" /\ result'[o].origin = uncertainty[o]]_vars
  BY WriteExactRemembers, OtherRemembers DEF Remembers
<1> QED BY <1>1, BaseAlways, PTL DEF Spec, UncertaintyIsMonotone

-----------------------------------------------------------------------------
(* The first node decides.                                                 *)

\* The types the errors of a call can have.
LEMMA KnownTypes ==
  {"uncertain_operation", "api", "capability", "response_too_large", "decode", "transport",
   "protocol", "context_canceled", "context_deadline", "unknown"} \subseteq ErrorType
<1>1. /\ Precedence[1] = "uncertain_operation" /\ Precedence[3] = "api"
      /\ Precedence[4] = "capability" /\ Precedence[7] = "response_too_large"
      /\ Precedence[8] = "decode" /\ Precedence[9] = "transport"
      /\ Precedence[10] = "protocol" /\ Precedence[14] = "context_canceled"
      /\ Precedence[15] = "context_deadline" /\ DOMAIN Precedence = 1..15
  BY DEF Precedence
<1>2. \A i \in 1..15 : Precedence[i] \in ErrorType
  BY <1>1 DEF ErrorType
<1>3. "unknown" \in ErrorType
  BY DEF ErrorType
<1>4. 1 \in 1..15 /\ 3 \in 1..15 /\ 4 \in 1..15 /\ 7 \in 1..15 /\ 8 \in 1..15 /\ 9 \in 1..15
      /\ 10 \in 1..15 /\ 14 \in 1..15 /\ 15 \in 1..15
  OBVIOUS
<1> QED BY <1>1, <1>2, <1>3, <1>4

LEMMA PlainIsNode ==
  ASSUME NEW t \in ErrorType, NEW id \in Nat, NEW origin \in Nat, NEW flag \in BOOLEAN
  PROVE  node(t, id, origin, flag) \in Node /\ plain(t, id) \in Node
BY DEF node, plain, Node

\* An uncertain operation is classified as one, wrapped or not and whatever it
\* wraps (classify.go:91-119), and its first uncertain request is named.
LEMMA UncertainWins ==
  ASSUME NEW id \in Nat, NEW origin \in Nat \ {0}, NEW rest \in Seq(Node)
  PROVE  LET u == node("uncertain_operation", id, origin, FALSE)
             info == Classify(wrapped(<<u>> \o rest))
         IN  info.mayHaveCommitted /\ info.uncertainRequestID = origin
<1> DEFINE u == node("uncertain_operation", id, origin, FALSE)
           v == plain("unknown", 0)
           e == wrapped(<<u>> \o rest)
<1>1. u.type = "uncertain_operation" /\ u.origin = origin /\ v.type = "unknown"
  BY DEF node, plain
<1>2. u \in Node /\ v \in Node
  BY KnownTypes, PlainIsNode
<1>3. e = <<v>> \o (<<u>> \o rest)
  BY DEF wrapped
<1> HIDE DEF u, v
<1>4. e \in Seq(Node) /\ Len(e) >= 2 /\ e[1] = v /\ e[2] = u
  <2> DEFINE f == <<u>> \o rest
  <2>1. f \in Seq(Node) /\ Len(f) = 1 + Len(rest) /\ f[1] = u /\ Len(rest) \in Nat
    BY <1>2
  <2> HIDE DEF f
  <2>2. <<v>> \in Seq(Node) /\ Len(<<v>>) = 1
    BY <1>2
  <2>3. e = <<v>> \o f
    BY <1>3 DEF f
  <2> HIDE DEF e
  <2> QED BY <2>1, <2>2, <2>3
<1> HIDE DEF e
<1>5. DOMAIN e = 1..Len(e)
  BY <1>4
<1>6. as(e, {"uncertain_operation"}) = u
  <2> DEFINE hit(i) == /\ e[i].type \in {"uncertain_operation"}
                       /\ \A j \in DOMAIN e : j < i => e[j].type \notin {"uncertain_operation"}
  <2>1. 2 \in DOMAIN e /\ hit(2)
    BY <1>1, <1>4, <1>5
  <2>2. \A i \in DOMAIN e : hit(i) => i = 2
    BY <1>1, <1>4, <1>5
  <2>3. (CHOOSE i \in DOMAIN e : hit(i)) = 2
    <3> HIDE DEF hit
    <3> QED BY <2>1, <2>2
  <2> QED BY <2>3, <1>4 DEF as
<1>7. reaches(e, {"uncertain_operation"})
  BY <1>1, <1>4, <1>5 DEF reaches
<1>8. kind(e) = "uncertain_operation"
  <2> DEFINE hit(i) == /\ reaches(e, {Precedence[i]})
                       /\ \A j \in DOMAIN Precedence : j < i => ~reaches(e, {Precedence[j]})
  <2>1. DOMAIN Precedence = 1..15 /\ Precedence[1] = "uncertain_operation"
    BY DEF Precedence
  <2>2. reaches(e, {Precedence[1]})
    BY <1>7, <2>1, Zenon
  <2>3. (CHOOSE i \in DOMAIN Precedence : hit(i)) = 1
    <3>1. \A i \in 1..15 : i < 1 \/ i = 1 \/ 1 < i
      OBVIOUS
    <3>2. 1 \in 1..15 /\ \A j \in 1..15 : ~(j < 1)
      OBVIOUS
    <3>3. 1 \in DOMAIN Precedence /\ hit(1)
      BY <2>1, <2>2, <3>2
    <3>4. \A i \in DOMAIN Precedence : hit(i) => i = 1
      BY <2>1, <2>2, <3>1, <3>2
    <3> HIDE DEF hit
    <3> QED BY <3>3, <3>4
  <2>4. 1 \in DOMAIN Precedence
    BY <2>1
  <2>5. kind(e) = Precedence[CHOOSE i \in DOMAIN Precedence : hit(i)]
    BY <2>2, <2>4, Zenon DEF kind
  <2> QED BY <2>1, <2>3, <2>5
<1>9. e # <<>>
  BY <1>4
<1>10. Classify(e).mayHaveCommitted /\ Classify(e).uncertainRequestID = origin
  <2> DEFINE b == (kind(e) = "uncertain_operation")
  <2>1. b = TRUE
    BY <1>8
  <2>2. as(e, {kind(e)}) = u
    BY <1>6, <1>8
  <2>3. Classify(e).mayHaveCommitted = b
    BY <1>9 DEF Classify
  <2>4. Classify(e).uncertainRequestID = u.origin
    BY <1>1, <1>8, <1>9, <2>2 DEF Classify
  <2> QED BY <1>1, <2>1, <2>3, <2>4
<1> QED BY <1>10 DEF e, u

-----------------------------------------------------------------------------
(* Uncertainty is about an attempt that went out.                          *)

\* What CauseInv says of one call.
Known(o) ==
  /\ active(o) => uncertainty[o].cause \in SentCause
  /\ pc[o] \in {"check", "backoff"} => lastErr[o] \in SentCause
  /\ returned(o, {"uncertain"}) =>
       result[o].origin.cause \in SentCause /\ result[o].origin.attempt \in 1..MaxAttempts

\* s.uncertain() names a sent attempt if it is told of one.
LEMMA UncertainOrigin ==
  ASSUME NEW u \in Uncertainty, NEW last \in Cause, NEW n \in 0..MaxAttempts,
         NEW why \in {"none", "identity", "changed", "ctx", "backoff"},
         IF u.attempt # 0 THEN u.cause \in SentCause ELSE last \in SentCause /\ n # 0
  PROVE  /\ uncertain(u, last, n, why).origin.cause \in SentCause
         /\ uncertain(u, last, n, why).origin.attempt \in 1..MaxAttempts
<1> USE DaemonAssumption DEF DaemonAssumption
<1> DEFINE origin == IF u.attempt # 0 THEN u ELSE [attempt |-> n, cause |-> last]
<1>1. origin.cause \in SentCause /\ origin.attempt \in 1..MaxAttempts
  BY DEF Uncertainty
<1> QED BY <1>1 DEF uncertain, Outcome

\* A call that ends with outcome r and leaves the rest alone.
LEMMA KnownReturn ==
  ASSUME Base, NEW o \in Op, Known(o), NEW r, Return(o, r), uncertainty' = uncertainty,
         r.kind = "uncertain" =>
           r.origin.cause \in SentCause /\ r.origin.attempt \in 1..MaxAttempts
  PROVE  Known(o)'
BY DEF Known, Return, returned, active, Base, TypeOK

\* The causes an attempt's error can have, but for a local failure.
LEMMA SentErrors ==
  /\ AttemptError \ {"local"} \subseteq SentCause
  /\ {"protocol", "decode"} \subseteq SentCause
  /\ \A err \in AttemptError : retryCandidate(err) => err \in SentCause
BY DEF AttemptError, SentCause, Cause, retryCandidate

\* A failed attempt is noted as uncertain only if it went out, and only a retry
\* candidate reaches the identity check (session.go:233-241).
LEMMA KnownFailed ==
  ASSUME Base, NEW o \in Op, Known(o), NEW err \in AttemptError, NEW ok2xx \in BOOLEAN,
         ok2xx => err \in SentCause, pc[o] \in {"send", "await"}, AttemptFailed(o, err, ok2xx)
  PROVE  Known(o)'
<1> DEFINE u == note(o, err, ok2xx)
           r == IF u.attempt # 0
                  THEN uncertain(u, err, attempt[o], "none")
                  ELSE Outcome("error", Certain, err, "none", FALSE)
           ends == attempt[o] = MaxAttempts \/ ~retryCandidate(err)
<1>1. u \in Uncertainty /\ err \in Cause /\ attempt[o] \in 0..MaxAttempts
  BY NoteType DEF Base, TypeOK, Cause
<1>2. u.attempt # 0 => u.cause \in SentCause
  <2>1. CASE active(o) \/ ~possiblySubmitted(err, ok2xx)
    BY <2>1 DEF note, Known, active
  <2>2. CASE ~active(o) /\ possiblySubmitted(err, ok2xx)
    <3>1. u.cause = err
      BY <2>2 DEF note
    <3> QED BY <2>2, <3>1, SentErrors DEF possiblySubmitted, AttemptError
  <2> QED BY <2>1, <2>2
<1>3. r.kind = "uncertain" => r.origin.cause \in SentCause /\ r.origin.attempt \in 1..MaxAttempts
  <2>1. CASE u.attempt # 0
    BY <1>1, <1>2, <2>1, UncertainOrigin
  <2>2. CASE u.attempt = 0
    BY <2>2 DEF Outcome
  <2> QED BY <2>1, <2>2
<1>4. /\ uncertainty' = [uncertainty EXCEPT ![o] = u]
      /\ lastErr' = [lastErr EXCEPT ![o] = err]
  BY DEF AttemptFailed
<1>5. \/ ends /\ pc' = [pc EXCEPT ![o] = "done"] /\ result' = [result EXCEPT ![o] = r]
      \/ ~ends /\ pc' = [pc EXCEPT ![o] = "check"] /\ UNCHANGED result
  BY DEF AttemptFailed, Return
<1>6. ~ends => err \in SentCause
  BY SentErrors
<1> HIDE DEF u, r, ends
<1> QED BY <1>2, <1>3, <1>4, <1>5, <1>6 DEF Known, returned, active, Base, TypeOK

\* Every step of a call keeps what is known of it.
LEMMA KnownStep ==
  ASSUME Base, NEW o \in Op, Known(o), WriteExact(o)
  PROVE  Known(o)'
<1> USE DaemonAssumption DEF DaemonAssumption
<1>0. /\ uncertainty[o] \in Uncertainty /\ lastErr[o] \in Cause
      /\ attempt[o] \in 0..MaxAttempts /\ pc[o] \in PC
      /\ active(o) => uncertainty[o].attempt # 0 /\ uncertainty[o].cause \in SentCause
      /\ ~active(o) => uncertainty[o].attempt = 0
      /\ pc[o] \notin {"start", "done"} => attempt[o] # 0
      /\ {"protocol", "decode"} \subseteq SentCause /\ SentCause \subseteq Cause
  BY SentErrors DEF Base, TypeOK, ControlInv, Known, active, Cause, SentCause
<1>1. CASE Enter(o)
  BY <1>1 DEF Enter, Return, Outcome, Known, returned, active, Base, TypeOK
<1>2. CASE Top(o)
  <2> DEFINE u == uncertain(uncertainty[o], lastErr[o], attempt[o] - 1, "ctx")
             r == IF active(o) THEN u
                  ELSE IF lastErr[o] # "none" THEN Outcome("stopped", Certain, lastErr[o], "ctx", FALSE)
                  ELSE Outcome("ctx", Certain, "none", "ctx", FALSE)
  <2>1. CASE ~ctxDone[o]
    BY <1>2, <2>1 DEF Top, Known, returned, active, Base, TypeOK
  <2>2. CASE ctxDone[o]
    <3>1. attempt[o] - 1 \in 0..MaxAttempts
      BY <1>0, <1>2 DEF Top
    <3>2. r.kind = "uncertain" =>
            r.origin.cause \in SentCause /\ r.origin.attempt \in 1..MaxAttempts
      BY <1>0, <3>1, UncertainOrigin DEF Outcome
    <3>3. Return(o, r) /\ uncertainty' = uncertainty
      BY <1>2, <2>2 DEF Top
    <3> HIDE DEF r
    <3> QED BY <3>2, <3>3, KnownReturn
  <2> QED BY <2>1, <2>2
<1>3. CASE Send(o)
  BY <1>3 DEF Send, Known, returned, active, Base, TypeOK
<1>4. CASE SendLocalError(o)
  BY <1>4, KnownFailed DEF SendLocalError, AttemptError
<1>5. CASE Timeout(o)
  BY <1>5, KnownFailed DEF Timeout, AttemptError
<1>6. ASSUME NEW d \in Damage, ReceiveError(o, d) PROVE Known(o)'
  <2>1. reply[o] \in Reply
    BY <1>6 DEF ReceiveError, Base, TypeOK
  <2>2. doError(reply[o], d) \in AttemptError \ {"local"}
    BY <1>6, <2>1 DEF ReceiveError, doError, Reply, Status, Damage, AttemptError
  <2>3. doError(reply[o], d) \in SentCause
    BY <2>2, SentErrors
  <2> QED BY <1>6, <2>2, <2>3, KnownFailed DEF ReceiveError
<1>7. ASSUME NEW d \in Damage, NEW decodes \in BOOLEAN, ReceiveOK(o, d, decodes)
      PROVE  Known(o)'
  <2> DEFINE p == uncertain(uncertainty[o], "protocol", attempt[o], "none")
             c == uncertain(uncertainty[o], "decode", attempt[o], "none")
             s == Outcome("success", Certain, "none", "none", reply[o].replayed)
             r == IF d = "oversize" \/ ~validateWriteSuccess(reply[o], d, Pinned) THEN p
                  ELSE IF ~decodes THEN c ELSE s
  <2>1. attempt[o] # 0
    BY <1>0, <1>7 DEF ReceiveOK
  <2>2. p.origin.cause \in SentCause /\ p.origin.attempt \in 1..MaxAttempts
    BY <1>0, <2>1, UncertainOrigin
  <2>3. c.origin.cause \in SentCause /\ c.origin.attempt \in 1..MaxAttempts
    BY <1>0, <2>1, UncertainOrigin
  <2>4. s.kind # "uncertain"
    BY DEF Outcome
  <2>5. Return(o, r) /\ uncertainty' = uncertainty
    BY <1>7 DEF ReceiveOK
  <2>6. r.kind = "uncertain" => r.origin.cause \in SentCause /\ r.origin.attempt \in 1..MaxAttempts
    BY <2>2, <2>3, <2>4
  <2> HIDE DEF r
  <2> QED BY <2>5, <2>6, KnownReturn
<1>8. ASSUME NEW why \in {"identity", "changed", "ctx", "backoff"}, pc[o] \in {"check", "backoff"},
             uncertainty' = uncertainty,
             NEW r, r = uncertain(uncertainty[o], lastErr[o], attempt[o], why), Return(o, r)
      PROVE  Known(o)'
  <2>1. lastErr[o] \in SentCause /\ attempt[o] # 0
    BY <1>0, <1>8 DEF Known
  <2>2. r.origin.cause \in SentCause /\ r.origin.attempt \in 1..MaxAttempts
    BY <1>0, <1>8, <2>1, UncertainOrigin
  <2> QED BY <1>8, <2>2, KnownReturn
<1>9. CASE CheckUnavailable(o)
  BY <1>8, <1>9 DEF CheckUnavailable
<1>10. CASE Check(o)
  <2>1. CASE current # Pinned
    BY <1>8, <1>10, <2>1 DEF Check
  <2>2. CASE current = Pinned
    BY <1>10, <2>2 DEF Check, Known, returned, active, Base, TypeOK
  <2> QED BY <2>1, <2>2
<1>11. ASSUME NEW why \in {"ctx", "backoff"}, pc[o] = "backoff", Stop(o, why),
              uncertainty' = uncertainty
       PROVE  Known(o)'
  <2>1. CASE active(o)
    BY <1>8, <1>11, <2>1 DEF Stop
  <2>2. CASE ~active(o)
    <3> DEFINE r == Outcome("stopped", Certain, lastErr[o], why, FALSE)
    <3>1. r.kind # "uncertain" /\ Return(o, r)
      BY <1>11, <2>2 DEF Stop, Outcome
    <3> HIDE DEF r
    <3> QED BY <1>11, <3>1, KnownReturn
  <2> QED BY <2>1, <2>2
<1>12. CASE NegativeBackoff(o)
  BY <1>11, <1>12 DEF NegativeBackoff
<1>13. CASE SleepCancelled(o)
  BY <1>11, <1>13 DEF SleepCancelled
<1>14. CASE Retry(o)
  BY <1>14 DEF Retry, Known, returned, active, Base, TypeOK
<1> QED
  BY <1>1, <1>2, <1>3, <1>4, <1>5, <1>6, <1>7, <1>9, <1>10, <1>12, <1>13, <1>14
  DEF WriteExact

\* A step of one call changes no other.
LEMMA OthersKnown ==
  ASSUME Base, NEW o \in Op, NEW p \in Op, p # o, WriteExact(o), Known(p)
  PROVE  Known(p)'
<1> DEFINE same == /\ pc'[p] = pc[p] /\ uncertainty'[p] = uncertainty[p]
                   /\ lastErr'[p] = lastErr[p] /\ result'[p] = result[p]
<1> SUFFICES same
  BY DEF Known, returned, active
<1>1. ASSUME NEW err, NEW ok2xx, AttemptFailed(o, err, ok2xx) PROVE same
  BY <1>1 DEF AttemptFailed, Return, Base, TypeOK
<1>2. CASE SendLocalError(o) \/ Timeout(o) \/ \E d \in Damage : ReceiveError(o, d)
  BY <1>1, <1>2 DEF SendLocalError, Timeout, ReceiveError
<1>3. CASE Enter(o) \/ Top(o) \/ Send(o)
  BY <1>3 DEF Enter, Top, Send, Return, Base, TypeOK
<1>4. CASE \E d \in Damage, decodes \in BOOLEAN : ReceiveOK(o, d, decodes)
  BY <1>4 DEF ReceiveOK, Return, Base, TypeOK
<1>5. CASE CheckUnavailable(o) \/ Check(o)
  BY <1>5 DEF CheckUnavailable, Check, Return, Base, TypeOK
<1>6. CASE NegativeBackoff(o) \/ SleepCancelled(o) \/ Retry(o)
  BY <1>6 DEF NegativeBackoff, SleepCancelled, Retry, Stop, Return, Base, TypeOK
<1> QED BY <1>2, <1>3, <1>4, <1>5, <1>6 DEF WriteExact

LEMMA CauseStep ==
  ASSUME Base, CauseInv, [Next]_vars
  PROVE  CauseInv'
<1>1. CauseInv <=> \A o \in Op : Known(o)
  BY DEF CauseInv, Known
<1>2. CauseInv' <=> \A o \in Op : Known(o)'
  BY DEF CauseInv, Known
<1>3. ASSUME UNCHANGED <<pc, uncertainty, lastErr, result>> PROVE CauseInv'
  BY <1>3 DEF CauseInv, active, returned
<1>4. ASSUME NEW o \in Op, WriteExact(o) PROVE CauseInv'
  BY <1>1, <1>2, <1>4, KnownStep, OthersKnown
<1>5. CASE (\E o \in Op : Caller(o)) \/ Network \/ Operator \/ UNCHANGED vars
  BY <1>3, <1>5 DEF Caller, Cancel, Reuse, Network, Serve, Shed, Answered, Interpose,
                    TransportReplay, Operator, vars, client
<1> QED BY <1>4, <1>5 DEF Next

LEMMA CauseAlways == Spec => []CauseInv
<1>1. Init => CauseInv
  BY DEF Init, CauseInv, active, Certain, returned, Pending, Outcome
<1> QED BY <1>1, BaseAlways, CauseStep, PTL DEF Spec

-----------------------------------------------------------------------------
LEMMA Consed ==
  ASSUME NEW S, NEW x \in S
  PROVE  /\ <<>> \in Seq(S) /\ <<x>> \in Seq(S)
         /\ \A t \in Seq(S) : <<x>> \o t \in Seq(S)
OBVIOUS

\* Every error a call can wrap is a sequence of nodes, and that of an attempt
\* that went out carries its request ID.
LEMMA ErrorNodes ==
  ASSUME NEW n \in Nat, NEW inner \in InnerCause
  PROVE  /\ \A cause \in Cause : attemptError(cause, n, inner) \in Seq(Node)
         /\ \A why \in {"none", "identity", "changed", "ctx", "backoff"} :
              stopCause(why, inner) \in Seq(Node)
<1>1. /\ plain("unknown", 0) \in Node /\ plain("context_canceled", 0) \in Node
      /\ plain("context_deadline", 0) \in Node /\ plain("transport", n) \in Node
      /\ plain("response_too_large", n) \in Node /\ plain("protocol", n) \in Node
      /\ plain("decode", n) \in Node
      /\ node("api", n, 0, TRUE) \in Node /\ node("api", n, 0, FALSE) \in Node
  BY KnownTypes, PlainIsNode
<1>2. inner \in Seq(Node) /\ wrapped(inner) \in Seq(Node) /\ ctxError(inner) \in Seq(Node)
  <2>1. inner \in Seq(Node)
    BY <1>1, Consed, Zenon DEF InnerCause
  <2>2. wrapped(inner) \in Seq(Node)
    BY <1>1, <2>1, Consed, Zenon DEF wrapped
  <2>3. ctxError(inner) \in Seq(Node)
    BY <1>1, <2>1, Consed, Zenon DEF ctxError
  <2> QED BY <2>1, <2>2, <2>3
<1>3. /\ TransportError(n, wrapped(inner)) \in Seq(Node)
      /\ ResponseTooLargeError(n) \in Seq(Node) /\ ProtocolError(n, <<>>) \in Seq(Node)
      /\ DecodeError(n, <<>>) \in Seq(Node)
  BY <1>1, <1>2, Consed, Zenon
  DEF TransportError, ResponseTooLargeError, ProtocolError, DecodeError
<1>4. APIError(n, TRUE, <<>>) \in Seq(Node) /\ APIError(n, FALSE, <<>>) \in Seq(Node)
  BY <1>1, Consed, Zenon DEF APIError
<1>5. ASSUME NEW cause \in Cause PROVE attemptError(cause, n, inner) \in Seq(Node)
  <2>1. CASE cause \in {"none", "local", "transport", "tooLarge", "protocol", "decode"}
    BY <1>2, <1>3, <2>1 DEF attemptError
  <2>2. CASE cause = "retryable"
    <3>1. attemptError(cause, n, inner) = APIError(n, (cause = "retryable"), <<>>)
      BY <2>2 DEF attemptError
    <3>2. (cause = "retryable") = TRUE
      BY <2>2
    <3> QED BY <1>4, <3>1, <3>2
  <2>3. CASE cause \in {"overload", "refused"}
    <3>1. attemptError(cause, n, inner) = APIError(n, (cause = "retryable"), <<>>)
      BY <2>3 DEF attemptError
    <3>2. (cause = "retryable") = FALSE
      BY <2>3
    <3> QED BY <1>4, <3>1, <3>2
  <2> QED BY <2>1, <2>2, <2>3 DEF Cause, AttemptError
<1>6. ASSUME NEW why \in {"none", "identity", "changed", "ctx", "backoff"}
      PROVE  stopCause(why, inner) \in Seq(Node)
  BY <1>1, <1>2, <1>6 DEF stopCause
<1> QED BY <1>5, <1>6


\* The error of a failed identity check is a sequence of nodes.
LEMMA IdentityNodes == \A identity \in IdentityCause : identity \in Seq(Node)
<1> USE DaemonAssumption DEF DaemonAssumption
<1>1. IntrospectionID \in Nat
  BY DEF IntrospectionID
<1>2. /\ plain("transport", IntrospectionID) \in Node /\ plain("capability", 0) \in Node
      /\ node("api", IntrospectionID, 0, TRUE) \in Node
      /\ plain("context_canceled", 0) \in Node /\ plain("context_deadline", 0) \in Node
  BY <1>1, KnownTypes, PlainIsNode
<1>3. \A inner \in InnerCause : inner \in Seq(Node)
  BY <1>2, Consed, Zenon DEF InnerCause
<1>4. \A inner \in InnerCause : TransportError(IntrospectionID, inner) \in Seq(Node)
  BY <1>2, <1>3, Consed, Zenon DEF TransportError
<1>5. APIError(IntrospectionID, TRUE, <<>>) \in Seq(Node) /\ <<plain("capability", 0)>> \in Seq(Node)
  BY <1>2, Consed, Zenon DEF APIError
<1> QED BY <1>4, <1>5, Zenon DEF IdentityCause

\* errors.As stops at the outermost carrier.
LEMMA OuterID ==
  ASSUME NEW S, NEW x \in S, x.type \in Carrier, NEW t \in Seq(S)
  PROVE  RequestIDFromError(<<x>> \o t) = x.id
<1> DEFINE e == <<x>> \o t
           hit(i) == /\ e[i].type \in Carrier
                     /\ \A j \in DOMAIN e : j < i => e[j].type \notin Carrier
<1>1. DOMAIN e = 1..Len(e) /\ Len(e) \in Nat /\ Len(e) >= 1 /\ e[1] = x
  OBVIOUS
<1> HIDE DEF e
<1>2. 1 \in DOMAIN e /\ hit(1) /\ \A i \in DOMAIN e : hit(i) => i = 1
  BY <1>1
<1>3. (CHOOSE i \in DOMAIN e : hit(i)) = 1
  <2> HIDE DEF hit
  <2> QED BY <1>2
<1>4. as(e, Carrier) = x
  BY <1>1, <1>3 DEF as
<1>5. reaches(e, Carrier)
  BY <1>2 DEF reaches
<1>6. RequestIDFromError(e) = x.id
  BY <1>4, <1>5 DEF RequestIDFromError
<1> QED BY <1>6 DEF e

\* The error of an attempt that went out carries its request ID; a local
\* failure carries none.
LEMMA AttemptID ==
  ASSUME NEW n \in Nat, NEW inner \in InnerCause
  PROVE  /\ \A cause \in SentCause : RequestIDFromError(attemptError(cause, n, inner)) = n
         /\ RequestIDFromError(attemptError("local", n, inner)) = 0
<1>1. \A t \in Carrier, flag \in BOOLEAN :
        node(t, n, 0, flag).type \in Carrier /\ node(t, n, 0, flag).id = n
  BY DEF node
<1>2. /\ plain("transport", n) \in Node /\ plain("response_too_large", n) \in Node
      /\ plain("protocol", n) \in Node /\ plain("decode", n) \in Node
      /\ node("api", n, 0, TRUE) \in Node /\ node("api", n, 0, FALSE) \in Node
      /\ plain("unknown", 0) \in Node /\ plain("context_canceled", 0) \in Node
      /\ plain("context_deadline", 0) \in Node
  BY KnownTypes, PlainIsNode
<1>3. inner \in Seq(Node) /\ wrapped(inner) \in Seq(Node) /\ <<>> \in Seq(Node)
  <2>1. inner \in Seq(Node)
    BY <1>2, Consed, Zenon DEF InnerCause
  <2> QED BY <1>2, <2>1, Consed, Zenon DEF wrapped
<1>4. \A t \in Carrier : plain(t, n).type \in Carrier /\ plain(t, n).id = n
  BY DEF plain, node
<1>5. "transport" \in Carrier /\ "response_too_large" \in Carrier /\ "protocol" \in Carrier
      /\ "decode" \in Carrier /\ "api" \in Carrier
  BY DEF Carrier
<1>6. ResponseTooLargeError(n) = <<plain("response_too_large", n)>> \o <<>>
  BY <1>2, Consed DEF ResponseTooLargeError
<1>7. /\ RequestIDFromError(TransportError(n, wrapped(inner))) = n
      /\ RequestIDFromError(ResponseTooLargeError(n)) = n
      /\ RequestIDFromError(ProtocolError(n, <<>>)) = n
      /\ RequestIDFromError(DecodeError(n, <<>>)) = n
  <2> DEFINE x(t) == plain(t, n)
  <2>1. \A t \in {"transport", "response_too_large", "protocol", "decode"} :
          x(t) \in Node /\ x(t).type \in Carrier /\ x(t).id = n
    BY <1>2, <1>4, <1>5
  <2> HIDE DEF x
  <2>2. \A t \in {"transport", "response_too_large", "protocol", "decode"}, tail \in Seq(Node) :
          RequestIDFromError(<<x(t)>> \o tail) = n
    BY <2>1, OuterID
  <2>3. RequestIDFromError(<<x("transport")>> \o wrapped(inner)) = n
    BY <1>3, <2>2
  <2>4. /\ RequestIDFromError(<<x("response_too_large")>> \o <<>>) = n
        /\ RequestIDFromError(<<x("protocol")>> \o <<>>) = n
        /\ RequestIDFromError(<<x("decode")>> \o <<>>) = n
    BY <1>3, <2>2
  <2> QED
    BY <1>6, <2>3, <2>4, Zenon DEF x, TransportError, ProtocolError, DecodeError
<1>8. \A flag \in BOOLEAN : RequestIDFromError(APIError(n, flag, <<>>)) = n
  <2> SUFFICES ASSUME NEW flag \in BOOLEAN PROVE RequestIDFromError(APIError(n, flag, <<>>)) = n
    OBVIOUS
  <2>1. node("api", n, 0, flag) \in Node
    BY <1>2
  <2> DEFINE x == node("api", n, 0, flag)
  <2>2. x \in Node /\ x.type \in Carrier /\ x.id = n
    BY <1>1, <1>5, <2>1
  <2> HIDE DEF x
  <2>3. RequestIDFromError(<<x>> \o <<>>) = n
    BY <1>3, <2>2, OuterID
  <2> QED BY <2>3 DEF x, APIError
<1>9. ASSUME NEW cause \in SentCause
      PROVE  RequestIDFromError(attemptError(cause, n, inner)) = n
  <2>1. CASE cause \in {"transport", "tooLarge", "protocol", "decode"}
    BY <1>7, <2>1 DEF attemptError
  <2>2. CASE cause \in {"overload", "retryable", "refused"}
    <3> DEFINE flag == (cause = "retryable")
    <3>1. attemptError(cause, n, inner) = APIError(n, flag, <<>>)
      BY <2>2 DEF attemptError
    <3>2. flag \in BOOLEAN
      OBVIOUS
    <3> HIDE DEF flag
    <3> QED BY <1>8, <3>1, <3>2
  <2> QED BY <2>1, <2>2 DEF SentCause, Cause, AttemptError
<1>10. RequestIDFromError(attemptError("local", n, inner)) = 0
  <2>1. \A i \in DOMAIN wrapped(inner) :
          wrapped(inner)[i].type \in {"unknown", "context_canceled", "context_deadline"}
    <3>1. CASE inner = <<>>
      BY <3>1 DEF wrapped, plain, node
    <3>2. CASE inner = <<plain("context_canceled", 0)>>
      BY <3>2 DEF wrapped, plain, node
    <3>3. CASE inner = <<plain("context_deadline", 0)>>
      BY <3>3 DEF wrapped, plain, node
    <3> QED BY <3>1, <3>2, <3>3 DEF InnerCause
  <2>2. ~reaches(wrapped(inner), Carrier)
    BY <2>1 DEF reaches, Carrier
  <2> QED BY <2>2 DEF attemptError, RequestIDFromError
<1> QED BY <1>9, <1>10

\* What a caller reads off Classify's view is true, if the transport is honest:
\* the composition of the attempt loop (session.go), the wrapping of its errors
\* (errors.go) and their classification (classify.go).
THEOREM ClassifiedTruthHolds == ASSUME HonestTransport PROVE Spec => []ClassifiedTruth
<1> USE DaemonAssumption DEF DaemonAssumption
<1>1. ASSUME Base, CauseInv, IInv PROVE ClassifiedTruth
  <2> SUFFICES ASSUME NEW o \in Op, returned(o, Definite \cup {"uncertain"}),
                      NEW x \in Exposed(o), NEW n \in LastAttempt(o),
                      NEW inner \in InnerCause, NEW identity \in IdentityCause
               PROVE  LET info == Classify(wrapped(returnedError(o, n, inner, identity)))
                      IN  info.mayHaveCommitted /\ info.uncertainRequestID \in 1..x.attempt
    BY DEF ClassifiedTruth
  <2> DEFINE r == result[o]
             cause == attemptError(r.origin.cause, r.origin.attempt, inner)
             last == attemptError(r.last, n, inner)
             id == IF r.last = "none" THEN r.origin.attempt ELSE RequestIDFromError(last)
             ident == IF r.why = "identity" THEN identity ELSE <<>>
             rest == cause \o last \o ident \o stopCause(r.why, inner)
  <2>1. r.kind = "uncertain"
    BY <1>1 DEF IInv, DefiniteFailureNeverCommits, Exposed, returned
  <2>2. r.origin.cause \in SentCause /\ r.origin.attempt \in 1..MaxAttempts
    BY <1>1, <2>1 DEF CauseInv, returned
  <2>3. x.attempt >= r.origin.attempt /\ x.attempt \in 1..MaxAttempts
    BY <1>1, <2>1 DEF IInv, OriginBoundsCommit, returned, Exposed, ByOp, OnWire, Base, TypeOK,
                      Receipt, Request
  <2>4. RequestIDFromError(cause) = r.origin.attempt
    BY <2>2, AttemptID
  <2>5. r.last \in Cause /\ r.why \in {"none", "identity", "changed", "ctx", "backoff"}
    BY <1>1 DEF Base, TypeOK, Result
  <2>6. n \in Nat
    BY DEF LastAttempt
  <2>7. id \in Nat
    <3>1. r.last \in {"none", "local"} \cup SentCause
      BY <2>5 DEF SentCause
    <3>2. CASE r.last = "none"
      BY <2>2, <3>2
    <3>3. CASE r.last = "local"
      BY <2>6, <3>3, AttemptID
    <3>4. CASE r.last \in SentCause
      <4>1. r.last # "none"
        BY <3>4 DEF SentCause
      <4> QED BY <2>6, <3>4, <4>1, AttemptID
    <3> QED BY <3>1, <3>2, <3>3, <3>4
  <2>8. rest \in Seq(Node)
    <3>1. cause \in Seq(Node) /\ last \in Seq(Node) /\ stopCause(r.why, inner) \in Seq(Node)
      <4>1. r.origin.cause \in Cause /\ r.origin.attempt \in Nat
        BY <2>2 DEF SentCause
      <4>2. cause \in Seq(Node)
        BY <4>1, ErrorNodes
      <4>3. last \in Seq(Node)
        BY <2>5, <2>6, ErrorNodes
      <4>4. stopCause(r.why, inner) \in Seq(Node)
        BY <2>5, <2>6, ErrorNodes
      <4> QED BY <4>2, <4>3, <4>4
    <3>2. ident \in Seq(Node)
      <4>1. identity \in Seq(Node)
        BY IdentityNodes
      <4>2. <<>> \in Seq(Node)
        OBVIOUS
      <4> QED BY <4>1, <4>2
    <3> HIDE DEF cause, last, ident
    <3> QED BY <3>1, <3>2
  <2>9. returnedError(o, n, inner, identity)
          = <<node("uncertain_operation", id, r.origin.attempt, FALSE)>> \o rest
    <3>1. returnedError(o, n, inner, identity)
            = UncertainOperationError(id, RequestIDFromError(cause), cause, last, ident,
                                      stopCause(r.why, inner))
      BY <2>1 DEF returnedError
    <3>2. returnedError(o, n, inner, identity)
            = UncertainOperationError(id, r.origin.attempt, cause, last, ident,
                                      stopCause(r.why, inner))
      BY <2>4, <3>1
    <3> QED BY <3>2, Zenon DEF UncertainOperationError
  <2> DEFINE e == returnedError(o, n, inner, identity)
             origin == r.origin.attempt
  <2> HIDE DEF id, rest, e
  <2>10. origin \in Nat \ {0}
    BY <2>2
  <2>11. e = <<node("uncertain_operation", id, origin, FALSE)>> \o rest
    BY <2>9 DEF e
  <2> HIDE DEF origin
  <2>12. Classify(wrapped(e)).mayHaveCommitted /\ Classify(wrapped(e)).uncertainRequestID = origin
    BY <2>7, <2>8, <2>10, <2>11, UncertainWins
  <2>13. origin \in 1..x.attempt
    BY <2>2, <2>3 DEF origin
  <2> QED BY <2>12, <2>13 DEF e
<1> QED BY <1>1, BaseAlways, CauseAlways, TrackAlways, PTL
=============================================================================

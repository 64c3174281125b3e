----------------------------- MODULE WritePromise -----------------------------
(***************************************************************************)
(* What Session.WriteExact promises its callers, with no attempts, replies *)
(* or identities left: a call may take effect on the log at most once and  *)
(* only if no other call took its key before; it is told "success" only    *)
(* when the key holds its bytes, "failed" only if it has not taken effect  *)
(* and never will, and "unknown" when it may yet do either.                *)
(***************************************************************************)
CONSTANTS Op, KeyOf, BodyOf

VARIABLES outcome,   \* what each call has been told
          taken      \* the calls whose write the log holds

vars == <<outcome, taken>>

Init ==
  /\ outcome = [o \in Op |-> "pending"]
  /\ taken = {}

TakeEffect(o) ==
  /\ outcome[o] \in {"pending", "unknown"}
  /\ \A p \in taken : KeyOf[p] # KeyOf[o]
  /\ taken' = taken \cup {o}
  /\ UNCHANGED outcome

Tell(o, answer) ==
  /\ outcome[o] = "pending"
  /\ outcome' = [outcome EXCEPT ![o] = answer]
  /\ UNCHANGED taken

Succeed(o) ==
  /\ \E p \in taken : KeyOf[p] = KeyOf[o] /\ BodyOf[p] = BodyOf[o]
  /\ Tell(o, "success")

Fail(o) ==
  /\ o \notin taken
  /\ Tell(o, "failed")

GiveUp(o) == Tell(o, "unknown")

Next == \E o \in Op : TakeEffect(o) \/ Succeed(o) \/ Fail(o) \/ GiveUp(o)

Spec == Init /\ [][Next]_vars
=============================================================================

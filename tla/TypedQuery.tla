------------------------------ MODULE TypedQuery ------------------------------
(***************************************************************************)
(* query.Request: which typed queries Validate accepts and what Encode     *)
(* writes for them.  Constant-level; TypedReads sends them.                *)
(***************************************************************************)
EXTENDS Integers, Sequences

CONSTANTS Name,     \* texts, without the question marks they start with
          NotUTF8,  \* those that are not valid UTF-8
          Identity, \* log identities of 32 lowercase hexadecimal characters
          NoLog     \* the empty identity

ASSUME TypedQueryAssumption == "" \in Name /\ NotUTF8 \subseteq Name /\ NoLog \notin Identity

\* A label: leading question marks and the rest.
Label == [marks : Nat, name : Name]

Shapes == {"table", "graph", "document", "kv", "columnar"}
Representations == {"primitive_scan", "graph", "table", "document", "kv", "columnar"}
OrderFields == {"id", "subject", "predicate", "object", "object_number"}

\* A position that is not constrained; one that is, Labels(values...), is a set
\* flag and a sequence.
Anything == [set |-> FALSE, values |-> <<>>]
Labels(values) == [set |-> TRUE, values |-> values]

\* NumericBound and NumericRange: an absent bound is Unbounded.
Unbounded == -1
AnyNumber == [gt |-> Unbounded, gte |-> Unbounded, lt |-> Unbounded, lte |-> Unbounded]
NoRange == <<>>

\* A shape constructor with its list of fact-inclusion choices: makeReturn.
Return(shape, inclusions) ==
  [shape |-> shape,
   inclusion |-> IF Len(inclusions) = 1 THEN inclusions[1] ELSE "default",
   invalid |-> Len(inclusions) > 1]

Unconstrained == [tag |-> "unset", watermark |-> 0, log |-> NoLog]
ReadAfter(watermark, log) == [tag |-> "after", watermark |-> watermark, log |-> log]
OnLog(log) == [tag |-> "log", watermark |-> 0, log |-> log]

NoLimit == [set |-> FALSE, value |-> 0]

-----------------------------------------------------------------------------
(* Validate *)

validateLabels(l) ==
  l.set =>
    /\ l.values # <<>>
    /\ \A i \in 1..Len(l.values) :
         /\ l.values[i] # [marks |-> 0, name |-> ""]
         /\ l.values[i].name \notin NotUTF8
    /\ \A i, j \in 1..Len(l.values) : i # j => l.values[i] # l.values[j]

\* validateWhere: All, or at least one constrained position.
validateWhere(w) ==
  LET hasPosition == w.subject.set \/ w.predicate.set \/ w.object.set \/ w.number # NoRange IN
  IF w.all
    THEN ~hasPosition
    ELSE /\ hasPosition
         /\ validateLabels(w.subject) /\ validateLabels(w.predicate) /\ validateLabels(w.object)
         /\ w.number # NoRange =>
              /\ ~w.object.set
              /\ w.number.gt = Unbounded \/ w.number.gte = Unbounded
              /\ w.number.lt = Unbounded \/ w.number.lte = Unbounded

validateReturn(r) ==
  ~r.invalid /\ r.shape \in Shapes /\ r.inclusion \in {"default", "include", "exclude"}

validateOptimization(o) ==
  \/ o.tag = "auto" /\ o.representation = ""
  \/ o.tag = "force" /\ o.representation \in Representations

validateReadConstraint(c) ==
  \/ c.tag = "unset"
  \/ /\ \/ c.tag = "after" /\ c.watermark # 0
        \/ c.tag = "log" /\ c.watermark = 0
     /\ c.log \in Identity

validateOrder(r) ==
  /\ r.order # <<>> \/ r.offset > 0 => r.return.shape \notin {"graph", "kv"}
  /\ \A i \in 1..Len(r.order) :
       /\ r.order[i].direction \in {"", "asc", "desc"}
       /\ r.order[i].by \in OrderFields
       /\ \A j \in 1..i - 1 : r.order[j].by # r.order[i].by
       /\ r.order[i].by = "object_number" => r.where.number # NoRange /\ Len(r.order) = 1

\* Request.Validate: no error.
Validate(r) ==
  /\ validateWhere(r.where)
  /\ validateReturn(r.return)
  /\ r.where.number # NoRange => r.return.shape \in {"table", "document", "columnar"}
  /\ r.consistency \in {"", "strict", "fresh", "allow_stale"}
  /\ validateOptimization(r.optimization)
  /\ validateReadConstraint(r.constraint)
  /\ r.limit.set => r.limit.value >= 1
  /\ r.offset >= 0
  /\ validateOrder(r)

-----------------------------------------------------------------------------
(* Encode *)

\* Mutant: a leading question mark is written as it is.
escapeLabel_Bare(l) == l

\* escapeLabel: one more question mark in front of a leading one.
escapeLabel(l) == IF l.marks > 0 THEN [l EXCEPT !.marks = @ + 1] ELSE l

\* labelsWire: absent, a scalar, or a list.
labelsWire(l) ==
  [form |-> CASE ~l.set -> "absent" [] l.set /\ Len(l.values) = 1 -> "scalar" [] OTHER -> "list",
   labels |-> [i \in 1..Len(l.values) |-> escapeLabel(l.values[i])]]

\* Mutant: a watermark is sent without the log it belongs to.
constraintWire_NoLog(c) == [required_watermark |-> c.watermark, log_identity |-> NoLog]

\* required_watermark and log_identity; 0 and "" are omitted.
constraintWire(c) == [required_watermark |-> c.watermark, log_identity |-> c.log]

\* Encode.
Encode(r) ==
  [subject |-> labelsWire(r.where.subject), predicate |-> labelsWire(r.where.predicate),
   object |-> labelsWire(r.where.object), object_number |-> r.where.number,
   shape |-> r.return.shape, include_facts |-> r.return.inclusion,
   consistency |-> IF r.consistency = "" THEN "strict" ELSE r.consistency,
   optimize |-> r.optimization, constraint |-> constraintWire(r.constraint),
   limit |-> r.limit, order |-> r.order, offset |-> r.offset]
=============================================================================

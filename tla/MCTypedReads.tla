----------------------------- MODULE MCTypedReads -----------------------------
(***************************************************************************)
(* Queries that vary in one or two fields from a read by subject.          *)
(***************************************************************************)
EXTENDS TypedReads

CONSTANTS l1, l2  \* log identities

Text(m, t) == [marks |-> m, name |-> t]
AllLabels == {Text(m, t) : m \in 0..2, t \in {"", "p"}} \cup {Text(0, "bad"), Text(1, "bad")}
LabelSets == {Labels(<<>>)} \cup {Labels(<<l>>) : l \in AllLabels}
               \cup {Labels(<<Text(0, "p"), l>>) : l \in AllLabels}

Bounds == [gt : {Unbounded, 0}, gte : {Unbounded, 0}, lt : {Unbounded, 3}, lte : {Unbounded, 3}]

BySubject(shape) == [ReadAll(shape, Unconstrained) EXCEPT
                       !.where = [@ EXCEPT !.all = FALSE, !.subject = Labels(<<Text(0, "p")>>)]]
ByNumber(shape) == [BySubject(shape) EXCEPT
                      !.where = [@ EXCEPT !.subject = Anything, !.number = AnyNumber]]

Orders == {<<>>} \cup {<<[by |-> f, direction |-> d]>> :
                          f \in OrderFields \cup {"other"}, d \in {"", "desc", "other"}}
            \cup {<<[by |-> f, direction |-> ""], [by |-> g, direction |-> "asc"]>> :
                    f, g \in {"id", "subject", "object_number"}}

Vary(shape) ==
  LET r == BySubject(shape)
      n == ByNumber(shape)
  IN {r, n, [r EXCEPT !.where = [@ EXCEPT !.all = TRUE]],
      [r EXCEPT !.where = [@ EXCEPT !.subject = Anything]]}
     \cup {[r EXCEPT !.where = [@ EXCEPT !.subject = l]] : l \in LabelSets}
     \cup {[r EXCEPT !.where = [@ EXCEPT !.predicate = l]] : l \in LabelSets}
     \cup {[r EXCEPT !.where = [@ EXCEPT !.object = l]] : l \in LabelSets}
     \cup {[n EXCEPT !.where = [@ EXCEPT !.object = Labels(<<Text(0, "p")>>)]]}
     \cup {[n EXCEPT !.where = [@ EXCEPT !.number = b]] : b \in Bounds}
     \cup {[r EXCEPT !.return = Return(shape, i)] :
             i \in {<<"default">>, <<"include">>, <<"exclude">>, <<"other">>, <<"include", "exclude">>}}
     \cup {[r EXCEPT !.consistency = c] : c \in {"strict", "fresh", "allow_stale", "other"}}
     \cup {[r EXCEPT !.optimization = [tag |-> t, representation |-> p]] :
             t \in {"auto", "force", "other"}, p \in {"", "kv", "other"}}
     \cup {[r EXCEPT !.limit = [set |-> TRUE, value |-> v]] : v \in 0..1}
     \cup {[q EXCEPT !.order = o, !.offset = f] : q \in {r, n}, o \in Orders, f \in {-1, 0, 1}}
     \cup {[r EXCEPT !.constraint = [tag |-> "other", watermark |-> 0, log |-> NoLog]],
           [r EXCEPT !.constraint = [tag |-> "log", watermark |-> 1, log |-> NoLog]]}

\* Every variation for two shapes, and the plain read for all and for none.
SomeRequests == Vary("table") \cup Vary("kv")
                  \cup {BySubject(s) : s \in Shapes \cup {""}} \cup {ByNumber(s) : s \in Shapes}
=============================================================================

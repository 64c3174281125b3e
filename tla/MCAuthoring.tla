----------------------------- MODULE MCAuthoring -----------------------------
(***************************************************************************)
(* Sessions that differ in prefix and key limit, one that is read-only,    *)
(* and one for every feature that may be missing.  Calls vary the request  *)
(* under one key, or the key under one request.                            *)
(***************************************************************************)
EXTENDS Authoring

CONSTANTS f1, f2, f3  \* fact IDs; f3 is not canonical

\* Characters: a, b, a digit, ':' and one that no token may have.
a == <<1>>
b == <<2>>
n == <<3>>
colon == <<4>>
space == <<5>>

Char == {a, b, n, colon, space}
AB == {a, b}
ABN == {a, b, n}
Token == {a, b, n, colon}
JoeyDomain == <<a, n>>

UpTo(S, k) == UNION {[1..j -> S] : j \in 0..k}

Base == [prefix |-> <<a>>, maxBytes |-> 6, writable |-> TRUE, features |-> Feature]

SomeSessions ==
  {Base, [Base EXCEPT !.writable = FALSE]}
    \cup {[Base EXCEPT !.prefix = p, !.maxBytes = m] :
            p \in {<<>>, <<a>>, <<a, a>>, <<a, colon>>}, m \in {3, 5}}
    \cup {[Base EXCEPT !.features = Feature \ {f}] : f \in Feature}

-----------------------------------------------------------------------------
Entity(l) == [tag |-> "entity", label |-> l, number |-> 0]
Number(k) == [tag |-> "number", label |-> "", number |-> k]
Unset == [tag |-> "unset", label |-> "", number |-> 0]
Never == [tag |-> "unset", ns |-> 0]

\* Durations and times around the ends of int64, two of them one wrap apart.
Deadlines == {Never} \cup [tag : {"after"}, ns : {-1, 0, 1, 2, 3, 4, 7}]
                     \cup [tag : {"at"}, ns : {-1, 0, 1, 7, 8, 17}]

\* An entry of a kind as simple as can be, and its variations.
Plain(k) ==
  [kind |-> k, slot |-> IF k \in {"retractFact", "retractZero", "expire", "persist"} THEN "" ELSE "p",
   object |-> IF k \in {"retractFact", "retractSlot", "retractZero", "expire", "persist"}
                THEN Unset ELSE Entity("p"),
   fact |-> IF k \in {"retractFact", "correct", "correctWithMode", "expire", "persist"}
              THEN f1 ELSE NoFact,
   tense |-> "", raw |-> "",
   deadline |-> IF k = "expire" THEN [tag |-> "after", ns |-> 2] ELSE Never]

Recorded == {"append", "ensure", "replace", "correct"}
Objects == {Entity("p"), Entity(""), Entity("x1"), Number(0), Number(3), Number(4), Unset}

Variations(k) ==
  LET e == Plain(k) IN
  {e}
    \cup (IF e.slot = "" THEN {} ELSE {[e EXCEPT !.slot = t] : t \in Text})
    \cup (IF e.object = Unset THEN {} ELSE {[e EXCEPT !.object = o] : o \in Objects})
    \cup (IF e.fact = NoFact THEN {} ELSE {[e EXCEPT !.fact = x] : x \in Fact})
    \cup (IF k \notin Recorded THEN {} ELSE {[e EXCEPT !.tense = t] : t \in Text})
    \cup (IF k \notin Recorded THEN {} ELSE {[e EXCEPT !.raw = t] : t \in Text})
    \cup (IF k \notin Recorded \cup {"expire"} THEN {} ELSE {[e EXCEPT !.deadline = d] : d \in Deadlines})

Plainly(items) ==
  [items |-> items,
   vocabulary |-> IF \E j \in 1..Len(items) : items[j].kind \in Creating THEN "create" ELSE "",
   time |-> [tag |-> "unset", ns |-> 0]]

One(k) == Plainly(<<Plain(k)>>)
Two == {Plainly(<<Plain(k), [Plain(l) EXCEPT !.slot = IF Plain(l).slot = "" THEN "" ELSE "r",
                                             !.fact = IF Plain(l).fact = NoFact THEN NoFact ELSE f2]>>) :
          <<k, l>> \in {<<"append", "correct">>, <<"retractExact", "correct">>,
                        <<"ensure", "expire">>, <<"retractFact", "persist">>}}
Timed == {[One("persist") EXCEPT !.time = [tag |-> t, ns |-> x]] :
            t \in {"at", "nanoseconds"}, x \in {-8, -1, 0, 1}}
           \cup {[One("persist") EXCEPT !.time = [tag |-> "at", ns |-> x]] : x \in {8, 17}}
Worded == {[One(k) EXCEPT !.vocabulary = v] : k \in {"append", "persist"}, v \in Mode}

\* Requests that vary in one entry, for the base session.
Rich == (UNION {{Plainly(<<e>>) : e \in Variations(k)} : k \in ItemKind})
          \cup Timed \cup Worded \cup Two
          \cup {Plainly(<<>>), Plainly(<<Plain("persist"), Plain("persist")>>)}

\* Valid requests that need each feature, for the sessions that miss one.
Needy == {One(k) : k \in Kind} \cup Two \cup {One("append"), [One("append") EXCEPT !.vocabulary = "reject"]}
           \cup {Plainly(<<[Plain(k) EXCEPT !.object = o, !.deadline = d]>>) :
                   k \in {"append", "correct"}, o \in {Entity("p"), Number(3)},
                   d \in {Never, [tag |-> "after", ns |-> 4], [tag |-> "at", ns |-> 7]}}
           \cup {Plainly(<<[Plain("expire") EXCEPT !.deadline = [tag |-> "at", ns |-> 7]]>>),
                 Plainly(<<[Plain("retractExact") EXCEPT !.object = Number(3)]>>)}

-----------------------------------------------------------------------------
Values == UpTo({a, colon, space}, 3) \cup UpTo({a, n}, 4)
Operation == [namespace : {<<a>>, <<b>>, <<a, n>>, <<n>>, <<a, a, a>>},
              parts : {<<>>, <<<<>>>>, <<<<a>>>>, <<<<a>>, <<>>>>, <<<<a>>, <<b>>>>,
                       <<<<a, b>>, <<>>>>, <<<<>>, <<a, b>>>>}]

Call(r, k, o) == [request |-> r, key |-> k, operation |-> o]
AKey == WriteKey("suffix", <<b>>)

SomeCalls ==
  [s \in SomeSessions |->
     CASE s = Base -> {Call(r, AKey, NoOperation) : r \in Rich}
       [] s.features # Feature \/ ~s.writable -> {Call(r, AKey, NoOperation) : r \in Needy}
       [] OTHER ->
            {Call(One("persist"), WriteKey(t, v), NoOperation) : t \in {"suffix", "full"}, v \in Values}
              \cup {Call(One("persist"), NoKey, o) : o \in Operation \cup {NoOperation}}]
=============================================================================

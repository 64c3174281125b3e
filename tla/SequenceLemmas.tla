---------------------------- MODULE SequenceLemmas ----------------------------
(***************************************************************************)
(* Induction over the naturals, and what it gives about sequences that are *)
(* put together from others: when the parts can be told from the whole.    *)
(*                                                                         *)
(* Induction is stated with a set in the place of a formula, from the fact *)
(* that < is well founded.                                                 *)
(***************************************************************************)
EXTENDS Integers, SequencesExt, SequenceTheorems, WellFoundedInduction, TLAPS

\* A set of naturals has a least element.
LEMMA Least ==
  ASSUME NEW S \in SUBSET Nat, S # {}
  PROVE  \E m \in S : \A k \in S : m <= k
<1>. DEFINE R == OpToRel(<, Nat)
<1>1. IsWellFoundedOn(R, Nat)
  BY NatLessThanWellFounded
<1>2. \A k, m \in Nat : <<k, m>> \in R <=> k < m
  BY DEF OpToRel
<1>. HIDE DEF R
<1>3. PICK m \in S : \A k \in S : ~(<<k, m>> \in R)
  BY <1>1, WFMin
<1>4. \A k \in S : ~(k < m)
  BY <1>2, <1>3, Zenon
<1>. QED BY <1>4

\* A set of naturals that contains 0 and each successor contains them all.
LEMMA Induction ==
  ASSUME NEW S, 0 \in S, \A n \in Nat : n \in S => n + 1 \in S
  PROVE  Nat \subseteq S
<1>. SUFFICES ASSUME Nat \ S # {} PROVE FALSE
  OBVIOUS
<1>1. PICK m \in Nat \ S : \A k \in Nat \ S : m <= k
  BY Least
<1>2. m - 1 \in Nat /\ m - 1 \in S
  BY <1>1
<1>. QED BY <1>1, <1>2

\* FlattenSeq puts one sequence of s after the other.
LEMMA Flattened ==
  ASSUME NEW D, NEW s \in Seq(Seq(D)), Len(s) > 0
  PROVE  \E f : /\ \A i \in 1..Len(s) : f[i] \in Seq(D)
                /\ f[1] = s[1]
                /\ \A i \in 2..Len(s) : f[i] = f[i - 1] \o s[i]
                /\ FlattenSeq(s) = f[Len(s)]
<1>. DEFINE Unfolds(f, m) == f = [i \in 1..m |-> IF i = 1 THEN s[i] ELSE f[i - 1] \o s[i]]
            Defined == {m \in Nat : \E f : Unfolds(f, m)}
            flatten == CHOOSE f : Unfolds(f, Len(s))
            Typed == {m \in Nat : m + 1 \in 1..Len(s) => flatten[m + 1] \in Seq(D)}
<1>1. Len(s) \in Nat /\ \A i \in 1..Len(s) : s[i] \in Seq(D)
  OBVIOUS
<1>2. Nat \subseteq Defined
  <2>1. 0 \in Defined
    <3>1. Unfolds([i \in 1..0 |-> <<>>], 0)
      OBVIOUS
    <3>. QED BY <3>1
  <2>2. ASSUME NEW m \in Nat, m \in Defined
        PROVE  m + 1 \in Defined
    <3>1. PICK f : Unfolds(f, m)
      BY <2>2
    <3>. DEFINE g == [i \in 1..m + 1 |->
                        IF i = 1 THEN s[i] ELSE IF i <= m THEN f[i] ELSE f[m] \o s[i]]
    <3>2. \A i \in 1..m + 1 : g[i] = IF i = 1 THEN s[i] ELSE g[i - 1] \o s[i]
      <4>1. \A i \in 1..m : f[i] = IF i = 1 THEN s[i] ELSE f[i - 1] \o s[i]
        BY <3>1
      <4>2. \A i \in 1..m : g[i] = f[i]
        BY <4>1
      <4>3. ASSUME NEW i \in 1..m PROVE g[i] = IF i = 1 THEN s[i] ELSE g[i - 1] \o s[i]
        <5>1. i # 1 => i - 1 \in 1..m
          OBVIOUS
        <5>. HIDE DEF g
        <5>. QED BY <4>1, <4>2, <5>1
      <4>4. g[m + 1] = IF m + 1 = 1 THEN s[m + 1] ELSE f[m] \o s[m + 1]
        OBVIOUS
      <4>5. m + 1 # 1 => m \in 1..m /\ (m + 1) - 1 = m
        OBVIOUS
      <4>. HIDE DEF g
      <4>6. g[m + 1] = IF m + 1 = 1 THEN s[m + 1] ELSE g[(m + 1) - 1] \o s[m + 1]
        BY <4>2, <4>4, <4>5
      <4>7. \A i \in 1..m + 1 : i \in 1..m \/ i = m + 1
        OBVIOUS
      <4>. QED BY <4>3, <4>6, <4>7
    <3>3. DOMAIN g = 1..m + 1 /\ g = [i \in 1..m + 1 |-> g[i]]
      OBVIOUS
    <3>. HIDE DEF g
    <3>4. Unfolds(g, m + 1)
      BY <3>2, <3>3
    <3>. HIDE DEF Unfolds
    <3>. QED BY <3>4
  <2>. HIDE DEF Defined
  <2>. QED BY <2>1, <2>2, Induction
<1>3. Unfolds(flatten, Len(s))
  <2>1. \E f : Unfolds(f, Len(s))
    BY <1>1, <1>2
  <2>. HIDE DEF Unfolds
  <2>. QED BY <2>1
<1>4. FlattenSeq(s) = flatten[Len(s)]
  BY DEF FlattenSeq
<1>. HIDE DEF flatten
<1>5. flatten[1] = s[1] /\ \A i \in 2..Len(s) : flatten[i] = flatten[i - 1] \o s[i]
  <2>1. \A i \in 1..Len(s) :
          flatten[i] = IF i = 1 THEN s[i] ELSE flatten[i - 1] \o s[i]
    BY <1>3, Zenon
  <2>2. 1 \in 1..Len(s) /\ \A i \in 2..Len(s) : i \in 1..Len(s) /\ i # 1
    BY <1>1
  <2>. QED BY <2>1, <2>2, Zenon
<1>6. Nat \subseteq Typed
  <2>1. 0 \in Typed
    BY <1>1, <1>5
  <2>2. ASSUME NEW m \in Nat, m \in Typed
        PROVE  m + 1 \in Typed
    <3>. SUFFICES ASSUME m + 2 \in 1..Len(s) PROVE flatten[m + 2] \in Seq(D)
      OBVIOUS
    <3>1. flatten[m + 1] \in Seq(D) /\ s[m + 2] \in Seq(D)
      BY <1>1, <2>2
    <3>2. m + 2 \in 2..Len(s) /\ (m + 2) - 1 = m + 1
      BY <1>1
    <3>3. flatten[m + 2] = flatten[m + 1] \o s[m + 2]
      BY <1>5, <3>2, Zenon
    <3>. QED BY <3>1, <3>3
  <2>. HIDE DEF Typed
  <2>. QED BY <2>1, <2>2, Induction
<1>7. ASSUME NEW i \in 1..Len(s) PROVE flatten[i] \in Seq(D)
  <2>1. i - 1 \in Typed
    BY <1>1, <1>6
  <2>. QED BY <1>1, <2>1
<1>. QED BY <1>4, <1>5, <1>7

-----------------------------------------------------------------------------
\* Concatenations are cut where both have a part of the same length.
LEMMA Cut ==
  ASSUME NEW D, NEW a \in Seq(D), NEW b \in Seq(D), NEW u \in Seq(D), NEW v \in Seq(D),
         Len(a) = Len(b), a \o u = b \o v
  PROVE  a = b /\ u = v
<1>. DEFINE w == a \o u
<1>1. Len(a) \in Nat /\ Len(u) \in Nat /\ Len(v) \in Nat
  BY LenProperties
<1>2. /\ Len(w) = Len(a) + Len(u)
      /\ \A i \in 1..Len(a) + Len(u) : w[i] = IF i <= Len(a) THEN a[i] ELSE u[i - Len(a)]
  BY ConcatProperties, Zenon
<1>3. /\ Len(w) = Len(a) + Len(v)
      /\ \A i \in 1..Len(a) + Len(v) : w[i] = IF i <= Len(a) THEN b[i] ELSE v[i - Len(a)]
  <2>1. /\ Len(b \o v) = Len(b) + Len(v)
        /\ \A i \in 1..Len(b) + Len(v) :
             (b \o v)[i] = IF i <= Len(b) THEN b[i] ELSE v[i - Len(b)]
    BY ConcatProperties, Zenon
  <2>2. w = b \o v
    OBVIOUS
  <2>. HIDE DEF w
  <2>. QED BY <2>1, <2>2
<1>. HIDE DEF w
<1>4. Len(u) = Len(v)
  BY <1>1, <1>2, <1>3
<1>5. \A i \in 1..Len(a) : a[i] = b[i]
  BY <1>1, <1>2, <1>3
<1>6. ASSUME NEW i \in 1..Len(u) PROVE u[i] = v[i]
  <2>. DEFINE k == Len(a) + i
  <2>1. k \in 1..Len(a) + Len(u) /\ ~(k <= Len(a)) /\ k - Len(a) = i
    BY <1>1
  <2>. HIDE DEF k
  <2>2. w[k] = u[k - Len(a)] /\ w[k] = v[k - Len(a)]
    BY <1>2, <1>3, <1>4, <2>1
  <2>. QED BY <2>1, <2>2
<1>7. a = b
  BY <1>5, SeqEqual, Zenon
<1>8. u = v
  BY <1>4, <1>6, SeqEqual, Zenon
<1>. QED BY <1>7, <1>8

\* Concatenation, for the provers only a function with these properties.
Cat(a, b) == a \o b

LEMMA CatProperties ==
  ASSUME NEW D, NEW a \in Seq(D), NEW b \in Seq(D), NEW c \in Seq(D)
  PROVE  /\ Cat(a, b) \in Seq(D)
         /\ Cat(Cat(a, b), c) = Cat(a, Cat(b, c))
         /\ Cat(a, b) = Cat(a, c) => b = c
<1>1. (a \o b) \o c = a \o (b \o c)
  BY ConcatAssociative
<1>2. a \o b = a \o c => b = c
  BY Cut
<1>3. a \o b \in Seq(D)
  OBVIOUS
<1>. QED BY <1>1, <1>2, <1>3 DEF Cat

\* No word of S begins another.
PrefixFree(S, D) ==
  /\ S \subseteq Seq(D)
  /\ \A x, y \in S : \A u, v \in Seq(D) : x \o u = y \o v => x = y

\* Texts that agree after a and b are the same.
Aligned(a, b, D) == \A p, q \in Seq(D) : Cat(a, p) = Cat(b, q) => p = q

\* What is read off two texts that agree, after what was read before.
LEMMA NextWord ==
  ASSUME NEW D, NEW S, PrefixFree(S, D),
         NEW a \in Seq(D), NEW b \in Seq(D), NEW x \in S, NEW y \in S,
         NEW u \in Seq(D), NEW v \in Seq(D), Cat(Cat(a, x), u) = Cat(Cat(b, y), v),
         Aligned(a, b, D)
  PROVE  /\ x = y /\ u = v
         /\ \E p, q \in Seq(D) : Cat(a, p) = Cat(b, q)
<1>1. x \in Seq(D) /\ y \in Seq(D)
  BY DEF PrefixFree
<1>2. Cat(x, u) \in Seq(D) /\ Cat(y, v) \in Seq(D)
  BY <1>1, CatProperties
<1>3. Cat(Cat(a, x), u) = Cat(a, Cat(x, u)) /\ Cat(Cat(b, y), v) = Cat(b, Cat(y, v))
  BY <1>1, CatProperties
<1>4. Cat(x, u) = Cat(y, v) /\ Cat(a, Cat(x, u)) = Cat(b, Cat(y, v))
  BY <1>2, <1>3 DEF Aligned
<1>5. x = y
  BY <1>4 DEF PrefixFree, Cat
<1>6. u = v
  BY <1>1, <1>4, <1>5, CatProperties
<1>. QED BY <1>2, <1>4, <1>5, <1>6

\* Equally many words of a prefix-free code can be read off their concatenation.
LEMMA CodesDistinguish ==
  ASSUME NEW D, NEW S, PrefixFree(S, D),
         NEW s \in Seq(S), NEW t \in Seq(S), Len(s) = Len(t), FlattenSeq(s) = FlattenSeq(t)
  PROVE  s = t
<1>1. s \in Seq(Seq(D)) /\ t \in Seq(Seq(D)) /\ Len(s) \in Nat
  BY DEF PrefixFree
<1>2. CASE Len(s) = 0
  <2>1. \A i \in 1..Len(s) : s[i] = t[i]
    BY <1>2
  <2>. QED BY <2>1, SeqEqual, Zenon
<1>3. CASE Len(s) > 0
  <2>1. PICK f : /\ \A i \in 1..Len(s) : f[i] \in Seq(D)
                 /\ f[1] = s[1]
                 /\ \A i \in 2..Len(s) : f[i] = Cat(f[i - 1], s[i])
                 /\ FlattenSeq(s) = f[Len(s)]
    BY <1>1, <1>3, Flattened DEF Cat
  <2>2. PICK g : /\ \A i \in 1..Len(t) : g[i] \in Seq(D)
                 /\ g[1] = t[1]
                 /\ \A i \in 2..Len(t) : g[i] = Cat(g[i - 1], t[i])
                 /\ FlattenSeq(t) = g[Len(t)]
    BY <1>1, <1>3, Flattened DEF Cat
  <2>. DEFINE Same(m) == \A i \in 1..m : s[i] = t[i]
              Told(m) == \A p, q \in Seq(D) : Cat(f[m], p) = Cat(g[m], q) => Same(m) /\ p = q
              Good == {m \in Nat : m + 1 \in 1..Len(s) => Told(m + 1)}
  <2>3. 0 \in Good
    <3>1. s[1] \in S /\ t[1] \in S /\ f[1] = s[1] /\ g[1] = t[1]
      BY <1>3, <2>1, <2>2
    <3>2. s[1] = t[1] => Same(1)
      OBVIOUS
    <3>3. ASSUME NEW p \in Seq(D), NEW q \in Seq(D), Cat(f[1], p) = Cat(g[1], q)
          PROVE  Same(1) /\ p = q
      <4>. HIDE DEF Same
      <4>1. s[1] = t[1]
        BY <3>1, <3>3 DEF PrefixFree, Cat
      <4>2. s[1] \in Seq(D)
        BY <3>1 DEF PrefixFree
      <4>3. p = q
        BY <3>1, <3>3, <4>1, <4>2, CatProperties
      <4>. QED BY <3>2, <4>1, <4>3
    <3>4. Told(1)
      BY <3>3, Zenon
    <3>. HIDE DEF Told
    <3>. QED BY <3>4
  <2>4. ASSUME NEW m \in Nat, m \in Good
        PROVE  m + 1 \in Good
    <3>1. ASSUME m + 2 \in 1..Len(s), NEW p \in Seq(D), NEW q \in Seq(D),
                 Cat(f[m + 2], p) = Cat(g[m + 2], q)
          PROVE  Same(m + 2) /\ p = q
      <4>1. /\ m + 1 \in 1..Len(s) /\ m + 2 \in 1..Len(s) /\ m + 2 \in 2..Len(s)
            /\ (m + 2) - 1 = m + 1
        BY <1>1, <3>1
      <4>2. s[m + 2] \in S /\ t[m + 2] \in S /\ f[m + 1] \in Seq(D) /\ g[m + 1] \in Seq(D)
        BY <2>1, <2>2, <4>1
      <4>3. f[m + 2] = Cat(f[m + 1], s[m + 2]) /\ g[m + 2] = Cat(g[m + 1], t[m + 2])
        BY <2>1, <2>2, <4>1
      <4>4. Told(m + 1)
        BY <2>4, <4>1
      <4>5. Same(m + 1) /\ s[m + 2] = t[m + 2] => Same(m + 2)
        OBVIOUS
      <4>. HIDE DEF Same
      <4>9. Aligned(f[m + 1], g[m + 1], D)
        BY <4>4, Zenon DEF Aligned
      <4>6. Cat(Cat(f[m + 1], s[m + 2]), p) = Cat(Cat(g[m + 1], t[m + 2]), q)
        BY <3>1, <4>3
      <4>7. /\ s[m + 2] = t[m + 2] /\ p = q
            /\ \E x, y \in Seq(D) : Cat(f[m + 1], x) = Cat(g[m + 1], y)
        BY <3>1, <4>2, <4>9, <4>6, NextWord
      <4>8. Same(m + 1)
        BY <4>4, <4>7, Zenon
      <4>. QED BY <4>5, <4>7, <4>8
    <3>2. m + 2 \in 1..Len(s) => Told(m + 2)
      BY <3>1, Zenon
    <3>. HIDE DEF Told
    <3>. QED BY <3>2
  <2>5. Told(Len(s))
    <3>. HIDE DEF Told, Good
    <3>1. Nat \subseteq Good
      BY <2>3, <2>4, Induction
    <3>2. Len(s) - 1 \in Good
      BY <1>1, <1>3, <3>1
    <3>. QED BY <1>1, <1>3, <3>2 DEF Good
  <2>6. f[Len(s)] = g[Len(s)]
    BY <2>1, <2>2
  <2>7. Cat(f[Len(s)], <<>>) = Cat(g[Len(s)], <<>>) /\ <<>> \in Seq(D)
    BY <2>6
  <2>8. \A i \in 1..Len(s) : s[i] = t[i]
    BY <2>5, <2>7, Zenon
  <2>. QED BY <2>8, SeqEqual, Zenon
<1>. QED BY <1>1, <1>2, <1>3
=============================================================================

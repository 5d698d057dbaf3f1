----------------------------- MODULE ListFacts -----------------------------
(***************************************************************************)
(* What the operations on linked lists and stacks of the library do to the *)
(* length, the elements, the injectivity and the last element of the       *)
(* sequence that models them, and how the cardinality of a finite set      *)
(* changes with one element.                                               *)
(***************************************************************************)
EXTENDS Integers, FiniteSets, SequencesExt, FiniteSetTheorems,
        SequenceTheorems, TLAPS

\* Pushing on the head side of a list.
LEMMA ConsFacts ==
  ASSUME NEW S, NEW s \in Seq(S), NEW m \in S
  PROVE  /\ <<m>> \o s \in Seq(S)
         /\ Len(<<m>> \o s) = Len(s) + 1
         /\ ToSet(<<m>> \o s) = {m} \cup ToSet(s)
         /\ IsInjective(s) /\ m \notin ToSet(s) => IsInjective(<<m>> \o s)
         /\ s # <<>> => Last(<<m>> \o s) = Last(s)
         /\ Last(<<m>> \o <<>>) = m
<1> DEFINE c == <<m>> \o s
<1>1. c \in Seq(S) /\ Len(c) = Len(s) + 1
  OBVIOUS
<1>2. c[1] = m /\ \A i \in 1..Len(s) : c[i + 1] = s[i]
  OBVIOUS
<1>3. \A i \in 2..Len(c) : i - 1 \in 1..Len(s) /\ c[i] = s[i - 1]
  BY <1>1, <1>2
<1>4. DOMAIN c = 1..Len(c) /\ DOMAIN s = 1..Len(s)
  BY <1>1
<1>5. ToSet(c) = {m} \cup ToSet(s)
  <2>1. ASSUME NEW x \in ToSet(c) PROVE x \in {m} \cup ToSet(s)
    BY <2>1, <1>1, <1>2, <1>3, <1>4 DEF ToSet
  <2>2. m \in ToSet(c)
    BY <1>1, <1>2, <1>4 DEF ToSet
  <2>3. ASSUME NEW x \in ToSet(s) PROVE x \in ToSet(c)
    <3>1. PICK i \in 1..Len(s) : x = s[i]
      BY <1>4 DEF ToSet
    <3>2. i + 1 \in 1..Len(c) /\ c[i + 1] = x
      BY <3>1, <1>1, <1>2
    <3> QED BY <3>2, <1>4 DEF ToSet
  <2> QED BY <2>1, <2>2, <2>3
<1>6. IsInjective(s) /\ m \notin ToSet(s) => IsInjective(c)
  <2> SUFFICES ASSUME IsInjective(s), m \notin ToSet(s),
                      NEW i \in 1..Len(c), NEW j \in 1..Len(c), c[i] = c[j]
               PROVE  i = j
    BY <1>4 DEF IsInjective
  <2>1. \A k \in 1..Len(s) : s[k] # m
    BY <1>4 DEF ToSet
  <2>2. CASE i = 1 \/ j = 1
    BY <2>1, <2>2, <1>2, <1>3
  <2>3. CASE i # 1 /\ j # 1
    <3>1. s[i - 1] = s[j - 1] /\ i - 1 \in 1..Len(s) /\ j - 1 \in 1..Len(s)
      BY <2>3, <1>3
    <3> QED BY <3>1, <1>4 DEF IsInjective
  <2> QED BY <2>2, <2>3
<1>7. s # <<>> => Last(c) = Last(s)
  BY <1>1, <1>2 DEF Last
<1>8. Last(<<m>> \o <<>>) = m
  BY DEF Last
<1> QED BY <1>1, <1>5, <1>6, <1>7, <1>8

\* Taking the head of a list.
LEMMA TailFacts ==
  ASSUME NEW S, NEW s \in Seq(S), s # <<>>
  PROVE  /\ Tail(s) \in Seq(S) /\ Head(s) \in S
         /\ Len(Tail(s)) = Len(s) - 1 /\ Len(s) \in Nat \ {0}
         /\ ToSet(s) = {Head(s)} \cup ToSet(Tail(s))
         /\ IsInjective(s) => IsInjective(Tail(s)) /\ Head(s) \notin ToSet(Tail(s))
         /\ Tail(s) # <<>> => Last(Tail(s)) = Last(s)
<1> DEFINE t == Tail(s)
<1>1. t \in Seq(S) /\ Len(t) = Len(s) - 1 /\ Len(s) \in Nat \ {0} /\ Head(s) \in S
  OBVIOUS
<1>2. Head(s) = s[1] /\ \A i \in 1..Len(t) : t[i] = s[i + 1] /\ i + 1 \in 1..Len(s)
  BY <1>1
<1>3. DOMAIN s = 1..Len(s) /\ DOMAIN t = 1..Len(t)
  BY <1>1
<1>4. \A i \in 2..Len(s) : i - 1 \in 1..Len(t) /\ s[i] = t[i - 1]
  <2> SUFFICES ASSUME NEW i \in 2..Len(s) PROVE i - 1 \in 1..Len(t) /\ s[i] = t[i - 1]
    OBVIOUS
  <2>1. i - 1 \in 1..Len(t) /\ (i - 1) + 1 = i
    BY <1>1
  <2>2. t[i - 1] = s[(i - 1) + 1]
    BY <2>1, <1>2
  <2> QED BY <2>1, <2>2
<1>5. ToSet(s) = {Head(s)} \cup ToSet(t)
  <2>1. ASSUME NEW x \in ToSet(s) PROVE x \in {Head(s)} \cup ToSet(t)
    <3>1. PICK i \in 1..Len(s) : x = s[i]
      BY <1>3 DEF ToSet
    <3>2. i = 1 \/ i \in 2..Len(s)
      BY <1>1
    <3>3. CASE i = 1
      BY <3>1, <3>3, <1>2
    <3>4. CASE i \in 2..Len(s)
      BY <3>1, <3>4, <1>3, <1>4, Zenon DEF ToSet
    <3> QED BY <3>2, <3>3, <3>4
  <2>2. Head(s) \in ToSet(s)
    BY <1>1, <1>2, <1>3 DEF ToSet
  <2>3. ASSUME NEW x \in ToSet(t) PROVE x \in ToSet(s)
    BY <1>1, <1>2, <1>3 DEF ToSet
  <2> QED BY <2>1, <2>2, <2>3
<1>6. ASSUME IsInjective(s) PROVE IsInjective(t) /\ Head(s) \notin ToSet(t)
  <2>1. ASSUME NEW i \in 1..Len(t), NEW j \in 1..Len(t), t[i] = t[j] PROVE i = j
    <3>1. s[i + 1] = s[j + 1] /\ i + 1 \in 1..Len(s) /\ j + 1 \in 1..Len(s)
      BY <2>1, <1>2
    <3>2. i + 1 = j + 1
      BY <3>1, <1>3, <1>6 DEF IsInjective
    <3> QED BY <3>2, <1>1
  <2>2. ASSUME Head(s) \in ToSet(t) PROVE FALSE
    <3>1. PICK i \in 1..Len(t) : Head(s) = t[i]
      BY <2>2, <1>3 DEF ToSet
    <3>2. s[1] = s[i + 1] /\ 1 \in 1..Len(s) /\ i + 1 \in 1..Len(s)
      BY <3>1, <1>1, <1>2
    <3> QED BY <3>2, <1>3, <1>6, <1>1 DEF IsInjective
  <2> QED BY <2>1, <2>2, <1>3 DEF IsInjective
<1>7. t # <<>> => Last(t) = Last(s)
  BY <1>1, <1>2 DEF Last
<1> QED BY <1>1, <1>5, <1>6, <1>7

\* Appending to a list, pushing on a stack.
LEMMA AppendFacts ==
  ASSUME NEW S, NEW s \in Seq(S), NEW m \in S
  PROVE  /\ Append(s, m) \in Seq(S)
         /\ Len(Append(s, m)) = Len(s) + 1
         /\ ToSet(Append(s, m)) = {m} \cup ToSet(s)
         /\ IsInjective(s) /\ m \notin ToSet(s) => IsInjective(Append(s, m))
         /\ Append(s, m) # <<>> /\ Last(Append(s, m)) = m
<1> DEFINE a == Append(s, m)
<1>1. a \in Seq(S) /\ Len(a) = Len(s) + 1 /\ Len(s) \in Nat
  OBVIOUS
<1>2. a[Len(a)] = m /\ \A i \in 1..Len(s) : a[i] = s[i]
  BY <1>1
<1>3. DOMAIN a = 1..Len(a) /\ DOMAIN s = 1..Len(s)
  BY <1>1
<1>4. \A i \in 1..Len(a) : i = Len(a) \/ i \in 1..Len(s)
  BY <1>1
<1>5. ToSet(a) = {m} \cup ToSet(s)
  <2>1. ASSUME NEW x \in ToSet(a) PROVE x \in {m} \cup ToSet(s)
    BY <1>2, <1>3, <1>4 DEF ToSet
  <2>2. m \in ToSet(a)
    BY <1>1, <1>2, <1>3 DEF ToSet
  <2>3. ASSUME NEW x \in ToSet(s) PROVE x \in ToSet(a)
    BY <1>1, <1>2, <1>3 DEF ToSet
  <2> QED BY <2>1, <2>2, <2>3
<1>6. IsInjective(s) /\ m \notin ToSet(s) => IsInjective(a)
  <2> SUFFICES ASSUME IsInjective(s), m \notin ToSet(s),
                      NEW i \in 1..Len(a), NEW j \in 1..Len(a), a[i] = a[j]
               PROVE  i = j
    BY <1>3 DEF IsInjective
  <2>1. \A k \in 1..Len(s) : s[k] # m
    BY <1>3 DEF ToSet
  <2>2. CASE i = Len(a) \/ j = Len(a)
    BY <2>1, <2>2, <1>2, <1>4, SMTT(20)
  <2>3. CASE i # Len(a) /\ j # Len(a)
    BY <2>3, <1>2, <1>3, <1>4 DEF IsInjective
  <2> QED BY <2>2, <2>3
<1> QED BY <1>1, <1>2, <1>5, <1>6 DEF Last

\* The first members of a list.
LEMMA PrefixFacts ==
  ASSUME NEW S, NEW s \in Seq(S), NEW g \in 0..Len(s)
  PROVE  /\ SubSeq(s, 1, g) \in Seq(S)
         /\ Len(SubSeq(s, 1, g)) = g
         /\ \A i \in 1..g : SubSeq(s, 1, g)[i] = s[i]
         /\ ToSet(SubSeq(s, 1, g)) \subseteq ToSet(s)
         /\ IsInjective(s) => IsInjective(SubSeq(s, 1, g))
<1> DEFINE p == SubSeq(s, 1, g)
<1>1. \A i \in 1..g : s[i] \in S /\ i \in 1..Len(s)
  BY ElementOfSeq
<1>2. p \in Seq(S) /\ Len(p) = (IF 1 <= g THEN g - 1 + 1 ELSE 0)
      /\ \A i \in 1..(g - 1 + 1) : p[i] = s[1 + i - 1]
  BY <1>1, SubSeqProperties
<1>3. Len(p) = g /\ \A i \in 1..g : p[i] = s[i]
  BY <1>2
<1> HIDE DEF p
<1>4. DOMAIN p = 1..g /\ DOMAIN s = 1..Len(s)
  BY <1>2, <1>3
<1>5. ToSet(p) \subseteq ToSet(s)
  BY <1>1, <1>3, <1>4 DEF ToSet
<1>6. IsInjective(s) => IsInjective(p)
  BY <1>1, <1>3, <1>4 DEF IsInjective
<1> QED BY <1>2, <1>3, <1>5, <1>6 DEF p

\* Popping a stack.
LEMMA FrontFacts ==
  ASSUME NEW S, NEW s \in Seq(S), s # <<>>
  PROVE  /\ Front(s) \in Seq(S) /\ Last(s) \in S
         /\ Len(Front(s)) = Len(s) - 1 /\ Len(s) \in Nat \ {0}
         /\ ToSet(s) = {Last(s)} \cup ToSet(Front(s))
         /\ IsInjective(s) => IsInjective(Front(s)) /\ Last(s) \notin ToSet(Front(s))
<1> DEFINE f == Front(s)
<1>1. Len(s) \in Nat \ {0}
  OBVIOUS
<1>2. f \in Seq(S) /\ Len(f) = Len(s) - 1 /\ \A i \in 1..Len(f) : f[i] = s[i]
  <2>1. Len(s) - 1 \in 0..Len(s)
    BY <1>1
  <2> QED BY <2>1, PrefixFacts, Zenon DEF Front
<1> HIDE DEF f
<1>3. Last(s) = s[Len(s)] /\ Last(s) \in S
  BY <1>1 DEF Last
<1>4. DOMAIN s = 1..Len(s) /\ DOMAIN f = 1..Len(f)
  BY <1>2
<1>5. \A i \in 1..Len(s) : i = Len(s) \/ i \in 1..Len(f)
  BY <1>1, <1>2
<1>6. ToSet(s) = {Last(s)} \cup ToSet(f)
  <2>1. ASSUME NEW x \in ToSet(s) PROVE x \in {Last(s)} \cup ToSet(f)
    <3>1. PICK i \in 1..Len(s) : x = s[i]
      BY <2>1, <1>4 DEF ToSet
    <3>2. CASE i = Len(s)
      BY <3>1, <3>2, <1>3
    <3>3. CASE i \in 1..Len(f)
      <4>1. x = f[i]
        BY <3>1, <3>3, <1>2
      <4> QED BY <4>1, <3>3, <1>4 DEF ToSet
    <3> QED BY <3>2, <3>3, <1>5
  <2>2. Last(s) \in ToSet(s)
    BY <1>1, <1>3, <1>4 DEF ToSet
  <2>3. ASSUME NEW x \in ToSet(f) PROVE x \in ToSet(s)
    BY <1>1, <1>2, <1>4 DEF ToSet
  <2> QED BY <2>1, <2>2, <2>3
<1>7. ASSUME IsInjective(s) PROVE IsInjective(f) /\ Last(s) \notin ToSet(f)
  <2>1. IsInjective(f)
    <3> SUFFICES ASSUME NEW i \in 1..Len(f), NEW j \in 1..Len(f), f[i] = f[j]
                 PROVE  i = j
      BY <1>4 DEF IsInjective
    <3>1. i \in 1..Len(s) /\ j \in 1..Len(s)
      BY <1>1, <1>2
    <3>2. s[i] = s[j]
      BY <1>2, Zenon
    <3> QED BY <3>1, <3>2, <1>4, <1>7 DEF IsInjective
  <2>2. ASSUME Last(s) \in ToSet(f) PROVE FALSE
    <3>1. PICK i \in 1..Len(f) : Last(s) = f[i]
      BY <2>2, <1>4 DEF ToSet
    <3>2. i \in 1..Len(s) /\ Len(s) \in 1..Len(s) /\ i # Len(s)
      BY <1>1, <1>2, SMTT(20)
    <3>3. s[Len(s)] = s[i]
      BY <3>1, <1>2, <1>3, Zenon
    <3> QED BY <3>2, <3>3, <1>4, <1>7, ZenonT(30) DEF IsInjective
  <2> QED BY <2>1, <2>2
<1> QED BY <1>1, <1>2, <1>3, <1>6, <1>7 DEF f

\* Stacking one sequence of members on another.
LEMMA ConcatFacts ==
  ASSUME NEW S, NEW s \in Seq(S), NEW t \in Seq(S)
  PROVE  /\ s \o t \in Seq(S)
         /\ Len(s \o t) = Len(s) + Len(t)
         /\ ToSet(s \o t) = ToSet(s) \cup ToSet(t)
         /\ IsInjective(s) /\ IsInjective(t) /\ ToSet(s) \cap ToSet(t) = {}
              => IsInjective(s \o t)
<1> DEFINE c == s \o t
<1>1. c \in Seq(S) /\ Len(c) = Len(s) + Len(t) /\ Len(s) \in Nat /\ Len(t) \in Nat
  OBVIOUS
<1>2. /\ \A i \in 1..Len(s) : c[i] = s[i] /\ i \in 1..Len(c)
      /\ \A i \in 1..Len(t) : c[Len(s) + i] = t[i] /\ Len(s) + i \in 1..Len(c)
  BY <1>1
<1>3. \A i \in 1..Len(c) : \/ i \in 1..Len(s) /\ c[i] = s[i]
                           \/ i - Len(s) \in 1..Len(t) /\ c[i] = t[i - Len(s)]
  BY <1>1
<1>4. DOMAIN c = 1..Len(c) /\ DOMAIN s = 1..Len(s) /\ DOMAIN t = 1..Len(t)
  BY <1>1
<1> HIDE DEF c
<1>5. ToSet(c) = ToSet(s) \cup ToSet(t)
  <2>1. ASSUME NEW x \in ToSet(c) PROVE x \in ToSet(s) \cup ToSet(t)
    BY <1>3, <1>4, Zenon DEF ToSet
  <2>2. ASSUME NEW x \in ToSet(s) PROVE x \in ToSet(c)
    BY <1>2, <1>4 DEF ToSet
  <2>3. ASSUME NEW x \in ToSet(t) PROVE x \in ToSet(c)
    BY <1>2, <1>4 DEF ToSet
  <2> QED BY <2>1, <2>2, <2>3
<1>6. ASSUME IsInjective(s), IsInjective(t), ToSet(s) \cap ToSet(t) = {}
      PROVE  IsInjective(c)
  <2> SUFFICES ASSUME NEW i \in 1..Len(c), NEW j \in 1..Len(c), c[i] = c[j]
               PROVE  i = j
    BY <1>4 DEF IsInjective
  <2>1. \A a \in 1..Len(s), b \in 1..Len(t) : s[a] # t[b]
    <3> SUFFICES ASSUME NEW a \in 1..Len(s), NEW b \in 1..Len(t), s[a] = t[b]
                 PROVE  FALSE
      OBVIOUS
    <3>1. s[a] \in ToSet(s)
      BY <1>4 DEF ToSet
    <3>2. t[b] \in ToSet(t)
      BY <1>4 DEF ToSet
    <3> QED BY <3>1, <3>2, <1>6
  <2>2. CASE i \in 1..Len(s) /\ c[i] = s[i]
    <3>1. CASE j \in 1..Len(s) /\ c[j] = s[j]
      BY <2>2, <3>1, <1>4, <1>6, Zenon DEF IsInjective
    <3>2. CASE j - Len(s) \in 1..Len(t) /\ c[j] = t[j - Len(s)]
      BY <2>1, <2>2, <3>2, Zenon
    <3> QED BY <3>1, <3>2, <1>3
  <2>3. CASE i - Len(s) \in 1..Len(t) /\ c[i] = t[i - Len(s)]
    <3>1. CASE j \in 1..Len(s) /\ c[j] = s[j]
      BY <2>1, <2>3, <3>1, Zenon
    <3>2. CASE j - Len(s) \in 1..Len(t) /\ c[j] = t[j - Len(s)]
      <4>1. i - Len(s) = j - Len(s)
        BY <2>3, <3>2, <1>4, <1>6, Zenon DEF IsInjective
      <4> QED BY <4>1, <1>1
    <3> QED BY <3>1, <3>2, <1>3
  <2> QED BY <2>2, <2>3, <1>3
<1> QED BY <1>1, <1>5, <1>6 DEF c

\* Adding and removing one element of a finite set.
LEMMA CardFacts ==
  ASSUME NEW T, IsFiniteSet(T), NEW A \in SUBSET T, NEW x
  PROVE  /\ Cardinality(A) \in Nat
         /\ x \notin A => Cardinality(A \cup {x}) = Cardinality(A) + 1
         /\ x \in A => /\ Cardinality(A \ {x}) = Cardinality(A) - 1
                       /\ Cardinality(A) > 0
<1>1. IsFiniteSet(A) /\ Cardinality(A) \in Nat
  BY FS_Subset, FS_CardinalityType
<1>2. x \notin A => Cardinality(A \cup {x}) = Cardinality(A) + 1
  BY <1>1, FS_AddElement, Zenon
<1>3. x \in A => Cardinality(A \ {x}) = Cardinality(A) - 1
  BY <1>1, FS_RemoveElement, Zenon
<1>4. x \in A => Cardinality(A) > 0
  <2> SUFFICES ASSUME x \in A, Cardinality(A) = 0 PROVE FALSE
    BY <1>1
  <2>1. A = {}
    BY <1>1, FS_EmptySet
  <2> QED BY <2>1
<1> QED BY <1>1, <1>2, <1>3, <1>4

\* The empty list.
LEMMA EmptyFacts ==
  /\ ToSet(<<>>) = {} /\ IsInjective(<<>>) /\ Len(<<>>) = 0
  /\ \A S : <<>> \in Seq(S)
  /\ \A S : \A s \in Seq(S) : Len(s) = 0 <=> s = <<>>
<1>1. Len(<<>>) = 0 /\ DOMAIN <<>> = {}
  OBVIOUS
<1>2. ToSet(<<>>) = {} /\ IsInjective(<<>>)
  BY <1>1 DEF ToSet, IsInjective
<1> QED BY <1>1, <1>2

\* The elements of a sequence over a set are elements of the set.
LEMMA ElementFacts ==
  ASSUME NEW S, NEW s \in Seq(S)
  PROVE  ToSet(s) \subseteq S
BY ElementOfSeq DEF ToSet
=============================================================================

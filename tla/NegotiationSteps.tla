------------------------- MODULE NegotiationSteps ---------------------------
(*****************************************************************************)
(* What a step of Signaling is to a pair of processes. p hears of q through  *)
(* its news, which are its queue and what the signal server has sent it, and *)
(* through the requests of q that the server has yet to pass on. Each step   *)
(* leaves a pair alone, but for what is lost, or is one thing between them:  *)
(* one is told of the other, hears it, describes itself, sends a candidate,  *)
(* or has something passed on (StepSeen).                                    *)
(*****************************************************************************)
EXTENDS SignalingProofs

-----------------------------------------------------------------------------
(* Sequences: counts, and what comes after what.                           *)

\* How many elements of s are in M; each element of s in C comes after one in D.
Num(s, M) == Cardinality({i \in 1..Len(s) : s[i] \in M})
Led(s, D, C) == \A i \in 1..Len(s) : s[i] \in C => \E j \in 1..Len(s) : j < i /\ s[j] \in D

\* A count is a natural number, zero when no element counts.
LEMMA NumType ==
  ASSUME NEW T, NEW s \in Seq(T), NEW M
  PROVE  Num(s, M) \in Nat /\ (Num(s, M) > 0 <=> Has(s, M))
<1> DEFINE A == {i \in 1..Len(s) : s[i] \in M}
<1>1. IsFiniteSet(A) BY FS_Interval, FS_Subset
<1>2. Cardinality(A) \in Nat /\ (Cardinality(A) = 0 <=> A = {})
  BY <1>1, FS_CardinalityType, FS_EmptySet
<1>3. A = {} <=> ~Has(s, M) BY DEF Has
<1>4. Num(s, M) = Cardinality(A) BY DEF Num
<1> HIDE DEF A
<1> QED BY <1>2, <1>3, <1>4

\* Nothing counts in the empty sequence.
LEMMA NumNone == \A M : Num(<<>>, M) = 0
<1> TAKE M
<1>1. {i \in 1..Len(<<>>) : <<>>[i] \in M} = {} OBVIOUS
<1> QED BY <1>1, FS_EmptySet DEF Num

\* The count of a sequence of one.
LEMMA NumOne == ASSUME NEW m, NEW M PROVE Num(<<m>>, M) = IF m \in M THEN 1 ELSE 0
<1> DEFINE A == {i \in 1..Len(<<m>>) : <<m>>[i] \in M}
<1>1. A = IF m \in M THEN {1} ELSE {} OBVIOUS
<1>2. Num(<<m>>, M) = Cardinality(A) BY DEF Num
<1> HIDE DEF A
<1> QED BY <1>1, <1>2, FS_EmptySet, FS_Singleton

\* The count of a concatenation is the sum of the counts.
LEMMA NumConcat ==
  ASSUME NEW T, NEW s \in Seq(T), NEW t \in Seq(T), NEW M
  PROVE  Num(s \o t, M) = Num(s, M) + Num(t, M)
<1> DEFINE u == s \o t
           n == Len(s)
           A == {i \in 1..n : s[i] \in M}
           B == {i \in 1..Len(t) : t[i] \in M}
           C == {i \in 1..Len(u) : u[i] \in M}
           E == {i + n : i \in B}
           f == [i \in B |-> i + n]
<1>1. /\ Len(u) = n + Len(t) /\ n \in Nat /\ Len(t) \in Nat
      /\ \A i \in 1..n : u[i] = s[i]
      /\ \A i \in 1..Len(t) : u[i + n] = t[i]
  BY ConcatProperties
<1>2. IsFiniteSet(A) /\ IsFiniteSet(B) /\ B \subseteq Nat
  <2>1. IsFiniteSet(1..n) /\ IsFiniteSet(1..Len(t)) BY <1>1, FS_Interval
  <2>2. A \subseteq 1..n /\ B \subseteq 1..Len(t) OBVIOUS
  <2>3. 1..Len(t) \subseteq Nat BY <1>1
  <2> HIDE DEF A, B, n
  <2> QED BY <2>1, <2>2, <2>3, FS_Subset
<1>3. Num(s, M) = Cardinality(A) /\ Num(t, M) = Cardinality(B) /\ Num(u, M) = Cardinality(C)
  BY DEF Num
<1>4. C = A \cup E
  <2> HIDE DEF u, n
  <2>1. \A i \in 1..Len(u) : i \in 1..n \/ (i - n \in 1..Len(t) /\ i = (i - n) + n) BY <1>1
  <2>2. \A i \in C : i \in A \/ i \in E
    <3> TAKE i \in C
    <3>1. CASE i \in 1..n BY <1>1, <3>1
    <3>2. CASE i \notin 1..n
      <4>1. i - n \in B /\ i = (i - n) + n BY <1>1, <2>1, <3>2
      <4> QED BY <4>1
    <3> QED BY <3>1, <3>2
  <2>3. A \subseteq C BY <1>1
  <2>4. E \subseteq C BY <1>1
  <2> QED BY <2>2, <2>3, <2>4
<1>5. A \cap E = {}
  <2>1. \A i \in E : i > n BY <1>1
  <2> QED BY <1>1, <2>1
<1>6. f \in Bijection(B, E)
  <2> HIDE DEF B
  <2>1. f \in [B -> E] /\ (\A i \in E : \E j \in B : f[j] = i) OBVIOUS
  <2>2. \A i, j \in B : f[i] = f[j] => i = j BY <1>1, <1>2
  <2> HIDE DEF f, E
  <2> QED BY <2>1, <2>2 DEF Bijection, Injection, Surjection, IsInjective
<1> HIDE DEF A, B, C, E, f, u, n
<1>7. IsFiniteSet(E) /\ Cardinality(E) = Cardinality(B)
  BY <1>2, <1>6, FS_Bijection DEF ExistsBijection
<1>8. Cardinality(C) = Cardinality(A) + Cardinality(E)
  <2>1. /\ Cardinality(A \cup E) = Cardinality(A) + Cardinality(E) - Cardinality(A \cap E)
        /\ Cardinality(A) \in Nat /\ Cardinality(E) \in Nat /\ Cardinality({}) = 0
    BY <1>2, <1>7, FS_Union, FS_CardinalityType, FS_EmptySet
  <2>2. Cardinality(C) = Cardinality(A) + Cardinality(E) - Cardinality({})
    BY <1>4, <1>5, <2>1
  <2> QED BY <2>1, <2>2
<1> QED BY <1>3, <1>7, <1>8 DEF u

\* A lone element of C is not led.
LEMMA LedOne == \A m, D, C : (Led(<<m>>, D, C) <=> m \notin C) /\ Led(<<>>, D, C)
BY DEF Led

\* In a concatenation, what is not led within t is led by an element of s.
LEMMA LedConcat ==
  ASSUME NEW T, NEW s \in Seq(T), NEW t \in Seq(T), NEW D, NEW C
  PROVE  Led(s \o t, D, C) <=> Led(s, D, C) /\ (Has(s, D) \/ Led(t, D, C))
<1> DEFINE u == s \o t
           n == Len(s)
<1>1. /\ Len(u) = n + Len(t) /\ n \in Nat /\ Len(t) \in Nat
      /\ \A i \in 1..n : u[i] = s[i]
      /\ \A i \in 1..Len(t) : u[i + n] = t[i]
  BY ConcatProperties
<1> HIDE DEF u, n
<1>2. \A i \in 1..n : i \in 1..Len(u) BY <1>1
<1>3. \A i \in 1..Len(t) : i + n \in 1..Len(u) /\ i + n > n BY <1>1
<1>4. \A i \in 1..Len(u) : i \in 1..n \/ (i - n \in 1..Len(t) /\ u[i] = t[i - n] /\ i > n)
  <2> SUFFICES ASSUME NEW i \in 1..Len(u), i \notin 1..n
               PROVE  i - n \in 1..Len(t) /\ u[i] = t[i - n] /\ i > n
    OBVIOUS
  <2>1. i - n \in 1..Len(t) /\ (i - n) + n = i /\ i > n BY <1>1
  <2> QED BY <1>1, <2>1
<1>5. ASSUME Led(u, D, C) PROVE Led(s, D, C)
  <2> SUFFICES ASSUME NEW i \in 1..n, s[i] \in C PROVE \E j \in 1..n : j < i /\ s[j] \in D
    BY DEF Led, n
  <2>1. PICK j \in 1..Len(u) : j < i /\ u[j] \in D BY <1>1, <1>2, <1>5 DEF Led
  <2>2. j \in 1..n BY <1>1, <2>1
  <2> QED BY <1>1, <2>1, <2>2
<1>6. ASSUME Led(u, D, C), ~Has(s, D) PROVE Led(t, D, C)
  <2> SUFFICES ASSUME NEW i \in 1..Len(t), t[i] \in C
               PROVE  \E j \in 1..Len(t) : j < i /\ t[j] \in D
    BY DEF Led
  <2>1. PICK j \in 1..Len(u) : j < i + n /\ u[j] \in D BY <1>1, <1>3, <1>6 DEF Led
  <2>2. j \notin 1..n BY <1>1, <1>6, <2>1 DEF Has, n
  <2>3. j - n \in 1..Len(t) /\ t[j - n] \in D /\ j - n < i BY <1>1, <1>4, <2>1, <2>2
  <2> QED BY <2>3
<1>7. ASSUME Led(s, D, C), Has(s, D) \/ Led(t, D, C) PROVE Led(u, D, C)
  <2> SUFFICES ASSUME NEW i \in 1..Len(u), u[i] \in C
               PROVE  \E j \in 1..Len(u) : j < i /\ u[j] \in D
    BY DEF Led
  <2>1. CASE i \in 1..n
    <3>1. PICK j \in 1..n : j < i /\ s[j] \in D BY <1>1, <1>7, <2>1 DEF Led, n
    <3> QED BY <1>1, <1>2, <3>1
  <2>2. CASE i \notin 1..n
    <3>1. i - n \in 1..Len(t) /\ t[i - n] \in C /\ i > n BY <1>4, <2>2
    <3>2. CASE Has(s, D)
      <4>1. PICK j \in 1..n : s[j] \in D BY <3>2 DEF Has, n
      <4>2. j < i BY <1>1, <3>1, <4>1
      <4> QED BY <1>1, <1>2, <4>1, <4>2
    <3>3. CASE Led(t, D, C)
      <4>1. PICK j \in 1..Len(t) : j < i - n /\ t[j] \in D BY <3>1, <3>3 DEF Led
      <4>2. j + n \in 1..Len(u) /\ u[j + n] \in D /\ j + n < i BY <1>1, <1>3, <3>1, <4>1
      <4> QED BY <4>2
    <3> QED BY <1>7, <3>2, <3>3
  <2> QED BY <2>1, <2>2
<1> QED BY <1>5, <1>6, <1>7 DEF u

\* What becomes of s, as far as the elements of M go: t has no more of them, has
\* them in no worse an order, has the same, is s without x in front, or with x
\* at the end.
Fewer(s, t, M) == \A D \in SUBSET M : Num(t, D) <= Num(s, D)
Ordered(s, t, M) == \A D, C \in SUBSET M : Led(s, D, C) => Led(t, D, C)
Alike(s, t, M) ==
    \A D, C \in SUBSET M : Num(t, D) = Num(s, D) /\ (Led(s, D, C) => Led(t, D, C))
Takes(s, t, x, M) ==
    \A D, C \in SUBSET M :
        /\ Num(s, D) = (IF x \in D THEN 1 ELSE 0) + Num(t, D)
        /\ Led(s, D, C) => x \notin C /\ (x \in D \/ Led(t, D, C))
Adds(s, t, x, M) ==
    \A D, C \in SUBSET M :
        /\ Num(t, D) = Num(s, D) + (IF x \in D THEN 1 ELSE 0)
        /\ Led(s, D, C) /\ (x \in C => Num(s, D) > 0) => Led(t, D, C)

\* The counts of u, and what comes after what in it, are those of s before t.
JointIn(D, C, s, t, u) ==
    /\ Num(s, D) \in Nat /\ Num(t, D) \in Nat
    /\ Num(u, D) = Num(s, D) + Num(t, D)
    /\ Led(u, D, C) <=> Led(s, D, C) /\ (Num(s, D) > 0 \/ Led(t, D, C))
Joint(s, t, u) == \A D, C : JointIn(D, C, s, t, u)

\* NumConcat and LedConcat in one.
LEMMA Concat ==
  ASSUME NEW T, NEW s \in Seq(T), NEW t \in Seq(T)
  PROVE  s \o t \in Seq(T) /\ Joint(s, t, s \o t)
<1>1. s \o t \in Seq(T) BY ConcatProperties
<1>2. \A D : Num(s, D) \in Nat /\ Num(t, D) \in Nat /\ (Num(s, D) > 0 <=> Has(s, D))
  BY NumType
<1>3. \A D : Num(s \o t, D) = Num(s, D) + Num(t, D) BY NumConcat
<1>4. \A D, C : Led(s \o t, D, C) <=> Led(s, D, C) /\ (Has(s, D) \/ Led(t, D, C)) BY LedConcat
<1> QED BY <1>1, <1>2, <1>3, <1>4 DEF Joint, JointIn

\* NumOne, NumNone and LedOne.
LEMMA One == \A m, D, C : /\ Num(<<m>>, D) = IF m \in D THEN 1 ELSE 0
                          /\ Led(<<m>>, D, C) <=> m \notin C
                          /\ Num(<<>>, D) = 0 /\ Led(<<>>, D, C)
BY NumOne, NumNone, LedOne

\* Elements that are not in M do not matter.
LEMMA Others ==
  ASSUME NEW T, NEW x \in Seq(T), NEW M, ~Has(x, M)
  PROVE  \A D, C \in SUBSET M : Num(x, D) = 0 /\ Led(x, D, C)
<1> TAKE D, C \in SUBSET M
<1>1. ~Has(x, D) /\ Led(x, D, C) BY DEF Has, Led
<1> QED BY <1>1, NumType

\* A sequence is its head before its tail.
LEMMA HeadTail ==
  ASSUME NEW T, NEW s \in Seq(T), s # <<>>
  PROVE  s = <<Head(s)>> \o Tail(s) /\ <<Head(s)>> \in Seq(T) /\ Tail(s) \in Seq(T)
OBVIOUS

\* The head of s is taken, and something outside M is put after the tail.
LEMMA SeqTakes ==
  ASSUME NEW T, NEW s \in Seq(T), s # <<>>, NEW x \in Seq(T), NEW d \in Seq(T),
         NEW M, ~Has(x, M)
  PROVE  Takes(s \o d, (Tail(s) \o x) \o d, Head(s), M)
<1> DEFINE h == Head(s)
           e == Tail(s)
           a == <<h>>
           u == s \o d
           v == e \o x
           w == v \o d
<1>1. s = a \o e /\ a \in Seq(T) /\ e \in Seq(T) BY HeadTail
<1>2. \A D, C : Num(a, D) = (IF h \in D THEN 1 ELSE 0) /\ (Led(a, D, C) <=> h \notin C) BY One
<1>3. \A D, C \in SUBSET M : Num(x, D) = 0 /\ Led(x, D, C) BY Others
<1> HIDE DEF h, e, a
<1>4. Joint(a, e, s) BY <1>1, Concat
<1>5. Joint(s, d, u) BY Concat
<1>6. v \in Seq(T) /\ Joint(e, x, v) BY <1>1, Concat
<1> HIDE DEF u, v
<1>7. Joint(v, d, w) BY <1>6, Concat
<1> HIDE DEF w
<1>8. Takes(u, w, h, M)
  <2> SUFFICES ASSUME NEW D \in SUBSET M, NEW C \in SUBSET M
               PROVE  /\ Num(u, D) = (IF h \in D THEN 1 ELSE 0) + Num(w, D)
                      /\ Led(u, D, C) => h \notin C /\ (h \in D \/ Led(w, D, C))
    BY DEF Takes
  <2>1. /\ JointIn(D, C, a, e, s) /\ JointIn(D, C, s, d, u)
        /\ JointIn(D, C, e, x, v) /\ JointIn(D, C, v, d, w)
    BY <1>4, <1>5, <1>6, <1>7 DEF Joint
  <2>2. Num(a, D) = (IF h \in D THEN 1 ELSE 0) /\ (Led(a, D, C) <=> h \notin C) BY <1>2
  <2>3. Num(x, D) = 0 /\ Led(x, D, C) BY <1>3
  <2> QED BY <2>1, <2>2, <2>3 DEF JointIn
<1> QED BY <1>8 DEF h, e, u, v, w

\* Something outside M is put at the end of s.
LEMMA SeqPosts ==
  ASSUME NEW T, NEW s \in Seq(T), NEW x \in Seq(T), NEW d \in Seq(T), NEW M, ~Has(x, M)
  PROVE  Alike(s \o d, (s \o x) \o d, M)
<1> DEFINE u == s \o d
           v == s \o x
           w == v \o d
<1>1. \A D, C \in SUBSET M : Num(x, D) = 0 /\ Led(x, D, C) BY Others
<1>2. Joint(s, d, u) BY Concat
<1>3. v \in Seq(T) /\ Joint(s, x, v) BY Concat
<1> HIDE DEF u, v
<1>4. Joint(v, d, w) BY <1>3, Concat
<1> HIDE DEF w
<1>5. Alike(u, w, M)
  <2> SUFFICES ASSUME NEW D \in SUBSET M, NEW C \in SUBSET M
               PROVE  Num(w, D) = Num(u, D) /\ (Led(u, D, C) => Led(w, D, C))
    BY DEF Alike
  <2>1. JointIn(D, C, s, d, u) /\ JointIn(D, C, s, x, v) /\ JointIn(D, C, v, d, w)
    BY <1>2, <1>3, <1>4 DEF Joint
  <2>2. Num(x, D) = 0 /\ Led(x, D, C) BY <1>1
  <2> QED BY <2>1, <2>2 DEF JointIn
<1> QED BY <1>5 DEF u, v, w

\* The head of d moves to the end of s, or is dropped.
LEMMA SeqMoves ==
  ASSUME NEW T, NEW s \in Seq(T), NEW d \in Seq(T), d # <<>>, NEW M
  PROVE  /\ Alike(s \o d, (s \o <<Head(d)>>) \o Tail(d), M)
         /\ Fewer(s \o d, s \o Tail(d), M)
<1> DEFINE e == Tail(d)
           a == <<Head(d)>>
           u == s \o d
           v == s \o a
           w == v \o e
           r == s \o e
<1>1. d = a \o e /\ a \in Seq(T) /\ e \in Seq(T) BY HeadTail
<1> HIDE DEF e, a
<1>2. Joint(a, e, d) BY <1>1, Concat
<1>3. Joint(s, d, u) BY Concat
<1>4. v \in Seq(T) /\ Joint(s, a, v) BY <1>1, Concat
<1>5. Joint(s, e, r) BY <1>1, Concat
<1> HIDE DEF u, v, r
<1>6. Joint(v, e, w) BY <1>1, <1>4, Concat
<1> HIDE DEF w
<1>7. Alike(u, w, M)
  <2> SUFFICES ASSUME NEW D \in SUBSET M, NEW C \in SUBSET M
               PROVE  Num(w, D) = Num(u, D) /\ (Led(u, D, C) => Led(w, D, C))
    BY DEF Alike
  <2>1. /\ JointIn(D, C, a, e, d) /\ JointIn(D, C, s, d, u)
        /\ JointIn(D, C, s, a, v) /\ JointIn(D, C, v, e, w)
    BY <1>2, <1>3, <1>4, <1>6 DEF Joint
  <2> QED BY <2>1 DEF JointIn
<1>8. Fewer(u, r, M)
  <2> SUFFICES ASSUME NEW D \in SUBSET M PROVE Num(r, D) <= Num(u, D) BY DEF Fewer
  <2>1. JointIn(D, M, a, e, d) /\ JointIn(D, M, s, d, u) /\ JointIn(D, M, s, e, r)
    BY <1>2, <1>3, <1>5 DEF Joint
  <2> QED BY <2>1 DEF JointIn
<1> QED BY <1>7, <1>8 DEF e, a, u, v, w, r

\* Something is put at the end of d.
LEMMA SeqEnds ==
  ASSUME NEW T, NEW s \in Seq(T), NEW d \in Seq(T), NEW x \in Seq(T), NEW M
  PROVE  /\ ~Has(x, M) => Alike(s \o d, s \o (d \o x), M)
         /\ \A m : x = <<m>> => Adds(s \o d, s \o (d \o x), m, M)
<1> DEFINE u == s \o d
           v == d \o x
           w == s \o v
<1>1. Joint(s, d, u) BY Concat
<1>2. v \in Seq(T) /\ Joint(d, x, v) BY Concat
<1> HIDE DEF u, v
<1>3. Joint(s, v, w) BY <1>2, Concat
<1> HIDE DEF w
<1>4. ASSUME ~Has(x, M) PROVE Alike(u, w, M)
  <2> SUFFICES ASSUME NEW D \in SUBSET M, NEW C \in SUBSET M
               PROVE  Num(w, D) = Num(u, D) /\ (Led(u, D, C) => Led(w, D, C))
    BY DEF Alike
  <2>1. Num(x, D) = 0 /\ Led(x, D, C) BY <1>4, Others
  <2>2. JointIn(D, C, s, d, u) /\ JointIn(D, C, d, x, v) /\ JointIn(D, C, s, v, w)
    BY <1>1, <1>2, <1>3 DEF Joint
  <2> QED BY <2>1, <2>2 DEF JointIn
<1>5. ASSUME NEW m, x = <<m>> PROVE Adds(u, w, m, M)
  <2> SUFFICES ASSUME NEW D \in SUBSET M, NEW C \in SUBSET M
               PROVE  /\ Num(w, D) = Num(u, D) + (IF m \in D THEN 1 ELSE 0)
                      /\ Led(u, D, C) /\ (m \in C => Num(u, D) > 0) => Led(w, D, C)
    BY DEF Adds
  <2>1. Num(x, D) = (IF m \in D THEN 1 ELSE 0) /\ (Led(x, D, C) <=> m \notin C) BY <1>5, One
  <2>2. JointIn(D, C, s, d, u) /\ JointIn(D, C, d, x, v) /\ JointIn(D, C, s, v, w)
    BY <1>1, <1>2, <1>3 DEF Joint
  <2> QED BY <2>1, <2>2 DEF JointIn
<1> QED BY <1>4, <1>5 DEF u, v, w

\* The second part, or both, is dropped.
LEMMA SeqCut ==
  ASSUME NEW T, NEW s \in Seq(T), NEW d \in Seq(T), NEW M
  PROVE  /\ Fewer(s \o d, s, M) /\ Ordered(s \o d, s, M)
         /\ Fewer(s \o d, <<>>, M) /\ Ordered(s \o d, <<>>, M)
<1> DEFINE u == s \o d
<1>1. Joint(s, d, u) BY Concat
<1> HIDE DEF u
<1>2. \A D, C : Led(u, D, C) => Led(s, D, C) BY <1>1 DEF Joint, JointIn
<1>3. \A D, C : Num(<<>>, D) = 0 /\ Led(<<>>, D, C) BY One
<1>4. \A D : Num(s, D) <= Num(u, D) /\ 0 <= Num(u, D) BY <1>1 DEF Joint, JointIn
<1>5. /\ Fewer(u, s, M) /\ Ordered(u, s, M) /\ Fewer(u, <<>>, M) /\ Ordered(u, <<>>, M)
  BY <1>2, <1>3, <1>4 DEF Fewer, Ordered
<1> QED BY <1>5 DEF u

\* How these relations imply one another.
LEMMA AlikeFacts ==
  ASSUME NEW T, NEW s \in Seq(T), NEW M
  PROVE  /\ Alike(s, s, M) /\ Fewer(s, s, M) /\ Ordered(s, s, M)
         /\ \A t : Alike(s, t, M) => Fewer(s, t, M) /\ Ordered(s, t, M)
         /\ \A t, x : x \notin M /\ (Takes(s, t, x, M) \/ Adds(s, t, x, M)) /\ t \in Seq(T) => Alike(s, t, M)
         /\ \A t, x : Takes(s, t, x, M) /\ t \in Seq(T) => Fewer(s, t, M)
<1>1. \A t \in Seq(T) : \A D : Num(t, D) \in Nat BY NumType
<1>2. \A D : Num(s, D) \in Nat BY NumType
<1>3. ASSUME NEW t \in Seq(T), NEW x, Takes(s, t, x, M) PROVE Fewer(s, t, M)
  <2>1. \A D \in SUBSET M : Num(s, D) = (IF x \in D THEN 1 ELSE 0) + Num(t, D) BY <1>3 DEF Takes
  <2>2. \A D \in SUBSET M : Num(t, D) \in Nat BY <1>1
  <2> QED BY <2>1, <2>2 DEF Fewer
<1>4. ASSUME NEW t \in Seq(T), NEW x, x \notin M, Takes(s, t, x, M) \/ Adds(s, t, x, M)
      PROVE  Alike(s, t, M)
  <2> SUFFICES ASSUME NEW D \in SUBSET M, NEW C \in SUBSET M
               PROVE  Num(t, D) = Num(s, D) /\ (Led(s, D, C) => Led(t, D, C))
    BY DEF Alike
  <2>1. x \notin D /\ x \notin C BY <1>4
  <2>2. Num(t, D) \in Nat /\ Num(s, D) \in Nat BY <1>1, <1>2
  <2>3. CASE Takes(s, t, x, M) BY <2>1, <2>2, <2>3 DEF Takes
  <2>4. CASE Adds(s, t, x, M) BY <2>1, <2>2, <2>4 DEF Adds
  <2> QED BY <1>4, <2>3, <2>4
<1>5. ASSUME NEW t, Alike(s, t, M) PROVE Fewer(s, t, M) /\ Ordered(s, t, M)
  <2>1. \A D \in SUBSET M : Num(t, D) = Num(s, D) BY <1>5 DEF Alike
  <2>2. \A D \in SUBSET M : Num(t, D) <= Num(s, D) BY <1>2, <2>1
  <2> QED BY <1>5, <2>2 DEF Alike, Fewer, Ordered
<1>6. Alike(s, s, M) BY DEF Alike
<1> QED BY <1>3, <1>4, <1>5, <1>6

\* A sequence loses its head.
LEMMA UpTakes ==
  ASSUME NEW T, NEW s \in Seq(T), s # <<>>, NEW M
  PROVE  Takes(s, Tail(s), Head(s), M)
<1> DEFINE h == Head(s)
           e == Tail(s)
           a == <<h>>
<1>1. s = a \o e /\ a \in Seq(T) /\ e \in Seq(T) BY HeadTail
<1>2. \A D, C : Num(a, D) = (IF h \in D THEN 1 ELSE 0) /\ (Led(a, D, C) <=> h \notin C) BY One
<1> HIDE DEF h, e, a
<1>3. Joint(a, e, s) BY <1>1, Concat
<1>4. Takes(s, e, h, M)
  <2> SUFFICES ASSUME NEW D \in SUBSET M, NEW C \in SUBSET M
               PROVE  /\ Num(s, D) = (IF h \in D THEN 1 ELSE 0) + Num(e, D)
                      /\ Led(s, D, C) => h \notin C /\ (h \in D \/ Led(e, D, C))
    BY DEF Takes
  <2>1. JointIn(D, C, a, e, s) BY <1>3 DEF Joint
  <2> QED BY <1>2, <2>1 DEF JointIn
<1> QED BY <1>4 DEF h, e

\* A sequence gets another last element.
LEMMA UpAdds ==
  ASSUME NEW T, NEW s \in Seq(T), NEW m \in T, NEW M
  PROVE  Adds(s, Append(s, m), m, M)
<1> DEFINE a == <<m>>
           u == s \o a
<1>1. Append(s, m) = u /\ a \in Seq(T) OBVIOUS
<1>2. \A D, C : Num(a, D) = (IF m \in D THEN 1 ELSE 0) /\ (Led(a, D, C) <=> m \notin C) BY One
<1> HIDE DEF a
<1>3. Joint(s, a, u) BY <1>1, Concat
<1> HIDE DEF u
<1>4. Adds(s, u, m, M)
  <2> SUFFICES ASSUME NEW D \in SUBSET M, NEW C \in SUBSET M
               PROVE  /\ Num(u, D) = Num(s, D) + (IF m \in D THEN 1 ELSE 0)
                      /\ Led(s, D, C) /\ (m \in C => Num(s, D) > 0) => Led(u, D, C)
    BY DEF Adds
  <2>1. JointIn(D, C, s, a, u) BY <1>3 DEF Joint
  <2> QED BY <1>2, <2>1 DEF JointIn
<1> QED BY <1>1, <1>4

-----------------------------------------------------------------------------
(* Messages, and the news of a process.                                    *)

Offered(q, payload) == [msgid |-> "ReceivedOffer", peer |-> q, payload |-> payload]
Offering(p, payload) == [msgid |-> "SendOffer", peer |-> p, payload |-> payload]
From(q, P) == {Offered(q, x) : x \in P}
To(p, P) == {Offering(p, x) : x \in P}

\* What the signal server says of q, or sends for it; what is sent to p.
About(q) == {m \in Message : m.msgid \in {"PeerConnected", "ReceivedOffer"} /\ m.peer = q}
Addressed(p) == {m \in Request : m.msgid = "SendOffer" /\ m.peer = p}

\* ReceivedOffer and SendOffer messages are their peer and payload.
LEMMA OfferedFacts ==
  /\ \A q, x : Offered(q, x).msgid = "ReceivedOffer" /\ Offered(q, x).peer = q
               /\ Offered(q, x).payload = x
  /\ \A p, x : Offering(p, x).msgid = "SendOffer" /\ Offering(p, x).peer = p
               /\ Offering(p, x).payload = x
  /\ \A q \in Process, x \in Payload : Offered(q, x) \in Message /\ Offering(q, x) \in Request
  /\ \A m \in Message \cup {Exit} :
        m.msgid = "ReceivedOffer" => /\ m.peer \in Process /\ m.payload \in Payload
                                     /\ m = Offered(m.peer, m.payload)
  /\ \A m \in Request :
        m.msgid = "SendOffer" => /\ m.peer \in Process /\ m.payload \in Payload
                                 /\ m = Offering(m.peer, m.payload)
<1>1. /\ \A q, x : Offered(q, x).msgid = "ReceivedOffer" /\ Offered(q, x).peer = q
                   /\ Offered(q, x).payload = x
      /\ \A p, x : Offering(p, x).msgid = "SendOffer" /\ Offering(p, x).peer = p
                   /\ Offering(p, x).payload = x
  BY DEF Offered, Offering
<1>2. \A q \in Process, x \in Payload : Offered(q, x) \in Message /\ Offering(q, x) \in Request
  BY DEF Offered, Offering, Message, Request
<1>3. ASSUME NEW m \in Message \cup {Exit}, m.msgid = "ReceivedOffer"
      PROVE  m.peer \in Process /\ m.payload \in Payload /\ m = Offered(m.peer, m.payload)
  <2>1. m \in [msgid : {"ReceivedOffer"}, peer : Process, payload : Payload]
    BY <1>3 DEF Message, Exit
  <2> QED BY <2>1 DEF Offered
<1>4. ASSUME NEW m \in Request, m.msgid = "SendOffer"
      PROVE  m.peer \in Process /\ m.payload \in Payload /\ m = Offering(m.peer, m.payload)
  <2>1. m \in [msgid : {"SendOffer"}, peer : Process, payload : Payload]
    BY <1>4 DEF Request
  <2> QED BY <2>1 DEF Offering
<1> QED BY <1>1, <1>2, <1>3, <1>4

\* Which messages are about q.
LEMMA AboutFacts ==
  ASSUME NEW q \in Process
  PROVE  /\ {Joined(q)} \in SUBSET About(q) /\ Joined(q) \in About(q)
         /\ \A P \in SUBSET Payload : From(q, P) \in SUBSET About(q)
         /\ \A x \in Payload : Offered(q, x) \in About(q)
         /\ \A r : r # q => Joined(r) \notin About(q)
         /\ \A r, x : r # q => Offered(r, x) \notin About(q)
         /\ \A m : m.msgid \notin {"PeerConnected", "ReceivedOffer"} => m \notin About(q)
         /\ \A P, x : Offered(q, x) \in From(q, P) <=> x \in P
         /\ \A P : Joined(q) \notin From(q, P)
         /\ \A r, x : Offered(r, x) # Joined(q)
<1>1. Joined(q) \in About(q) BY JoinedFacts DEF About
<1>2. \A x \in Payload : Offered(q, x) \in About(q) BY OfferedFacts DEF About
<1>3. \A P \in SUBSET Payload : From(q, P) \in SUBSET About(q) BY <1>2 DEF From
<1>4. \A r : r # q => Joined(r) \notin About(q) BY JoinedFacts DEF About
<1>5. \A r, x : r # q => Offered(r, x) \notin About(q) BY OfferedFacts DEF About
<1>6. \A m : m.msgid \notin {"PeerConnected", "ReceivedOffer"} => m \notin About(q) BY DEF About
<1>7. \A P, x : Offered(q, x) \in From(q, P) <=> x \in P BY OfferedFacts DEF From
<1>8. \A r, x : Offered(r, x) # Joined(q)
  <2>1. "ReceivedOffer" # "PeerConnected" OBVIOUS
  <2> QED BY <2>1, OfferedFacts, JoinedFacts
<1>9. \A P : Joined(q) \notin From(q, P) BY <1>8 DEF From
<1> QED BY <1>1, <1>2, <1>3, <1>4, <1>5, <1>6, <1>7, <1>8, <1>9

\* Which requests are addressed to p.
LEMMA AddressedFacts ==
  ASSUME NEW p \in Process
  PROVE  /\ \A P \in SUBSET Payload : To(p, P) \in SUBSET Addressed(p)
         /\ \A x \in Payload : Offering(p, x) \in Addressed(p)
         /\ \A r, x : r # p => Offering(r, x) \notin Addressed(p)
         /\ \A P, x : Offering(p, x) \in To(p, P) <=> x \in P
         /\ \A m : m.msgid # "SendOffer" => m \notin Addressed(p)
         /\ \A m \in Joining : m \notin Addressed(p)
<1>1. \A x \in Payload : Offering(p, x) \in Addressed(p) BY OfferedFacts DEF Addressed
<1>2. \A P \in SUBSET Payload : To(p, P) \in SUBSET Addressed(p) BY <1>1 DEF To
<1>3. \A r, x : r # p => Offering(r, x) \notin Addressed(p) BY OfferedFacts DEF Addressed
<1>4. \A P, x : Offering(p, x) \in To(p, P) <=> x \in P BY OfferedFacts DEF To
<1>5. \A m : m.msgid # "SendOffer" => m \notin Addressed(p) BY DEF Addressed
<1>6. \A m \in Joining : m.msgid # "SendOffer" BY DEF Joining
<1> QED BY <1>1, <1>2, <1>3, <1>4, <1>5, <1>6

\* What p is to hear, in that order.
News(p) == queue[p] \o down[p]

\* A sequence of anything that is not about q.
LEMMA ExitOthers ==
  ASSUME NEW q \in Process, NEW x, x = <<>> \/ x = <<Exit>>
  PROVE  ~Has(x, About(q))
<1>1. Exit.msgid = "Exit" BY DEF Exit
<1>2. Exit \notin About(q) BY <1>1, AboutFacts
<1> QED BY <1>2, HasNone, HasOne

\* Both parts of the news, and the news, are sequences of messages.
LEMMA NewsType ==
  ASSUME Types, NEW p \in Process
  PROVE  /\ queue[p] \in Seq(Message \cup {Exit}) /\ down[p] \in Seq(Message \cup {Exit})
         /\ News(p) \in Seq(Message \cup {Exit})
<1> DEFINE T == Message \cup {Exit}
<1>1. queue \in [Process -> Seq(T)] /\ down[p] \in Seq(Message) BY DEF Types
<1>2. down[p] \in Seq(T) BY <1>1
<1> HIDE DEF T
<1>3. queue[p] \in Seq(T) BY <1>1
<1>4. News(p) \in Seq(T) BY <1>2, <1>3, ConcatProperties DEF News
<1> QED BY <1>2, <1>3, <1>4 DEF T

\* The signal thread of p takes the first of p's news, and may post MsgExit.
LEMMA NewsHandled ==
  ASSUME Types, NEW p \in Process, queue[p] # <<>>, NEW messages, Handled(p, messages),
         Posted(p, messages) \in {<<>>, <<Exit>>}, down' = down
  PROVE  /\ \A q \in Process : Takes(News(p), News(p)', Head(queue[p]), About(q))
         /\ \A r \in Process : r # p => News(r)' = News(r)
<1> DEFINE T == Message \cup {Exit}
           s == queue[p]
           x == Posted(p, messages)
           d == down[p]
<1>1. s \in Seq(T) /\ d \in Seq(T) /\ x \in Seq(T)
  <2>1. Exit \in T /\ s \in Seq(T) /\ d \in Seq(T) BY NewsType
  <2> HIDE DEF T
  <2>2. <<Exit>> \in Seq(T) /\ <<>> \in Seq(T) BY <2>1
  <2> QED BY <2>1, <2>2
<1>2. queue'[p] = Tail(s) \o x /\ \A r \in Process : r # p => queue'[r] = queue[r]
  BY DEF Handled, Types
<1>3. \A q \in Process : ~Has(x, About(q)) BY ExitOthers
<1>4. News(p) = s \o d /\ News(p)' = (Tail(s) \o x) \o d BY <1>2 DEF News
<1>5. s # <<>> OBVIOUS
<1> HIDE DEF T, x, s, d
<1>6. \A q \in Process : Takes(s \o d, (Tail(s) \o x) \o d, Head(s), About(q))
  BY ONLY <1>1, <1>3, <1>5, SeqTakes
<1>7. \A r \in Process : r # p => News(r)' = News(r) BY <1>2 DEF News
<1> QED BY <1>4, <1>6, <1>7 DEF s

\* A thread that posts nothing, or MsgExit, leaves everyone's news alike.
LEMMA NewsPosted ==
  ASSUME Types, NEW p \in Process, NEW messages, Post(p, messages),
         Posted(p, messages) \in {<<>>, <<Exit>>}, down' = down
  PROVE  \A r, q \in Process : Alike(News(r), News(r)', About(q))
<1> DEFINE T == Message \cup {Exit}
           s == queue[p]
           x == Posted(p, messages)
           d == down[p]
<1>1. s \in Seq(T) /\ d \in Seq(T) /\ x \in Seq(T)
  <2>1. Exit \in T /\ s \in Seq(T) /\ d \in Seq(T) BY NewsType
  <2> HIDE DEF T
  <2>2. <<Exit>> \in Seq(T) /\ <<>> \in Seq(T) BY <2>1
  <2> QED BY <2>1, <2>2
<1>2. queue'[p] = s \o x /\ \A r \in Process : r # p => queue'[r] = queue[r]
  BY DEF Post, Types
<1>3. \A q \in Process : ~Has(x, About(q)) BY ExitOthers
<1>4. News(p) = s \o d /\ News(p)' = (s \o x) \o d BY <1>2 DEF News
<1> HIDE DEF T, x, s, d
<1>5. \A q \in Process : Alike(s \o d, (s \o x) \o d, About(q)) BY ONLY <1>1, <1>3, SeqPosts
<1>6. \A r \in Process : r # p => News(r)' = News(r) BY <1>2 DEF News
<1>7. \A r, q \in Process : Alike(News(r), News(r), About(q)) BY NewsType, AlikeFacts
<1> QED BY <1>4, <1>5, <1>6, <1>7

\* A message passes from one part of the news to the other, or is not posted.
LEMMA NewsMoved ==
  ASSUME Types, OneFate, NEW p \in Process, OnMessage(p)
  PROVE  \A r, q \in Process : /\ Fewer(News(r), News(r)', About(q))
                               /\ callback[r] => Alike(News(r), News(r)', About(q))
<1> DEFINE T == Message \cup {Exit}
           s == queue[p]
           d == down[p]
           x == Posted(p, <<Head(d)>>)
<1>1. s \in Seq(T) /\ d \in Seq(T) /\ d # <<>> BY NewsType DEF OnMessage
<1>2. /\ queue'[p] = s \o x /\ down'[p] = Tail(d)
      /\ \A r \in Process : r # p => queue'[r] = queue[r] /\ down'[r] = down[r]
  BY DEF OnMessage, Post, Types
<1>3. x = IF callback[p] THEN <<Head(d)>> ELSE <<>> BY DEF Posted, OneFate, Fates
<1>4. News(p) = s \o d /\ News(p)' = (s \o x) \o Tail(d) BY <1>2 DEF News
<1> HIDE DEF T, x, s, d
<1>5. \A q \in Process : /\ Alike(s \o d, (s \o <<Head(d)>>) \o Tail(d), About(q))
                         /\ Fewer(s \o d, s \o Tail(d), About(q))
  BY ONLY <1>1, SeqMoves
<1>6. s \o <<>> = s BY <1>1
<1>7. \A r \in Process : r # p => News(r)' = News(r) BY <1>2 DEF News
<1>8. \A r, q \in Process :
         /\ Alike(News(r), News(r), About(q)) /\ Fewer(News(r), News(r), About(q))
         /\ Alike(News(r), News(r)', About(q)) => Fewer(News(r), News(r)', About(q))
  BY NewsType, AlikeFacts
<1>9. \A q \in Process : /\ Fewer(News(p), News(p)', About(q))
                         /\ callback[p] => Alike(News(p), News(p)', About(q))
  BY <1>3, <1>4, <1>5, <1>6, <1>8
<1> QED BY <1>7, <1>8, <1>9

\* The signal server's messages join the end of the news of those that are
\* open.
LEMMA NewsDelivered ==
  ASSUME Types, NEW to \in [Process -> Seq(Message)], Deliver(to), queue' = queue,
         NEW r \in Process, NEW q \in Process
  PROVE  /\ readyState[r] # "OPEN" \/ ~Has(to[r], About(q)) => Alike(News(r), News(r)', About(q))
         /\ \A m : readyState[r] = "OPEN" /\ to[r] = <<m>> => Adds(News(r), News(r)', m, About(q))
         /\ readyState[r] = "OPEN" => \A D : Num(News(r)', D) = Num(News(r), D) + Num(to[r], D)
<1> DEFINE T == Message \cup {Exit}
           s == queue[r]
           d == down[r]
           x == to[r]
<1>1. s \in Seq(T) /\ d \in Seq(T) BY NewsType
<1>2. x \in Seq(T)
  <2>1. x \in Seq(Message) OBVIOUS
  <2> QED BY <2>1
<1>3. /\ readyState[r] = "OPEN" => down'[r] = d \o x
      /\ readyState[r] # "OPEN" => down'[r] = d
  BY DEF Deliver
<1>4. /\ News(r) = s \o d
      /\ readyState[r] = "OPEN" => News(r)' = s \o (d \o x)
      /\ readyState[r] # "OPEN" => News(r)' = News(r)
  BY <1>3 DEF News
<1>5. Alike(News(r), News(r), About(q)) BY NewsType, AlikeFacts
<1> HIDE DEF T, x, s, d
<1>6. /\ ~Has(x, About(q)) => Alike(s \o d, s \o (d \o x), About(q))
      /\ \A m : x = <<m>> => Adds(s \o d, s \o (d \o x), m, About(q))
  BY ONLY <1>1, <1>2, SeqEnds
<1>7. \A D : Num(s \o (d \o x), D) = Num(s \o d, D) + Num(x, D)
  <2> DEFINE y == d \o x
             u == s \o d
             w == s \o y
  <2>1. y \in Seq(T) /\ Joint(d, x, y) BY <1>1, <1>2, Concat
  <2>2. Joint(s, d, u) BY <1>1, Concat
  <2> HIDE DEF u, y
  <2>3. Joint(s, y, w) BY <1>1, <2>1, Concat
  <2> HIDE DEF w
  <2>4. \A D : Num(w, D) = Num(u, D) + Num(x, D)
    <3> TAKE D
    <3>1. JointIn(D, D, d, x, y) /\ JointIn(D, D, s, d, u) /\ JointIn(D, D, s, y, w)
      BY <2>1, <2>2, <2>3 DEF Joint
    <3> QED BY <3>1 DEF JointIn
  <2> QED BY <2>4 DEF u, w, y
<1> QED BY <1>4, <1>5, <1>6, <1>7 DEF x

\* What p was to hear after the messages in its queue, or all, is lost.
LEMMA NewsCut ==
  ASSUME Types, NEW p \in Process, queue'[p] = queue[p] \/ queue'[p] = <<>>, down'[p] = <<>>,
         \A r \in Process : r # p => queue'[r] = queue[r] /\ down'[r] = down[r]
  PROVE  \A r, q \in Process :
             /\ Fewer(News(r), News(r)', About(q)) /\ Ordered(News(r), News(r)', About(q))
             /\ r # p => Alike(News(r), News(r)', About(q))
<1> DEFINE T == Message \cup {Exit}
           s == queue[p]
           d == down[p]
<1>1. s \in Seq(T) /\ d \in Seq(T) BY NewsType
<1>2. s \o <<>> = s /\ <<>> \o <<>> = <<>> BY <1>1
<1>3. News(p) = s \o d /\ (News(p)' = s \/ News(p)' = <<>>) BY <1>2 DEF News
<1>4. \A r \in Process : r # p => News(r)' = News(r) BY DEF News
<1> HIDE DEF T, s, d
<1>5. \A q \in Process : /\ Fewer(s \o d, s, About(q)) /\ Ordered(s \o d, s, About(q))
                         /\ Fewer(s \o d, <<>>, About(q)) /\ Ordered(s \o d, <<>>, About(q))
  BY ONLY <1>1, SeqCut
<1>6. \A r, q \in Process : /\ Alike(News(r), News(r), About(q))
                            /\ Fewer(News(r), News(r), About(q))
                            /\ Ordered(News(r), News(r), About(q))
  BY NewsType, AlikeFacts
<1> QED BY <1>3, <1>4, <1>5, <1>6

-----------------------------------------------------------------------------
(* What a pair is to each other.                                           *)

Offers == {"offer", "answer"}
Cands == {"candidate"}
Ours(p) == IF p = Server THEN "answer" ELSE "offer"
Theirs(p) == IF p = Server THEN "offer" ELSE "answer"

\* What of q's offer, answer and candidates is on its way to p, and how often
\* p is still to be told that q has joined.
Flying(p, q, P) == Num(News(p), From(q, P)) + Num(up[q], To(p, P))
Calls(p, q) == Num(News(p), {Joined(q)})
Pending(p, q) == Calls(p, q) > 0
Silent(p, q) == Flying(p, q, Payload) = 0

\* p has not joined the room yet.
Fresh(p) == p \notin member /\ ~Away(p)

\* A process that has something of another, or is about to, has met it in the
\* room; it is told once, and has no Conductor before.
Met(p, q) ==
    /\ conductor[p][q] # NoConductor \/ Pending(p, q) \/ ~Silent(p, q) =>
           ~Fresh(p) /\ ~Fresh(q) /\ p # q /\ (p = Server \/ q = Server)
    /\ Pending(p, q) => conductor[p][q] = NoConductor
    /\ Calls(p, q) <= 1

AllMet == \A p, q \in Process : Met(p, q)

\* What q sends to p gets there.
Intact(p, q) == p \in member /\ q \in member /\ readyState[p] = "OPEN"
-----------------------------------------------------------------------------
(* The steps, as they are seen by a pair: p hears of q.                    *)

NewsKept(p, q) ==
    /\ Fewer(News(p), News(p)', About(q))
    /\ callback'[p] => Ordered(News(p), News(p)', About(q))
    /\ callback'[p] /\ readyState'[p] = "OPEN" => Alike(News(p), News(p)', About(q))

UpKept(p, q) ==
    /\ Fewer(up[q], up'[q], Addressed(p))
    /\ Intact(p, q)' => Alike(up[q], up'[q], Addressed(p))

\* OnFailure of a Conductor that is kept.
Undescribed(c) == [c EXCEPT !.creating = "none", !.failed = TRUE]

Closed(p, q) ==
    LET c == conductor[p][q]
    IN  \/ conductor'[p][q] \in {c, NoConductor, [c EXCEPT !.kept = FALSE]}
        \/ c.creating # "none" /\ conductor'[p][q] = Undescribed(c)

\* Nothing is said between them, heard or made.
Calm(p, q) ==
    /\ (p \in member' => p \in member) /\ (q \in member' => q \in member)
    /\ NewsKept(p, q) /\ Calls(q, p)' <= Calls(q, p) /\ UpKept(p, q)
    /\ Closed(p, q) /\ Closed(q, p)

\* One of them joins, or neither has begun.
Blank(p, q) ==
    /\ conductor[p][q] = NoConductor /\ conductor[q][p] = NoConductor
    /\ Silent(p, q) /\ Calls(p, q) <= 1
    /\ Pending(p, q) => p \in member /\ q \in member /\ p # q /\ (p = Server \/ q = Server)

Steady == UNCHANGED <<callback, readyState, member>>

\* OnPeerConnected: p makes a Conductor for q.
Begun(p, c) ==
    /\ c.local = "none" /\ c.theirs = "none" /\ c.added = 0
    /\ c.creating = "none" \/ (p # Server /\ c.creating = "offer")

Greets(p, q) ==
    /\ Steady /\ UNCHANGED up
    /\ Takes(News(p), News(p)', Joined(q), About(q))
    /\ Alike(News(q), News(q)', About(p))
    /\ conductor'[q][p] = conductor[q][p]
    /\ IF callback[p] THEN Begun(p, conductor'[p][q]) ELSE conductor'[p][q] = conductor[p][q]

\* OnReceivedOffer: p hears a description or a candidate of q.
Hears(p, q) ==
    /\ Steady /\ UNCHANGED up
    /\ \E x \in Payload :
           /\ Takes(News(p), News(p)', Offered(q, x), About(q))
           /\ conductor'[p][q] \in IF callback[p] /\ conductor[p][q].kept
                                   THEN Heard(conductor[p][q], x) ELSE {conductor[p][q]}
    /\ Alike(News(q), News(q)', About(p))
    /\ conductor'[q][p] = conductor[q][p]

\* OnSuccess and OnIceCandidate: p describes itself to q.
Says(p, q, x) ==
    /\ Steady /\ UNCHANGED <<queue, down>>
    /\ IF conductor[p][q].remote /\ readyState[p] = "OPEN"
       THEN Adds(up[p], up'[p], Offering(q, x), Addressed(q)) ELSE up'[p] = up[p]
    /\ up'[q] = up[q]
    /\ conductor'[q][p] = conductor[q][p]

Described(c) ==
    IF c.kept THEN [c EXCEPT !.creating = "none", !.local = c.creating] ELSE NoConductor

Describes(p, q) ==
    LET c == conductor[p][q]
    IN  c.creating # "none" /\ Says(p, q, c.creating) /\ conductor'[p][q] = Described(c)

Gathers(p, q) ==
    LET c == conductor[p][q]
    IN  /\ c.local # "none" /\ c.left > 0
        /\ Says(p, q, "candidate")
        /\ conductor'[p][q] = [c EXCEPT !.left = c.left - 1]

\* The signal server passes on to p what q sends.
Relays(p, q) ==
    /\ Steady /\ Intact(p, q) /\ UNCHANGED conductor
    /\ \E x \in Payload : /\ Takes(up[q], up'[q], Offering(p, x), Addressed(p))
                          /\ Adds(News(p), News(p)', Offered(q, x), About(q))
    /\ Alike(News(q), News(q)', About(p))

Seen(p, q) ==
    \/ Calm(p, q) \/ Blank(p, q)' \/ Relays(p, q)
    \/ Greets(p, q) \/ Hears(p, q) \/ Describes(p, q) \/ Gathers(p, q)
    \/ Greets(q, p) \/ Hears(q, p) \/ Describes(q, p) \/ Gathers(q, p)
-----------------------------------------------------------------------------
\* Who loses news is not told more often.
LEMMA CallsKept ==
  ASSUME NEW p \in Process, NEW q \in Process, Fewer(News(p), News(p)', About(q))
  PROVE  Calls(p, q)' <= Calls(p, q)
BY AboutFacts DEF Fewer, Calls

\* Alike news are kept.
LEMMA NewsKeeps ==
  ASSUME Types, NEW p \in Process, NEW q \in Process, Alike(News(p), News(p)', About(q))
  PROVE  NewsKept(p, q)
BY NewsType, AlikeFacts DEF NewsKept

\* Alike requests are kept.
LEMMA UpKeeps ==
  ASSUME Types, NEW p \in Process, NEW q \in Process,
         up'[q] = up[q] \/ Alike(up[q], up'[q], Addressed(p))
  PROVE  UpKept(p, q)
<1>1. up[q] \in Seq(Request) BY DEF Types
<1> QED BY <1>1, AlikeFacts DEF UpKept

\* What a step in which neither p nor q says, hears or makes anything has to show.
LEMMA CalmStep ==
  ASSUME NEW p \in Process, NEW q \in Process,
         p \in member' => p \in member, q \in member' => q \in member,
         NewsKept(p, q), NewsKept(q, p), UpKept(p, q), Closed(p, q), Closed(q, p)
  PROVE  Seen(p, q)
BY CallsKept DEF Seen, Calm, NewsKept

\* A process dies.
LEMMA DiesCalm ==
  ASSUME Types, NEW x \in Process, NEW how, Dies(x, how)
  PROVE  \A p, q \in Process : Seen(p, q)
<1> TAKE p, q \in Process
<1>1. /\ queue'[x] = <<>> /\ down'[x] = <<>> /\ callback'[x] = FALSE
      /\ \A r \in Process : r # x => queue'[r] = queue[r] /\ down'[r] = down[r]
      /\ UNCHANGED <<up, member>>
  BY DEF Dies, Types
<1>2. \A r, s \in Process : NewsKept(r, s)
  <2> TAKE r, s \in Process
  <2>1. /\ Fewer(News(r), News(r)', About(s)) /\ Ordered(News(r), News(r)', About(s))
        /\ r # x => Alike(News(r), News(r)', About(s))
    BY <1>1, NewsCut
  <2> QED BY <1>1, <2>1 DEF NewsKept
<1>3. \A r, s \in Process : Closed(r, s) BY DEF Dies, Types, Closed
<1> QED BY <1>1, <1>2, <1>3, UpKeeps, CalmStep

\* The signal connection's thread runs, or the connection is lost.
LEMMA SubThreadCalm ==
  ASSUME Types, OneFate, NEW x \in Process, SubThread(x) \/ Lost(x), ~OnMessage(x),
         NEW p \in Process, NEW q \in Process
  PROVE  Seen(p, q)
<1>1. CASE Dies(x, "dead") BY <1>1, DiesCalm
<1>2. CASE ~Dies(x, "dead")
  <2>1. member' = member /\ \A r, s \in Process : Closed(r, s)
    BY <1>2 DEF SubThread, OnOpen, OnError, OnErrorAgain, OnServerConnectionFailure, OnMessage,
       OnClose, OnDisconnected, Lost, Closed
  <2>2. \A r, s \in Process : UpKept(r, s)
    <3> TAKE r, s \in Process
    <3>1. CASE OnOpen(x) /\ s = x /\ callback[x]
      <4> DEFINE m == [msgid |-> IF x = Server THEN "CreateRoom" ELSE "SignIn"]
      <4>1. m \in Request /\ m \in Joining BY DEF Request, Joining
      <4>2. up[s] \in Seq(Request) /\ up'[s] = Append(up[s], m) BY <3>1 DEF OnOpen, Types
      <4>3. m \notin Addressed(r) BY <4>1, AddressedFacts
      <4> HIDE DEF m
      <4>4. Append(up[s], m) \in Seq(Request) BY <4>1, <4>2
      <4>5. Adds(up[s], up'[s], m, Addressed(r)) BY <4>1, <4>2, UpAdds
      <4>6. Alike(up[s], up'[s], Addressed(r)) BY <4>2, <4>3, <4>4, <4>5, AlikeFacts
      <4> QED BY <4>6, UpKeeps
    <3>2. CASE ~(OnOpen(x) /\ s = x /\ callback[x])
      <4>1. up'[s] = up[s]
        BY <1>2, <3>2
        DEF SubThread, OnOpen, OnError, OnErrorAgain, OnServerConnectionFailure, OnMessage,
            OnClose, OnDisconnected, Lost, Types
      <4> QED BY <4>1, UpKeeps
    <3> QED BY <3>1, <3>2
  <2>3. \A r, s \in Process : NewsKept(r, s)
    <3> TAKE r, s \in Process
    <3>1. CASE queue' = queue /\ down' = down
      <4>1. News(r)' = News(r) BY <3>1 DEF News
      <4> QED BY <4>1, NewsType, AlikeFacts, NewsKeeps
    <3>2. CASE OnError(x) \/ OnServerConnectionFailure(x)
      <4>1. /\ Posted(x, ServerConnectionFailure(x)) \in {<<>>, <<Exit>>}
            /\ Posted(x, <<Exit>>) \in {<<>>, <<Exit>>}
        BY FailurePosted DEF Posted
      <4>2. Post(x, ServerConnectionFailure(x)) \/ Post(x, <<Exit>>)
        BY <1>2, <3>2 DEF OnError, OnServerConnectionFailure
      <4>3. down' = down BY <1>2, <3>2 DEF OnError, OnServerConnectionFailure
      <4> QED BY <4>1, <4>2, <4>3, NewsPosted, NewsKeeps
    <3>3. CASE Lost(x)
      <4>1. /\ readyState'[x] = "CLOSED" /\ queue' = queue /\ down'[x] = <<>>
            /\ \A y \in Process : y # x => down'[y] = down[y]
        BY <3>3 DEF Lost, Types
      <4>2. /\ Fewer(News(r), News(r)', About(s)) /\ Ordered(News(r), News(r)', About(s))
            /\ r # x => Alike(News(r), News(r)', About(s))
        BY <4>1, NewsCut
      <4> QED BY <4>1, <4>2 DEF NewsKept
    <3> QED BY <1>2, <3>1, <3>2, <3>3
            DEF SubThread, OnOpen, OnErrorAgain, OnClose, OnDisconnected
  <2> QED BY <2>1, <2>2, <2>3, CalmStep
<1> QED BY <1>1, <1>2

\* The signal connection's thread posts a message to the signal thread.
LEMMA OnMessageCalm ==
  ASSUME Types, OneFate, NEW x \in Process, OnMessage(x), NEW p \in Process, NEW q \in Process
  PROVE  Seen(p, q)
<1>1. UNCHANGED <<callback, up, conductor, member>> BY DEF OnMessage
<1>2. \A r, s \in Process : NewsKept(r, s)
  <2> TAKE r, s \in Process
  <2>1. /\ Fewer(News(r), News(r)', About(s))
        /\ callback[r] => Alike(News(r), News(r)', About(s))
    BY NewsMoved
  <2>2. Alike(News(r), News(r)', About(s)) => NewsKept(r, s) BY NewsKeeps
  <2> QED BY <1>1, <2>1, <2>2 DEF NewsKept
<1>3. \A r, s \in Process : UpKept(r, s) /\ Closed(r, s) BY <1>1, UpKeeps DEF Closed
<1> QED BY <1>1, <1>2, <1>3, CalmStep

-----------------------------------------------------------------------------
(* The signal thread's steps.                                              *)

\* The signal thread of x handles a message that is not of q's joining, nor from q.
LEMMA HandledKept ==
  ASSUME Types, NEW x \in Process, queue[x] # <<>>, NEW messages, Handled(x, messages),
         Posted(x, messages) \in {<<>>, <<Exit>>}, down' = down,
         NEW r \in Process, NEW s \in Process, r = x => Head(queue[x]) \notin About(s)
  PROVE  Alike(News(r), News(r)', About(s)) /\ NewsKept(r, s)
<1>1. CASE r = x
  <2>1. Takes(News(r), News(r)', Head(queue[x]), About(s)) BY <1>1, NewsHandled
  <2>2. News(r)' \in Seq(Message \cup {Exit})
    <3> DEFINE T == Message \cup {Exit}
               e == Tail(queue[x])
               y == Posted(x, messages)
               d == down[x]
    <3>1. queue[x] \in Seq(T) /\ d \in Seq(T) /\ Exit \in T BY NewsType
    <3>2. queue'[x] = e \o y /\ down'[x] = d BY DEF Handled, Types
    <3>3. e \in Seq(T) BY <3>1
    <3> HIDE DEF T, e, d
    <3>4. y \in Seq(T)
      <4>1. <<Exit>> \in Seq(T) /\ <<>> \in Seq(T) BY <3>1
      <4> QED BY <4>1
    <3> HIDE DEF y
    <3>5. (e \o y) \o d \in Seq(T) BY <3>1, <3>3, <3>4, ConcatProperties
    <3> QED BY <1>1, <3>2, <3>5 DEF News, T
  <2>3. Alike(News(r), News(r)', About(s)) BY <1>1, <2>1, <2>2, NewsType, AlikeFacts
  <2> QED BY <2>3, NewsKeeps
<1>2. CASE r # x
  <2>1. News(r)' = News(r) BY <1>2, NewsHandled
  <2> QED BY <2>1, NewsType, AlikeFacts, NewsKeeps
<1> QED BY <1>1, <1>2

\* The signal thread handles a message that is of no peer, or of one leaving.
LEMMA HandledCalm ==
  ASSUME Types, OneFate, NEW x \in Process,
         OnCreatedRoom(x) \/ OnSignedIn(x) \/ OnPeerDisconnected(x) \/ OnExit(x),
         NEW p \in Process, NEW q \in Process
  PROVE  Seen(p, q)
<1>1. queue[x] # <<>> /\ Head(queue[x]).msgid \notin {"PeerConnected", "ReceivedOffer"}
  BY DEF OnCreatedRoom, OnSignedIn, OnPeerDisconnected, OnExit, Taken
<1>2. \A s \in Process : Head(queue[x]) \notin About(s) BY <1>1, AboutFacts
<1>3. \E messages : Handled(x, messages) /\ Posted(x, messages) \in {<<>>, <<Exit>>}
  <2>1. Posted(x, <<>>) = <<>> /\ Posted(x, <<Exit>>) \in {<<>>, <<Exit>>} BY DEF Posted
  <2>2. Posted(x, ServerConnectionFailure(x)) \in {<<>>, <<Exit>>} BY FailurePosted
  <2> QED BY <2>1, <2>2 DEF OnCreatedRoom, OnSignedIn, OnPeerDisconnected, OnExit
<1>4. down' = down /\ member' = member
  BY DEF OnCreatedRoom, OnSignedIn, OnPeerDisconnected, OnExit
<1>5. \A r, s \in Process : NewsKept(r, s) BY <1>1, <1>2, <1>3, <1>4, HandledKept
<1>6. \A r, s \in Process : UpKept(r, s)
  <2> TAKE r, s \in Process
  <2>1. CASE OnCreatedRoom(x) /\ s = x /\ Send(x, [msgid |-> "SignIn"])
    <3> DEFINE m == [msgid |-> "SignIn"]
    <3>1. m \in Request /\ m \in Joining BY DEF Request, Joining
    <3>2. up[s] \in Seq(Request) /\ (up'[s] = up[s] \/ up'[s] = Append(up[s], m))
      BY <2>1 DEF Send, Types
    <3>3. m \notin Addressed(r) BY <3>1, AddressedFacts
    <3> HIDE DEF m
    <3>4. Append(up[s], m) \in Seq(Request) BY <3>1, <3>2
    <3>5. Adds(up[s], Append(up[s], m), m, Addressed(r)) BY <3>1, <3>2, UpAdds
    <3>6. Alike(up[s], Append(up[s], m), Addressed(r)) BY <3>2, <3>3, <3>4, <3>5, AlikeFacts
    <3> QED BY <3>2, <3>6, UpKeeps
  <2>2. CASE ~(OnCreatedRoom(x) /\ s = x /\ Send(x, [msgid |-> "SignIn"]))
    <3>1. up'[s] = up[s]
      BY <2>2 DEF OnCreatedRoom, OnSignedIn, OnPeerDisconnected, OnExit, Send, Types
    <3> QED BY <3>1, UpKeeps
  <2> QED BY <2>1, <2>2
<1>7. \A r, s \in Process : Closed(r, s)
  <2> TAKE r, s \in Process
  <2>1. CASE conductor' = conductor BY <2>1 DEF Closed
  <2>2. CASE OnPeerDisconnected(x) /\ conductor' # conductor
    <3> DEFINE y == Head(queue[x]).peer
    <3>1. y \in Process BY <2>2, MessageTypes DEF OnPeerDisconnected, Taken
    <3>2. conductor' = [conductor EXCEPT ![x][y] = Erased(x, conductor[x][y])]
      BY <2>2 DEF OnPeerDisconnected
    <3> HIDE DEF y
    <3>3. conductor'[r][s] = IF r = x /\ s = y THEN Erased(x, conductor[x][y]) ELSE conductor[r][s]
      BY <3>1, <3>2 DEF Types
    <3> QED BY <3>3 DEF Closed, Erased
  <2> QED BY <2>1, <2>2 DEF OnCreatedRoom, OnSignedIn, OnPeerDisconnected, OnExit
<1> QED BY <1>4, <1>5, <1>6, <1>7, CalmStep

\* The first message of the news.
LEMMA HeadPresent ==
  ASSUME Types, NEW x \in Process, queue[x] # <<>>, NEW D, Head(queue[x]) \in D
  PROVE  Num(News(x), D) > 0
<1> DEFINE T == Message \cup {Exit}
           s == queue[x]
           d == down[x]
<1>1. s \in Seq(T) /\ d \in Seq(T) BY NewsType
<1>2. Has(s, D)
  <2>1. 1 \in 1..Len(s) /\ Head(s) = s[1] BY <1>1
  <2> QED BY <2>1 DEF Has
<1> HIDE DEF T, s, d
<1>3. Num(s, D) > 0 /\ Num(s, D) \in Nat BY <1>1, <1>2, NumType
<1>4. Num(d, D) \in Nat /\ Num(s \o d, D) = Num(s, D) + Num(d, D)
  <2>1. Joint(s, d, s \o d) BY <1>1, Concat
  <2> QED BY <2>1 DEF Joint, JointIn
<1> QED BY <1>3, <1>4 DEF News, s, d

\* InitializePeerConnection makes a PeerConnection, or clears the Conductor.
LEMMA InitializedFacts ==
  ASSUME NEW c \in Sound, NEW d \in InitializePeerConnection(c)
  PROVE  /\ d \in Sound /\ d.kept = c.kept
         /\ \/ /\ d.pc /\ d.remote = c.remote /\ d.left = MaxCandidate /\ d.added = c.added
               /\ d.creating = c.creating /\ d.local = c.local /\ d.theirs = c.theirs
            \/ /\ ~d.pc /\ ~d.remote /\ d.added = 0
               /\ d.creating = "none" /\ d.local = "none" /\ d.theirs = "none"
<1>1. d \in Sound BY InitializedType
<1>2. c \in Conductor BY DEF Sound
<1>3. CASE d = [c EXCEPT !.pc = TRUE, !.left = MaxCandidate]
  <2> DEFINE e == [c EXCEPT !.pc = TRUE]
  <2>1. /\ e \in Conductor /\ e.pc /\ e.kept = c.kept /\ e.remote = c.remote /\ e.added = c.added
        /\ e.creating = c.creating /\ e.local = c.local /\ e.theirs = c.theirs
    BY <1>2 DEF Conductor
  <2>2. d = [e EXCEPT !.left = MaxCandidate] BY <1>3
  <2> HIDE DEF e
  <2>3. /\ d.pc /\ d.kept = e.kept /\ d.remote = e.remote /\ d.added = e.added
        /\ d.creating = e.creating /\ d.local = e.local /\ d.theirs = e.theirs
        /\ d.left = MaxCandidate
    BY <2>1, <2>2 DEF Conductor
  <2> QED BY <1>1, <2>1, <2>3
<1>4. CASE d = DeletePeerConnection(c)
  <2>1. NoConductor \in Conductor
    BY CandidateAssumption DEF NoConductor, Conductor, Description
  <2>2. /\ ~NoConductor.pc /\ ~NoConductor.remote /\ NoConductor.added = 0
        /\ NoConductor.creating = "none" /\ NoConductor.local = "none" /\ NoConductor.theirs = "none"
    BY DEF NoConductor
  <2>3. d = [NoConductor EXCEPT !.kept = c.kept] BY <1>4 DEF DeletePeerConnection
  <2> QED BY <1>1, <2>1, <2>2, <2>3 DEF Conductor
<1> QED BY <1>3, <1>4 DEF InitializePeerConnection

\* ConnectToPeer starts the negotiation, a client's with CreateOffer.
LEMMA ConnectedBegun ==
  ASSUME NEW x \in Process, NEW c \in Sound, c.creating = "none", c.local = "none",
         c.theirs = "none", c.added = 0, NEW e \in ConnectToPeer(x, c)
  PROVE  Begun(x, e)
<1>1. CASE x = Server BY <1>1 DEF ConnectToPeer, Begun
<1>2. CASE x # Server
  <2>1. PICK d \in InitializePeerConnection(c) :
           e = [d EXCEPT !.creating = IF d.pc THEN "offer" ELSE "none"]
    BY <1>2 DEF ConnectToPeer
  <2>2. d \in Conductor /\ d.local = "none" /\ d.theirs = "none" /\ d.added = 0
    BY InitializedFacts DEF Sound
  <2>3. /\ e.local = d.local /\ e.theirs = d.theirs /\ e.added = d.added
        /\ e.creating \in {"none", "offer"}
    BY <2>1, <2>2 DEF Conductor
  <2> QED BY <1>2, <2>2, <2>3 DEF Begun
<1> QED BY <1>1, <1>2

\* x makes a Conductor for the peer that joined: all but these two are calm.
LEMMA OnPeerConnectedSeen ==
  ASSUME Types, OneFate, AllMet, NEW x \in Process, OnPeerConnected(x),
         NEW p \in Process, NEW q \in Process
  PROVE  Seen(p, q)
<1> DEFINE new == [NoConductor EXCEPT !.kept = TRUE, !.remote = TRUE]
<1>1. queue[x] # <<>> /\ \E y \in Process : Head(queue[x]) = Joined(y)
  BY TakenMessage, MessageTypes, JoinedFacts DEF OnPeerConnected, Taken
<1>2. PICK y \in Process : Head(queue[x]) = Joined(y) /\ Head(queue[x]).peer = y
  BY <1>1, JoinedFacts
<1> DEFINE c == conductor[x][y]
<1>3. CASE InitializationCrashes(x) BY <1>3, DiesCalm DEF InitializationCrashes
<1>4. CASE ~InitializationCrashes(x)
  <2>1. PICK e \in (IF callback[x] /\ ~c.kept THEN ConnectToPeer(x, new) ELSE {c}) :
             conductor' = [conductor EXCEPT ![x][y] = e]
    BY <1>2, <1>4 DEF OnPeerConnected
  <2>2. /\ Handled(x, <<>>) /\ Posted(x, <<>>) = <<>>
        /\ UNCHANGED <<callback, readyState, up, down, member>>
    BY <1>4 DEF OnPeerConnected, Posted
  <2>3. Pending(x, y)
    <3>1. Head(queue[x]) \in {Joined(y)} BY <1>2
    <3> QED BY <1>1, <3>1, HeadPresent DEF Pending, Calls
  <2>4. c = NoConductor /\ x # y /\ ~c.kept BY <2>3 DEF AllMet, Met, NoConductor
  <2>5. \A r, s \in Process : conductor'[r][s] = IF r = x /\ s = y THEN e ELSE conductor[r][s]
    BY <2>1 DEF Types
  <2>6. ASSUME NEW r \in Process, NEW s \in Process, ~(r = x /\ s = y)
        PROVE  Alike(News(r), News(r)', About(s)) /\ NewsKept(r, s) /\ Closed(r, s)
    <3>1. r = x => Head(queue[x]) \notin About(s) BY <1>2, <2>6, AboutFacts
    <3> QED BY <1>1, <2>2, <2>5, <2>6, <3>1, HandledKept DEF Closed
  <2>7. Greets(x, y)
    <3>1. Takes(News(x), News(x)', Joined(y), About(y)) BY <1>1, <1>2, <2>2, NewsHandled
    <3>2. Alike(News(y), News(y)', About(x)) BY <2>4, <2>6
    <3>3. callback[x] => Begun(x, e)
      <4> SUFFICES ASSUME callback[x] PROVE Begun(x, e) OBVIOUS
      <4>1. e \in ConnectToPeer(x, new) BY <2>1, <2>4
      <4>2. new \in Sound /\ new.creating = "none" /\ new.local = "none" /\ new.theirs = "none"
            /\ new.added = 0
        <5>1. NoConductor \in Conductor
          BY CandidateAssumption DEF NoConductor, Conductor, Description
        <5>2. /\ NoConductor.creating = "none" /\ NoConductor.local = "none"
              /\ NoConductor.theirs = "none" /\ NoConductor.added = 0
          BY DEF NoConductor
        <5> QED BY <5>1, <5>2 DEF Sound, Conductor
      <4> HIDE DEF new
      <4> QED BY <4>1, <4>2, ConnectedBegun
    <3>4. conductor'[y][x] = conductor[y][x] /\ conductor'[x][y] = e BY <2>4, <2>5
    <3>5. ~callback[x] => e = c BY <2>1
    <3> QED BY <2>2, <3>1, <3>2, <3>3, <3>4, <3>5 DEF Greets, Steady
  <2>8. CASE (p = x /\ q = y) \/ (p = y /\ q = x) BY <2>7, <2>8 DEF Seen
  <2>9. CASE ~(p = x /\ q = y) /\ ~(p = y /\ q = x)
    BY <2>2, <2>6, <2>9, UpKeeps, CalmStep
  <2> QED BY <2>8, <2>9
<1> QED BY <1>3, <1>4

\* x applies what a peer sent it.
LEMMA OnReceivedOfferSeen ==
  ASSUME Types, OneFate, AllMet, NEW x \in Process, OnReceivedOffer(x),
         NEW p \in Process, NEW q \in Process
  PROVE  Seen(p, q)
<1>1. /\ queue[x] # <<>> /\ Head(queue[x]) \in Message \cup {Exit}
      /\ Head(queue[x]).msgid = "ReceivedOffer"
  BY TakenMessage DEF OnReceivedOffer
<1>2. \E y \in Process : \E payload \in Payload : Head(queue[x]) = Offered(y, payload)
  <2> DEFINE m == Head(queue[x])
  <2>1. m \in Message \cup {Exit} /\ m.msgid = "ReceivedOffer" BY <1>1
  <2> HIDE DEF m
  <2>2. \E y \in Process : \E payload \in Payload : m = Offered(y, payload) BY <2>1, OfferedFacts
  <2> QED BY <2>2 DEF m
<1>3. PICK y \in Process, payload \in Payload :
         /\ Head(queue[x]) = Offered(y, payload) /\ Head(queue[x]).peer = y
         /\ Head(queue[x]).payload = payload
  BY <1>2, OfferedFacts
<1> DEFINE c == conductor[x][y]
<1>4. CASE InitializationCrashes(x) BY <1>4, DiesCalm DEF InitializationCrashes
<1>5. CASE ~InitializationCrashes(x)
  <2>1. PICK e \in (IF callback[x] /\ c.kept THEN Heard(c, payload) ELSE {c}) :
             conductor' = [conductor EXCEPT ![x][y] = e]
    BY <1>3, <1>5 DEF OnReceivedOffer
  <2>2. /\ Handled(x, <<>>) /\ Posted(x, <<>>) = <<>>
        /\ UNCHANGED <<callback, readyState, up, down, member>>
    BY <1>5 DEF OnReceivedOffer, Posted
  <2>3. ~Silent(x, y)
    <3>1. Head(queue[x]) \in From(y, Payload) BY <1>3, AboutFacts
    <3>2. Num(News(x), From(y, Payload)) > 0 BY <1>1, <3>1, HeadPresent
    <3>3. up[y] \in Seq(Request) BY DEF Types
    <3>4. Num(up[y], To(x, Payload)) \in Nat /\ Num(News(x), From(y, Payload)) \in Nat
      BY <3>3, NewsType, NumType
    <3> QED BY <3>2, <3>4 DEF Silent, Flying
  <2>4. x # y BY <2>3 DEF AllMet, Met
  <2>5. \A r, s \in Process : conductor'[r][s] = IF r = x /\ s = y THEN e ELSE conductor[r][s]
    BY <2>1 DEF Types
  <2>6. ASSUME NEW r \in Process, NEW s \in Process, ~(r = x /\ s = y)
        PROVE  Alike(News(r), News(r)', About(s)) /\ NewsKept(r, s) /\ Closed(r, s)
    <3>1. r = x => Head(queue[x]) \notin About(s) BY <1>3, <2>6, AboutFacts
    <3> QED BY <1>1, <2>2, <2>5, <2>6, <3>1, HandledKept DEF Closed
  <2>7. Hears(x, y)
    <3>1. Takes(News(x), News(x)', Offered(y, payload), About(y)) BY <1>1, <1>3, <2>2, NewsHandled
    <3>2. Alike(News(y), News(y)', About(x)) BY <2>4, <2>6
    <3>3. conductor'[y][x] = conductor[y][x] /\ conductor'[x][y] = e BY <2>4, <2>5
    <3> QED BY <2>1, <2>2, <3>1, <3>2, <3>3 DEF Hears, Steady
  <2>8. CASE (p = x /\ q = y) \/ (p = y /\ q = x) BY <2>7, <2>8 DEF Seen
  <2>9. CASE ~(p = x /\ q = y) /\ ~(p = y /\ q = x)
    BY <2>2, <2>6, <2>9, UpKeeps, CalmStep
  <2> QED BY <2>8, <2>9
<1> QED BY <1>4, <1>5

\* Every step of the signal thread.
LEMMA SignalThreadSeen ==
  ASSUME Types, OneFate, AllMet, NEW x \in Process, SignalThread(x),
         NEW p \in Process, NEW q \in Process
  PROVE  Seen(p, q)
<1>1. CASE End(x) BY <1>1, DiesCalm DEF End
<1> QED BY <1>1, HandledCalm, OnPeerConnectedSeen, OnReceivedOfferSeen DEF SignalThread

-----------------------------------------------------------------------------
(* The negotiation.                                                        *)

\* SendOffer sends, while the Conductor has its observer and the connection is
\* open.
LEMMA SendOfferSays ==
  ASSUME Types, NEW x \in Process, NEW y \in Process, NEW payload \in Payload,
         SendOffer(x, y, payload)
  PROVE  /\ IF conductor[x][y].remote /\ readyState[x] = "OPEN"
            THEN \A q \in Process : Adds(up[x], up'[x], Offering(y, payload), Addressed(q))
            ELSE up'[x] = up[x]
         /\ up'[x] \in Seq(Request)
         /\ \A r \in Process : r # x => up'[r] = up[r]
<1>1. Offering(y, payload) \in Request BY OfferedFacts
<1>2. up[x] \in Seq(Request) BY DEF Types
<1>3. \A q \in Process :
         Adds(up[x], Append(up[x], Offering(y, payload)), Offering(y, payload), Addressed(q))
  BY <1>1, <1>2, UpAdds
<1>4. conductor[x][y].remote => Send(x, Offering(y, payload)) BY DEF SendOffer, Offering
<1>5. ~conductor[x][y].remote => up' = up BY DEF SendOffer
<1> DEFINE m == Offering(y, payload)
<1> HIDE DEF m
<1>6. /\ conductor[x][y].remote /\ readyState[x] = "OPEN" => up'[x] = Append(up[x], m)
      /\ ~(conductor[x][y].remote /\ readyState[x] = "OPEN") => up'[x] = up[x]
      /\ \A r \in Process : r # x => up'[r] = up[r]
  BY <1>4, <1>5 DEF Send, Types, m
<1>7. up'[x] \in Seq(Request)
  <2>1. m \in Request BY <1>1 DEF m
  <2>2. Append(up[x], m) \in Seq(Request) BY <1>2, <2>1
  <2> QED BY <1>2, <1>6, <2>2
<1> QED BY <1>3, <1>6, <1>7 DEF m

\* What x does with its Conductor for y concerns these two alone.
LEMMA SaysOthers ==
  ASSUME Types, NEW x \in Process, NEW y \in Process, NEW payload \in Payload,
         SendOffer(x, y, payload), UNCHANGED <<queue, down, member>>,
         \A r, s \in Process : ~(r = x /\ s = y) => conductor'[r][s] = conductor[r][s],
         NEW p \in Process, NEW q \in Process, ~(p = x /\ q = y), ~(p = y /\ q = x)
  PROVE  Seen(p, q)
<1>1. \A r, s \in Process : NewsKept(r, s)
  <2> TAKE r, s \in Process
  <2>1. News(r)' = News(r) BY DEF News
  <2> QED BY <2>1, NewsType, AlikeFacts, NewsKeeps
<1>2. Closed(p, q) /\ Closed(q, p) BY DEF Closed
<1>3. UpKept(p, q)
  <2>1. CASE q = x /\ up'[x] # up[x]
    <3>1. Adds(up[x], up'[x], Offering(y, payload), Addressed(p)) /\ up'[x] \in Seq(Request)
      BY <2>1, SendOfferSays
    <3>2. Offering(y, payload) \notin Addressed(p) BY <2>1, AddressedFacts
    <3>3. up[x] \in Seq(Request) BY DEF Types
    <3>4. Alike(up[x], up'[x], Addressed(p)) BY <3>1, <3>2, <3>3, AlikeFacts
    <3> QED BY <2>1, <3>4, UpKeeps
  <2>2. CASE ~(q = x /\ up'[x] # up[x])
    <3>1. up'[q] = up[q] BY <2>2, SendOfferSays
    <3> QED BY <3>1, UpKeeps
  <2> QED BY <2>1, <2>2
<1> QED BY <1>1, <1>2, <1>3, CalmStep

\* WebRTC calls the Conductor of x for y.
LEMMA NegotiationSeen ==
  ASSUME Types, AllMet, NEW x \in Process, Negotiation(x), NEW p \in Process, NEW q \in Process
  PROVE  Seen(p, q)
<1>0. ASSUME NEW y \in Process, OnFailure(x, y) PROVE Seen(p, q)
  <2>1. UNCHANGED <<queue, up, down, member>> BY <1>0 DEF OnFailure
  <2>2. \A r, s \in Process : NewsKept(r, s) /\ UpKept(r, s)
    <3> TAKE r, s \in Process
    <3>1. News(r)' = News(r) /\ up'[s] = up[s] BY <2>1 DEF News
    <3> QED BY <3>1, NewsType, AlikeFacts, NewsKeeps, UpKeeps
  <2>3. \A r, s \in Process : Closed(r, s)
    <3>1. \A r, s \in Process : ~(r = x /\ s = y) => conductor'[r][s] = conductor[r][s]
      BY <1>0 DEF OnFailure, Types
    <3>2. Closed(x, y) BY <1>0 DEF OnFailure, Closed, Undescribed, Types
    <3> QED BY <3>1, <3>2 DEF Closed
  <2> QED BY <2>1, <2>2, <2>3, CalmStep
<1> SUFFICES ASSUME \A y \in Process : ~OnFailure(x, y) PROVE Seen(p, q) BY <1>0
<1>1. PICK y \in Process : OnSuccess(x, y) \/ OnIceCandidate(x, y) BY DEF Negotiation
<1> DEFINE c == conductor[x][y]
           d == conductor[y][x]
           payload == IF OnSuccess(x, y) THEN c.creating ELSE "candidate"
<1>2. UNCHANGED <<callback, readyState, queue, down, member>>
  BY <1>1 DEF OnSuccess, OnIceCandidate
<1>3. c \in Sound BY DEF Types
<1>4. \E e : conductor' = [conductor EXCEPT ![x][y] = e] /\
         \/ /\ OnSuccess(x, y) /\ c.creating \in Payload /\ SendOffer(x, y, c.creating)
            /\ e = Described(c)
         \/ /\ ~OnSuccess(x, y) /\ OnIceCandidate(x, y) /\ SendOffer(x, y, "candidate")
            /\ e = [c EXCEPT !.left = c.left - 1]
  <2>1. CASE OnSuccess(x, y)
    <3>1. c.creating \in Payload
      BY <1>3, <2>1 DEF OnSuccess, Sound, Conductor, Description, Payload
    <3> QED BY <2>1, <3>1 DEF OnSuccess, Described
  <2>2. CASE ~OnSuccess(x, y)
    <3>1. conductor' = [conductor EXCEPT ![x][y] = [c EXCEPT !.left = c.left - 1]]
      BY <1>1, <2>2 DEF OnIceCandidate, Types
    <3> QED BY <1>1, <2>2, <3>1 DEF OnIceCandidate
  <2> QED BY <2>1, <2>2
<1>5. PICK e : conductor' = [conductor EXCEPT ![x][y] = e] /\
         \/ /\ OnSuccess(x, y) /\ c.creating \in Payload /\ SendOffer(x, y, c.creating)
            /\ e = Described(c)
         \/ /\ ~OnSuccess(x, y) /\ OnIceCandidate(x, y) /\ SendOffer(x, y, "candidate")
            /\ e = [c EXCEPT !.left = c.left - 1]
  BY <1>4
<1>6. \A r, s \in Process : conductor'[r][s] = IF r = x /\ s = y THEN e ELSE conductor[r][s]
  BY <1>5 DEF Types
<1>7. x # y
  <2>1. NoConductor.creating = "none" /\ NoConductor.local = "none" BY DEF NoConductor
  <2>2. c # NoConductor BY <1>1, <2>1 DEF OnSuccess, OnIceCandidate
  <2> QED BY <2>2 DEF AllMet, Met
<1>8. payload \in Payload /\ SendOffer(x, y, payload) BY <1>5 DEF Payload
<1>9. Describes(x, y) \/ Gathers(x, y)
  <2>1. /\ IF c.remote /\ readyState[x] = "OPEN"
           THEN Adds(up[x], up'[x], Offering(y, payload), Addressed(y)) ELSE up'[x] = up[x]
        /\ up'[y] = up[y]
    BY <1>7, <1>8, SendOfferSays
  <2>2. conductor'[y][x] = d /\ conductor'[x][y] = e BY <1>6, <1>7
  <2>3. Says(x, y, payload) BY <1>2, <2>1, <2>2 DEF Says, Steady
  <2>4. CASE OnSuccess(x, y) BY <1>5, <2>2, <2>3, <2>4 DEF Describes, OnSuccess
  <2>5. CASE ~OnSuccess(x, y) BY <1>5, <2>2, <2>3, <2>5 DEF Gathers, OnIceCandidate
  <2> QED BY <2>4, <2>5
<1>10. CASE (p = x /\ q = y) \/ (p = y /\ q = x) BY <1>9, <1>10 DEF Seen
<1>11. CASE ~(p = x /\ q = y) /\ ~(p = y /\ q = x)
  <2> HIDE DEF payload
  <2> QED BY <1>2, <1>6, <1>8, <1>11, SaysOthers
<1> QED BY <1>10, <1>11
-----------------------------------------------------------------------------
(* The signal server's steps.                                              *)

\* It takes a request off up[x].
LEMMA UpTaken ==
  ASSUME Types, NEW x \in Process, up[x] # <<>>, up' = [up EXCEPT ![x] = Tail(@)],
         NEW q \in Process
  PROVE  /\ Takes(up[x], up'[x], Head(up[x]), Addressed(q))
         /\ Fewer(up[x], up'[x], Addressed(q))
         /\ Head(up[x]) \notin Addressed(q) => Alike(up[x], up'[x], Addressed(q))
         /\ \A r \in Process : r # x => up'[r] = up[r]
<1>1. up[x] \in Seq(Request) /\ up'[x] = Tail(up[x]) BY DEF Types
<1>2. Takes(up[x], up'[x], Head(up[x]), Addressed(q)) BY <1>1, UpTakes
<1>3. up'[x] \in Seq(Request) BY <1>1
<1>4. \A r \in Process : r # x => up'[r] = up[r] BY DEF Types
<1> QED BY <1>1, <1>2, <1>3, <1>4, AlikeFacts

\* A request to create a room, sign in or leave is addressed to no peer.
LEMMA JoiningTaken ==
  ASSUME Types, NEW x \in Process, up[x] # <<>>, up' = [up EXCEPT ![x] = Tail(@)],
         Head(up[x]) \in Joining
  PROVE  \A p, q \in Process : Alike(up[q], up'[q], Addressed(p)) /\ UpKept(p, q)
<1> TAKE p, q \in Process
<1>1. Head(up[x]) \notin Addressed(p) BY AddressedFacts
<1>2. up[q] \in Seq(Request) BY DEF Types
<1>3. Alike(up[q], up'[q], Addressed(p)) BY <1>1, <1>2, UpTaken, AlikeFacts
<1> QED BY <1>3, UpKeeps

\* The signal server answers a request to join.
LEMMA ReplyCalm ==
  ASSUME Types, NEW x \in Process, NEW m \in Message, Reply(x, m),
         m.msgid \notin {"PeerConnected", "ReceivedOffer"},
         UNCHANGED <<queue, conductor, member>>,
         up[x] # <<>>, up' = [up EXCEPT ![x] = Tail(@)], Head(up[x]) \in Joining,
         NEW p \in Process, NEW q \in Process
  PROVE  Seen(p, q)
<1> DEFINE to == [r \in Process |-> IF r = x THEN <<m>> ELSE <<>>]
<1>1. to \in [Process -> Seq(Message)] BY OneMessage
<1>2. Deliver(to) BY DEF Reply
<1>3. \A r, s \in Process : ~Has(to[r], About(s))
  <2>1. \A s \in Process : m \notin About(s) BY AboutFacts
  <2>2. \A r \in Process : to[r] = <<m>> \/ to[r] = <<>> OBVIOUS
  <2> HIDE DEF to
  <2> QED BY <2>1, <2>2, HasOne, HasNone
<1> HIDE DEF to
<1>4. \A r, s \in Process : NewsKept(r, s) BY <1>1, <1>2, <1>3, NewsDelivered, NewsKeeps
<1>5. \A r, s \in Process : Closed(r, s) BY DEF Closed
<1> QED BY <1>4, <1>5, JoiningTaken, CalmStep

\* The signal server tells the room that x has left.
LEMMA LeaveSeen ==
  ASSUME Types, NEW x \in Process, Leave(x), NEW p \in Process, NEW q \in Process
  PROVE  Seen(p, q)
<1> DEFINE to == Farewell(x)
<1>1. /\ UNCHANGED <<queue, conductor>> /\ member' = member \ {x}
      /\ up'[x] = <<>> /\ \A r \in Process : r # x => up'[r] = up[r]
  BY DEF Leave, Types
<1>2. Deliver(to) /\ to \in [Process -> Seq(Message)] BY FarewellType DEF Leave, Farewell
<1>3. \A r \in Process : to[r] = <<>> \/ to[r] = <<Parted(x)>> BY DEF Farewell, Parted
<1> HIDE DEF to
<1>4. \A r, s \in Process : ~Has(to[r], About(s))
  <2>1. Parted(x).msgid \notin {"PeerConnected", "ReceivedOffer"} BY JoinedFacts
  <2>2. \A s \in Process : Parted(x) \notin About(s) BY <2>1, AboutFacts
  <2> QED BY <1>3, <2>2, HasOne, HasNone
<1>5. \A r, s \in Process : NewsKept(r, s) BY <1>1, <1>2, <1>4, NewsDelivered, NewsKeeps
<1>6. UpKept(p, q)
  <2>1. CASE q = x
    <3>1. up[x] \in Seq(Request) BY DEF Types
    <3>2. Fewer(up[x], <<>>, Addressed(p))
      <4>1. \A D : Num(up[x], D) \in Nat /\ Num(<<>>, D) = 0 BY <3>1, NumType, NumNone
      <4> QED BY <4>1 DEF Fewer
    <3>3. ~Intact(p, q)' BY <1>1, <2>1 DEF Intact
    <3> QED BY <1>1, <2>1, <3>2, <3>3 DEF UpKept
  <2>2. CASE q # x BY <1>1, <2>2, UpKeeps
  <2> QED BY <2>1, <2>2
<1>7. \A r, s \in Process : Closed(r, s) BY <1>1 DEF Closed
<1> QED BY <1>1, <1>5, <1>6, <1>7, CalmStep

\* The signal server passes on what x sends to another member.
LEMMA RelaySeen ==
  ASSUME Types, AllMet, NEW x \in Process, Relay(x), NEW p \in Process, NEW q \in Process
  PROVE  Seen(p, q)
<1>1. /\ up[x] # <<>> /\ up' = [up EXCEPT ![x] = Tail(@)]
      /\ UNCHANGED <<callback, readyState, queue, conductor, member>>
  BY DEF Relay
<1>2. \E y \in Process : \E payload \in Payload : Head(up[x]) = Offering(y, payload)
  <2> DEFINE m == Head(up[x])
  <2>1. m \in Request /\ m.msgid = "SendOffer" BY DEF Relay, Types
  <2> HIDE DEF m
  <2>2. \E y \in Process : \E payload \in Payload : m = Offering(y, payload) BY <2>1, OfferedFacts
  <2> QED BY <2>2 DEF m
<1>3. PICK y \in Process, payload \in Payload :
         /\ Head(up[x]) = Offering(y, payload) /\ Head(up[x]).peer = y
         /\ Head(up[x]).payload = payload
  BY <1>2, OfferedFacts
<1> DEFINE answer == Offered(x, payload)
           to == [r \in Process |-> IF r = y THEN <<answer>> ELSE <<>>]
<1>4. IF x \in member /\ y \in member THEN Deliver(to) ELSE down' = down
  BY <1>3 DEF Relay, Offered
<1>5. to \in [Process -> Seq(Message)]
  <2>1. answer \in Message BY OfferedFacts
  <2> HIDE DEF answer
  <2> QED BY <2>1, OneMessage
<1>6. x # y
  <2>1. Num(up[x], To(y, Payload)) > 0
    <3>1. Takes(up[x], up'[x], Offering(y, payload), Addressed(y)) BY <1>1, <1>3, UpTaken
    <3>2. To(y, Payload) \in SUBSET Addressed(y) /\ Offering(y, payload) \in To(y, Payload)
      BY AddressedFacts
    <3>3. Num(up[x], To(y, Payload)) = 1 + Num(up'[x], To(y, Payload)) BY <3>1, <3>2 DEF Takes
    <3>4. up'[x] \in Seq(Request) BY <1>1 DEF Types
    <3>5. Num(up'[x], To(y, Payload)) \in Nat BY <3>4, NumType
    <3> QED BY <3>3, <3>5
  <2>2. up[x] \in Seq(Request) BY DEF Types
  <2>3. Num(News(y), From(x, Payload)) \in Nat /\ Num(up[x], To(y, Payload)) \in Nat
    BY <2>2, NewsType, NumType
  <2>4. ~Silent(y, x) BY <2>1, <2>3 DEF Silent, Flying
  <2> QED BY <2>4 DEF AllMet, Met
<1>7. \A r, s \in Process : ~(r = y /\ s = x) =>
         Alike(News(r), News(r)', About(s)) /\ NewsKept(r, s)
  <2> SUFFICES ASSUME NEW r \in Process, NEW s \in Process, ~(r = y /\ s = x)
               PROVE  Alike(News(r), News(r)', About(s))
    BY NewsKeeps
  <2>1. CASE down' = down
    <3>1. News(r)' = News(r) BY <1>1, <2>1 DEF News
    <3> QED BY <3>1, NewsType, AlikeFacts
  <2>2. CASE Deliver(to)
    <3>1. ~Has(to[r], About(s))
      <4>1. answer \notin About(s) \/ r # y BY AboutFacts
      <4>2. to[r] = IF r = y THEN <<answer>> ELSE <<>> OBVIOUS
      <4> HIDE DEF answer, to
      <4> QED BY <4>1, <4>2, HasOne, HasNone
    <3> HIDE DEF to
    <3> QED BY <1>1, <1>5, <2>2, <3>1, NewsDelivered
  <2> QED BY <1>4, <2>1, <2>2
<1>8. \A r, s \in Process : Closed(r, s) BY <1>1 DEF Closed
<1>9. CASE p = y /\ q = x /\ Intact(p, q)
  <2>1. Takes(up[q], up'[q], Offering(p, payload), Addressed(p)) BY <1>1, <1>3, <1>9, UpTaken
  <2>2. to[p] = <<answer>> /\ Deliver(to) /\ readyState[p] = "OPEN"
    BY <1>4, <1>9 DEF Intact
  <2> HIDE DEF to, answer
  <2>3. Adds(News(p), News(p)', answer, About(q))
    BY <1>1, <1>5, <2>2, NewsDelivered
  <2>4. Alike(News(q), News(q)', About(p)) BY <1>6, <1>7, <1>9
  <2>5. Relays(p, q) BY <1>1, <1>9, <2>1, <2>3, <2>4 DEF Relays, Steady, answer
  <2> QED BY <2>5 DEF Seen
<1>10. CASE p = y /\ q = x /\ ~Intact(p, q)
  <2>1. News(p)' = News(p)
    <3>1. down'[p] = down[p] BY <1>4, <1>10 DEF Intact, Deliver
    <3> QED BY <1>1, <3>1 DEF News
  <2>2. NewsKept(p, q) BY <2>1, NewsType, AlikeFacts, NewsKeeps
  <2>3. UpKept(p, q)
    <3>1. ~Intact(p, q)' BY <1>1, <1>10 DEF Intact
    <3>2. Fewer(up[q], up'[q], Addressed(p)) BY <1>1, <1>10, UpTaken
    <3> QED BY <3>1, <3>2 DEF UpKept
  <2>4. NewsKept(q, p) BY <1>6, <1>7, <1>10
  <2> QED BY <1>1, <1>8, <2>2, <2>3, <2>4, CalmStep
<1>11. CASE ~(p = y /\ q = x)
  <2>1. UpKept(p, q)
    <3>1. CASE q = x
      <4>1. Head(up[x]) \notin Addressed(p) BY <1>3, <1>11, <3>1, AddressedFacts
      <4> QED BY <1>1, <3>1, <4>1, UpTaken, UpKeeps
    <3>2. CASE q # x
      <4>1. up'[q] = up[q] BY <1>1, <3>2, UpTaken
      <4> QED BY <4>1, UpKeeps
    <3> QED BY <3>1, <3>2
  <2>2. NewsKept(p, q) BY <1>7, <1>11
  <2>3. Calls(q, p)' <= Calls(q, p)
    <3>1. CASE ~(q = y /\ p = x)
      <4>1. NewsKept(q, p) BY <1>7, <3>1
      <4> QED BY <4>1, CallsKept DEF NewsKept
    <3>2. CASE q = y /\ p = x
      <4>1. Deliver(to) \/ News(q)' = News(q) BY <1>1, <1>4 DEF News
      <4>2. News(q) \in Seq(Message \cup {Exit}) BY NewsType
      <4>3. Calls(q, p) \in Nat BY <4>2, NumType DEF Calls
      <4>4. CASE News(q)' = News(q) BY <4>3, <4>4 DEF Calls
      <4>5. CASE Deliver(to) /\ readyState[q] # "OPEN"
        <5>1. News(q)' = News(q) BY <1>1, <4>5 DEF News, Deliver
        <5> QED BY <4>4, <5>1
      <4>6. CASE Deliver(to) /\ readyState[q] = "OPEN"
        <5>1. Num(News(q)', {Joined(p)}) = Num(News(q), {Joined(p)}) + Num(to[q], {Joined(p)})
          <6> HIDE DEF to
          <6> QED BY <1>1, <1>5, <4>6, NewsDelivered
        <5>2. to[q] = <<answer>> BY <3>2
        <5>3. answer \notin {Joined(p)} BY AboutFacts
        <5> HIDE DEF to, answer
        <5>4. Num(to[q], {Joined(p)}) = 0 BY <5>2, <5>3, NumOne
        <5> QED BY <4>3, <5>1, <5>4 DEF Calls
      <4> QED BY <4>1, <4>4, <4>5, <4>6
    <3> QED BY <3>1, <3>2
  <2> QED BY <1>1, <1>8, <2>1, <2>2, <2>3 DEF Seen, Calm
<1> QED BY <1>9, <1>10, <1>11

-----------------------------------------------------------------------------
(* The signal server lets a process in, and every step.                    *)

\* The signal server names each partner once.
LEMMA ToldOnce ==
  ASSUME Types, NEW x \in Process, NEW y \in Process
  PROVE  /\ Num(Told(x), {Joined(y)}) <= 1
         /\ Num(Told(x), {Joined(y)}) > 0 => y \in Partners(x)
<1> DEFINE S == Partners(x)
           n == Cardinality(S)
           f == SetToSeq(S)
           t == Told(x)
<1>1. IsFiniteSet(S)
  <2>1. S \subseteq Process BY DEF Partners, Types
  <2> QED BY <2>1, ProcessFinite, FS_Subset
<1>2. f \in [1..n -> S] /\ IsInjective(f) /\ n \in Nat
  <2>1. Cardinality(S) \in Nat /\ ExistsBijection(1..Cardinality(S), S) BY <1>1, FS_CardinalityType
  <2>2. \E g \in [1..Cardinality(S) -> S] : IsInjective(g)
    BY <2>1 DEF ExistsBijection, Bijection, Injection
  <2> HIDE DEF S
  <2>3. SetToSeq(S) = CHOOSE g \in [1..Cardinality(S) -> S] : IsInjective(g) BY DEF SetToSeq
  <2> QED BY <2>1, <2>2, <2>3
<1>3. t = [i \in 1..n |-> Joined(f[i])] BY DEF Told, Joined
<1>4. t \in Seq(Message) BY ToldType
<1> HIDE DEF f, t, S, n
<1>5. Len(t) = n BY <1>2, <1>3, <1>4
<1>6. \A i \in 1..Len(t) : t[i] \in {Joined(y)} => f[i] = y BY <1>3, <1>5, JoinedFacts
<1>7. Once(t, {Joined(y)})
  <2> SUFFICES ASSUME NEW i \in 1..Len(t), NEW j \in 1..Len(t), t[i] \in {Joined(y)}, t[j] \in {Joined(y)}
               PROVE  i = j
    BY DEF Once
  <2>1. f[i] = f[j] BY <1>6
  <2> QED BY <1>2, <1>5, <2>1 DEF IsInjective
<1>8. Num(t, {Joined(y)}) <= 1
  <2> DEFINE I == {i \in 1..Len(t) : t[i] \in {Joined(y)}}
  <2>1. \A i, j \in I : i = j BY <1>7 DEF Once
  <2>2. I = {} \/ \E i \in I : I = {i} BY <2>1
  <2> HIDE DEF I
  <2>3. Cardinality(I) <= 1 BY <2>2, FS_EmptySet, FS_Singleton
  <2> QED BY <2>3 DEF Num, I
<1>9. Num(t, {Joined(y)}) > 0 => y \in S
  <2> SUFFICES ASSUME Num(t, {Joined(y)}) > 0 PROVE y \in S OBVIOUS
  <2>1. Has(t, {Joined(y)}) BY <1>4, NumType
  <2>2. PICK i \in 1..Len(t) : t[i] \in {Joined(y)} BY <2>1 DEF Has
  <2>3. f[i] = y BY <1>6, <2>2
  <2> QED BY <1>2, <1>5, <2>3
<1> QED BY <1>8, <1>9 DEF t, S

\* A pair that has not met.
LEMMA FreshPair ==
  ASSUME Types, NEW p \in Process, NEW q \in Process, Met(p, q), Fresh(p) \/ Fresh(q)
  PROVE  conductor[p][q] = NoConductor /\ ~Pending(p, q) /\ Silent(p, q)
BY DEF Met

\* What the signal server tells of y when x signs in.
LEMMA WelcomeOf ==
  ASSUME Types, NEW x \in Process, NEW r \in Process, NEW s \in Process
  PROVE  /\ \A P \in SUBSET Payload : Num(Welcome(x)[r], From(s, P)) = 0
         /\ Num(Welcome(x)[r], {Joined(s)}) \in Nat
         /\ Num(Welcome(x)[r], {Joined(s)}) <= 1
         /\ Num(Welcome(x)[r], {Joined(s)}) > 0 =>
               \/ r = x /\ s \in Partners(x)
               \/ s = x /\ r \in Partners(x)
<1> DEFINE ok == [msgid |-> "SignIn", successful |-> TRUE]
           w == Welcome(x)[r]
<1>1. ok \in Message BY DEF Message
<1>2. ok \notin About(s)
  <2>1. ok.msgid = "SignIn" OBVIOUS
  <2> HIDE DEF ok
  <2> QED BY <2>1, AboutFacts
<1>3. CASE r = x
  <2>1. w = <<ok>> \o Told(x) BY <1>3 DEF Welcome
  <2>2. <<ok>> \in Seq(Message) /\ Told(x) \in Seq(Message)
    <3> HIDE DEF ok
    <3> QED BY <1>1, OneMessage, ToldType
  <2> DEFINE t == Told(x)
  <2>3. /\ \A i \in 1..Len(t) : \E y \in Partners(x) : t[i] = Joined(y)
        /\ Num(t, {Joined(s)}) <= 1
        /\ Num(t, {Joined(s)}) > 0 => s \in Partners(x)
    BY ToldType, ToldOnce DEF Joined
  <2> DEFINE a == <<ok>>
  <2> HIDE DEF w, t, a
  <2>4. \A D : Num(a \o t, D) = Num(a, D) + Num(t, D) /\ Num(a, D) \in Nat /\ Num(t, D) \in Nat
    <3>1. a \in Seq(Message) /\ t \in Seq(Message) BY <2>2 DEF a, t
    <3>2. Joint(a, t, a \o t) BY <3>1, Concat
    <3> QED BY <3>2 DEF Joint, JointIn
  <2>5. \A D \in SUBSET About(s) : Num(a, D) = 0 
    <3> HIDE DEF ok
    <3> QED BY <1>2, One DEF a
  <2>6. \A P \in SUBSET Payload : Num(t, From(s, P)) = 0
    <3> TAKE P \in SUBSET Payload
    <3>1. \A y : Joined(y) \notin From(s, P)
      BY JoinedFacts, OfferedFacts DEF From
    <3>2. ~Has(t, From(s, P)) BY <2>3, <3>1 DEF Has
    <3>3. t \in Seq(Message) BY <2>2 DEF t
    <3> QED BY <3>2, <3>3, NumType
  <2>7. /\ {Joined(s)} \in SUBSET About(s)
        /\ \A P \in SUBSET Payload : From(s, P) \in SUBSET About(s)
    BY AboutFacts
  <2>8. w = a \o t BY <2>1 DEF a, t
  <2>9. Num(w, {Joined(s)}) = Num(t, {Joined(s)}) /\ Num(t, {Joined(s)}) \in Nat
    BY <2>4, <2>5, <2>7, <2>8
  <2>10. \A P \in SUBSET Payload : Num(w, From(s, P)) = 0
    BY <2>4, <2>5, <2>6, <2>7, <2>8
  <2> QED BY <1>3, <2>3, <2>9, <2>10 DEF w
<1>4. CASE r # x
  <2>1. w = IF r \in Partners(x) THEN <<Joined(x)>> ELSE <<>> BY <1>4 DEF Welcome, Joined
  <2>2. \A D : Num(<<Joined(x)>>, D) = (IF Joined(x) \in D THEN 1 ELSE 0) /\ Num(<<>>, D) = 0
    BY One
  <2>3. \A P : Joined(x) \notin From(s, P) BY JoinedFacts, OfferedFacts DEF From
  <2>4. Joined(x) \in {Joined(s)} => s = x BY JoinedFacts
  <2> HIDE DEF w
  <2>5. \A D : Num(w, D) = IF r \in Partners(x) /\ Joined(x) \in D THEN 1 ELSE 0 BY <2>1, <2>2
  <2> QED BY <2>3, <2>4, <2>5 DEF w
<1> QED BY <1>3, <1>4

\* The signal server lets x into the room: it, and each of its partners, is told
\* of the other, and of neither has anything been sent before.
LEMMA SignInSeen ==
  ASSUME Types, OneFate, AllMet, NEW x \in Process, SignIn(x), NEW p \in Process, NEW q \in Process
  PROVE  Seen(p, q)
<1>1. /\ up[x] # <<>> /\ up' = [up EXCEPT ![x] = Tail(@)]
      /\ UNCHANGED <<callback, readyState, queue, conductor>>
  BY DEF SignIn
<1>2. Head(up[x]) \in Joining BY HeadJoins DEF SignIn
<1>3. CASE Reply(x, [msgid |-> "SignIn", successful |-> FALSE]) /\ UNCHANGED member
  <2> DEFINE m == [msgid |-> "SignIn", successful |-> FALSE]
  <2>1. m \in Message BY DEF Message
  <2>2. m.msgid \notin {"PeerConnected", "ReceivedOffer"} OBVIOUS
  <2>3. Reply(x, m) BY <1>3
  <2> HIDE DEF m
  <2> QED BY <1>1, <1>2, <1>3, <2>1, <2>2, <2>3, ReplyCalm
<1>4. CASE member' = member \cup {x} /\ Deliver(Welcome(x))
  <2>1. Welcome(x) \in [Process -> Seq(Message)] BY WelcomeType
  <2>2. \A r, s \in Process : Alike(up[s], up'[s], Addressed(r)) /\ UpKept(r, s)
    BY <1>1, <1>2, JoiningTaken
  <2>3. CASE p # x /\ q # x
    <3>1. ASSUME NEW r \in Process, NEW s \in Process, r # x, s # x PROVE NewsKept(r, s)
      <4> DEFINE w == Welcome(x)[r]
      <4>1. w = <<Joined(x)>> \/ w = <<>> BY <3>1 DEF Welcome, Joined
      <4>2. Joined(x) \notin About(s) BY <3>1, AboutFacts
      <4> HIDE DEF w
      <4>3. ~Has(w, About(s)) BY <4>1, <4>2, HasOne, HasNone
      <4> QED BY <1>1, <1>4, <2>1, <4>3, NewsDelivered, NewsKeeps DEF w
    <3>2. Closed(p, q) /\ Closed(q, p) BY <1>1 DEF Closed
    <3> QED BY <1>4, <2>2, <2>3, <3>1, <3>2, CalmStep
  <2>4. CASE p = x \/ q = x
    <3>1. Fresh(x)
      <4>1. Has(up[x], Joining) BY <1>1, <1>2, DoneHas
      <4> QED BY <4>1 DEF OneFate, Fates, Fresh, Away
    <3>2. /\ conductor[p][q] = NoConductor /\ conductor[q][p] = NoConductor
          /\ ~Pending(p, q) /\ Silent(p, q)
      BY <2>4, <3>1, FreshPair DEF AllMet
    <3>3. up[q] \in Seq(Request) BY DEF Types
    <3>4. /\ Calls(p, q) \in Nat /\ Num(News(p), From(q, Payload)) \in Nat
          /\ Num(up[q], To(p, Payload)) \in Nat
      BY <3>3, NewsType, NumType DEF Calls
    <3>5. /\ Calls(p, q) = 0 /\ Num(News(p), From(q, Payload)) = 0
          /\ Num(up[q], To(p, Payload)) = 0
      BY <3>2, <3>4 DEF Pending, Silent, Flying
    <3>6. Num(up'[q], To(p, Payload)) = 0
      <4>1. To(p, Payload) \in SUBSET Addressed(p) BY AddressedFacts
      <4> QED BY <2>2, <3>5, <4>1 DEF Alike
    <3> DEFINE w == Welcome(x)[p]
    <3>7. /\ Num(w, From(q, Payload)) = 0
          /\ Num(w, {Joined(q)}) \in Nat /\ Num(w, {Joined(q)}) <= 1
          /\ Num(w, {Joined(q)}) > 0 =>
                p \in member' /\ q \in member' /\ p # q /\ (p = Server \/ q = Server)
      BY <1>4, <2>4, WelcomeOf DEF Partners
    <3>8. /\ Num(News(p)', From(q, Payload)) = 0
          /\ Num(News(p)', {Joined(q)}) \in {0, Num(w, {Joined(q)})}
      <4>1. From(q, Payload) \in SUBSET About(q) /\ {Joined(q)} \in SUBSET About(q) BY AboutFacts
      <4>2. CASE readyState[p] # "OPEN"
        <5>1. Alike(News(p), News(p)', About(q)) BY <1>1, <1>4, <2>1, <4>2, NewsDelivered
        <5> QED BY <3>5, <4>1, <5>1 DEF Alike, Calls
      <4>3. CASE readyState[p] = "OPEN"
        <5>1. \A D : Num(News(p)', D) = Num(News(p), D) + Num(w, D)
          BY <1>1, <1>4, <2>1, <4>3, NewsDelivered
        <5> HIDE DEF w
        <5> QED BY <3>5, <3>7, <5>1 DEF Calls
      <4> QED BY <4>2, <4>3
    <3> HIDE DEF w
    <3>9. Silent(p, q)' BY <3>6, <3>8 DEF Silent, Flying
    <3>10. Calls(p, q)' <= 1 BY <3>7, <3>8 DEF Calls
    <3>11. Pending(p, q)' => p \in member' /\ q \in member' /\ p # q /\ (p = Server \/ q = Server)
      BY <3>7, <3>8 DEF Pending, Calls
    <3>12. Blank(p, q)' BY <1>1, <3>2, <3>9, <3>10, <3>11 DEF Blank
    <3> QED BY <3>12 DEF Seen
  <2> QED BY <2>3, <2>4
<1> QED BY <1>3, <1>4 DEF SignIn, Welcome, Told

\* Every step, as a pair sees it.
LEMMA StepSeen ==
  ASSUME Types, OneFate, AllMet, Next, NEW p \in Process, NEW q \in Process
  PROVE  Seen(p, q)
<1>1. PICK x \in Process :
         \/ SubThread(x) \/ SignalThread(x) \/ Negotiation(x)
         \/ SignalServer(x) \/ Leave(x) \/ Lost(x) \/ Killed(x)
  BY DEF Next
<1>2. CASE CreateRoom(x)
  <2>1. PICK ok \in BOOLEAN : Reply(x, [msgid |-> "CreateRoom", successful |-> ok])
    BY <1>2 DEF CreateRoom
  <2> DEFINE m == [msgid |-> "CreateRoom", successful |-> ok]
  <2>2. m \in Message /\ m.msgid \notin {"PeerConnected", "ReceivedOffer"} BY DEF Message
  <2>3. Head(up[x]) \in Joining BY <1>2, HeadJoins DEF CreateRoom
  <2>4. /\ up[x] # <<>> /\ up' = [up EXCEPT ![x] = Tail(@)]
        /\ UNCHANGED <<queue, conductor, member>>
    BY <1>2 DEF CreateRoom
  <2>5. Reply(x, m) BY <2>1
  <2> HIDE DEF m
  <2> QED BY <2>2, <2>3, <2>4, <2>5, ReplyCalm
<1>3. CASE OnMessage(x) BY <1>3, OnMessageCalm
<1>4. CASE (SubThread(x) \/ Lost(x)) /\ ~OnMessage(x) BY <1>4, SubThreadCalm
<1>5. CASE Killed(x) BY <1>5, DiesCalm DEF Killed
<1> QED BY <1>1, <1>2, <1>3, <1>4, <1>5, SignalThreadSeen, NegotiationSeen, SignInSeen, RelaySeen,
           LeaveSeen DEF SignalServer

-----------------------------------------------------------------------------
(* What a process does not get back.                                       *)

\* A process that has yet to join after a step had yet to before it.
LEMMA FreshStays ==
  ASSUME Types, Next, NEW r \in Process, Fresh(r)'
  PROVE  Fresh(r)
<1>1. ~Away(r) BY AwayStays DEF Fresh
<1>2. ASSUME r \in member PROVE FALSE
  <2>1. PICK x \in Process : Leave(x)
    <3>1. PICK x \in Process :
             \/ SubThread(x) \/ SignalThread(x) \/ Negotiation(x)
             \/ SignalServer(x) \/ Leave(x) \/ Lost(x) \/ Killed(x)
      BY DEF Next
    <3>2. member' # member BY <1>2 DEF Fresh
    <3>3. ~SubThread(x) /\ ~Lost(x) /\ ~Killed(x)
      BY <3>2 DEF SubThread, OnOpen, OnError, OnErrorAgain, OnServerConnectionFailure, OnMessage,
         OnClose, OnDisconnected, Dies, Lost, Killed
    <3>4. ~SignalThread(x)
      BY <3>2 DEF SignalThread, OnCreatedRoom, OnSignedIn, OnPeerConnected, OnPeerDisconnected,
         OnReceivedOffer, OnExit, End, InitializationCrashes, Dies
    <3>5. ~Negotiation(x) BY <3>2 DEF Negotiation, OnSuccess, OnFailure, OnIceCandidate
    <3>6. ~SignalServer(x) BY <1>2 DEF Fresh, SignalServer, CreateRoom, SignIn, Relay
    <3> QED BY <3>1, <3>3, <3>4, <3>5, <3>6
  <2>2. r = x BY <1>2, <2>1 DEF Leave, Fresh
  <2>3. up'[r] = <<>> /\ readyState'[r] \in {"CLOSING", "CLOSED"} BY <2>1, <2>2 DEF Leave, Types
  <2>4. Away(r)' BY <2>3, HasNone DEF Fresh, Away
  <2> QED BY <2>4 DEF Fresh
<1> QED BY <1>1, <1>2 DEF Fresh

\* No process gets its observer back, or opens its connection as a member.
LEMMA Linked ==
  ASSUME Types, OneFate, Next, NEW r \in Process
  PROVE  /\ callback'[r] => callback[r]
         /\ r \in member' /\ readyState'[r] = "OPEN" => readyState[r] = "OPEN"
<1>1. PICK x \in Process :
         \/ SubThread(x) \/ SignalThread(x) \/ Negotiation(x)
         \/ SignalServer(x) \/ Leave(x) \/ Lost(x) \/ Killed(x)
  BY DEF Next
<1>2. CASE OnOpen(x)
  <2>1. x \notin member BY <1>2 DEF OnOpen, OneFate, Fates
  <2>2. callback' = callback /\ member' = member /\ \A s \in Process : s # x => readyState'[s] = readyState[s]
    BY <1>2 DEF OnOpen, Types
  <2> QED BY <2>1, <2>2
<1>3. ASSUME NEW how, Dies(x, how) PROVE readyState'[r] = "OPEN" => readyState[r] = "OPEN"
  BY <1>3 DEF Dies, Types
<1>4. ASSUME NEW how, Dies(x, how) PROVE callback'[r] => callback[r]
  BY <1>4 DEF Dies, Types
<1>5. CASE OnError(x) BY <1>5 DEF OnError, Types
<1>6. CASE OnMessage(x) \/ OnClose(x) \/ OnErrorAgain(x)
  BY <1>6 DEF OnMessage, OnClose, OnErrorAgain
<1>7. CASE OnDisconnected(x) \/ OnServerConnectionFailure(x)
  BY <1>3, <1>4, <1>7 DEF OnDisconnected, OnServerConnectionFailure
<1>8. CASE OnCreatedRoom(x) \/ OnSignedIn(x) \/ OnPeerDisconnected(x)
  BY <1>8 DEF OnCreatedRoom, OnSignedIn, OnPeerDisconnected
<1>9. CASE OnPeerConnected(x) BY <1>3, <1>4, <1>9 DEF OnPeerConnected, InitializationCrashes
<1>10. CASE OnReceivedOffer(x) BY <1>3, <1>4, <1>10 DEF OnReceivedOffer, InitializationCrashes
<1>11. CASE OnExit(x) BY <1>11 DEF OnExit, Types
<1>12. CASE End(x) \/ Killed(x) BY <1>3, <1>4, <1>12 DEF End, Killed
<1>13. CASE Negotiation(x) BY <1>13 DEF Negotiation, OnSuccess, OnFailure, OnIceCandidate
<1>14. CASE SignalServer(x) \/ Leave(x)
  BY <1>14 DEF SignalServer, CreateRoom, SignIn, Relay, Leave
<1>15. CASE Lost(x) BY <1>15 DEF Lost, Types
<1> QED BY <1>1, <1>2, <1>5, <1>6, <1>7, <1>8, <1>9, <1>10, <1>11, <1>12, <1>13, <1>14, <1>15
        DEF SubThread, SignalThread
=============================================================================

---------------------------- MODULE ClientProofs ----------------------------
(***************************************************************************)
(* Proofs about SCClient, for any channels, calls and publications, any    *)
(* page that keeps to PageEmits .. PageReturns, and any number of          *)
(* reconnects: no call is lost or called twice, a request a channel waits  *)
(* for is on record, the server's record of the channels is the client's,  *)
(* a client that lost its connection comes back, and a destroyed one stays *)
(* away.                                                                   *)
(***************************************************************************)
EXTENDS SCClient, FiniteSetTheorems, FunctionTheorems, SequenceTheorems, TLAPS

(***************************************************************************)
(* Facts about sequences and what is left of them: the client's buffer,    *)
(* its callback map and its stack of calls.                                *)
(***************************************************************************)

\* The elements of an empty list, of one item, and of a few.
LEMMA ElemsOfFew ==
    /\ Elems(<<>>) = {}
    /\ \A a : Elems(<<a>>) = {a}
    /\ \A a, b : Elems(<<a, b>>) = {a, b}
    /\ \A a, b, c : Elems(<<a, b, c>>) = {a, b, c}
  BY DEF Elems

\* The elements of a list are of its type.
LEMMA ElemsTyped ==
    ASSUME NEW S, NEW s \in Seq(S)
    PROVE  /\ Elems(s) \subseteq S
           /\ s = <<>> <=> Elems(s) = {}
           /\ \A i \in 1 .. Len(s) : s[i] \in Elems(s)
           /\ \A x \in Elems(s) : \E i \in 1 .. Len(s) : x = s[i]
<1>1. DOMAIN s = 1 .. Len(s) /\ Len(s) \in Nat /\ \A i \in 1 .. Len(s) : s[i] \in S
  OBVIOUS
<1>2. s = <<>> <=> Len(s) = 0
  OBVIOUS
<1>3. Elems(s) = {s[i] : i \in 1 .. Len(s)}
  BY <1>1 DEF Elems
<1>4. s # <<>> => s[1] \in Elems(s)
  BY <1>1, <1>2, <1>3
<1>5. s = <<>> => Elems(s) = {}
  BY <1>1, <1>2, <1>3
<1> QED  BY <1>1, <1>3, <1>4, <1>5

\* The elements of two lists that are put together.
LEMMA ElemsOfConcat ==
    ASSUME NEW S, NEW s \in Seq(S), NEW t \in Seq(S)
    PROVE  /\ s \o t \in Seq(S)
           /\ Elems(s \o t) = Elems(s) \cup Elems(t)
<1>1. /\ s \o t \in Seq(S) /\ Len(s \o t) = Len(s) + Len(t)
      /\ \A i \in 1 .. Len(s) + Len(t) :
            (s \o t)[i] = IF i <= Len(s) THEN s[i] ELSE t[i - Len(s)]
  BY ConcatProperties
<1>2. Elems(s \o t) \subseteq Elems(s) \cup Elems(t)
  <2> SUFFICES ASSUME NEW i \in 1 .. Len(s \o t)
               PROVE  (s \o t)[i] \in Elems(s) \cup Elems(t)
    <3>1. \A x \in Elems(s \o t) : \E i \in 1 .. Len(s \o t) : x = (s \o t)[i]
      BY <1>1, ElemsTyped
    <3> QED  BY <3>1
  <2>1. CASE i <= Len(s)
    BY <1>1, <2>1, ElemsTyped
  <2>2. CASE i > Len(s)
    <3>1. i - Len(s) \in 1 .. Len(t)
      BY <1>1, <2>2
    <3> QED  BY <1>1, <2>2, <3>1, ElemsTyped
  <2> QED  BY <2>1, <2>2, <1>1
<1>3. Elems(s) \subseteq Elems(s \o t)
  <2> SUFFICES ASSUME NEW i \in 1 .. Len(s) PROVE s[i] \in Elems(s \o t)
    BY ElemsTyped
  <2>1. (s \o t)[i] = s[i] /\ i \in 1 .. Len(s \o t)
    BY <1>1
  <2> QED  BY <1>1, <2>1, ElemsTyped
<1>4. Elems(t) \subseteq Elems(s \o t)
  <2> SUFFICES ASSUME NEW i \in 1 .. Len(t) PROVE t[i] \in Elems(s \o t)
    BY ElemsTyped
  <2>1. (s \o t)[i + Len(s)] = t[i] /\ i + Len(s) \in 1 .. Len(s \o t)
    BY <1>1
  <2> QED  BY <1>1, <2>1, ElemsTyped
<1> QED  BY <1>1, <1>2, <1>3, <1>4

\* The elements of a list are its head and those of its tail.
LEMMA ElemsOfTail ==
    ASSUME NEW S, NEW s \in Seq(S), s # <<>>
    PROVE  /\ Head(s) \in S /\ Tail(s) \in Seq(S)
           /\ Elems(s) = {Head(s)} \cup Elems(Tail(s))
<1>1. /\ Head(s) \in S /\ Tail(s) \in Seq(S) /\ Len(Tail(s)) = Len(s) - 1
      /\ \A i \in 1 .. Len(Tail(s)) : Tail(s)[i] = s[i + 1]
  BY HeadTailProperties
<1>2. Head(s) = s[1] /\ 1 \in 1 .. Len(s)
  OBVIOUS
<1>3. Elems(s) \subseteq {Head(s)} \cup Elems(Tail(s))
  <2> SUFFICES ASSUME NEW i \in 1 .. Len(s), i # 1
               PROVE  s[i] \in Elems(Tail(s))
    BY <1>2, ElemsTyped
  <2>1. i - 1 \in 1 .. Len(Tail(s)) /\ Tail(s)[i - 1] = s[i]
    BY <1>1
  <2> QED  BY <1>1, <2>1, ElemsTyped
<1>4. Elems(Tail(s)) \subseteq Elems(s)
  <2> SUFFICES ASSUME NEW i \in 1 .. Len(Tail(s)) PROVE Tail(s)[i] \in Elems(s)
    <3>1. \A x \in Elems(Tail(s)) : \E i \in 1 .. Len(Tail(s)) : x = Tail(s)[i]
      BY <1>1, ElemsTyped
    <3> QED  BY <3>1
  <2>1. i + 1 \in 1 .. Len(s) /\ Tail(s)[i] = s[i + 1]
    BY <1>1
  <2> QED  BY <2>1, ElemsTyped
<1> QED  BY <1>1, <1>2, <1>3, <1>4, ElemsTyped

\* The elements of a list with one more at its end.
LEMMA ElemsOfAppend ==
    ASSUME NEW S, NEW s \in Seq(S), NEW e \in S
    PROVE  Append(s, e) \in Seq(S) /\ Elems(Append(s, e)) = Elems(s) \cup {e}
<1>1. Append(s, e) = s \o <<e>> /\ <<e>> \in Seq(S)
  BY AppendIsConcat
<1>2. Elems(<<e>>) = {e}
  BY ElemsOfFew
<1>3. s \o <<e>> \in Seq(S) /\ Elems(s \o <<e>>) = Elems(s) \cup Elems(<<e>>)
  BY <1>1, ElemsOfConcat
<1> QED  BY <1>1, <1>2, <1>3

-----------------------------------------------------------------------------
\* Position counts the positions I of a list in their order.
LEMMA Positions ==
    ASSUME NEW n \in Nat, NEW I \in SUBSET (1 .. n)
    PROVE  /\ Cardinality(I) \in Nat
           /\ \A k \in 1 .. Cardinality(I) : Position(I, k) \in I
           /\ \A i \in I : \E k \in 1 .. Cardinality(I) : Position(I, k) = i
           /\ \A k, l \in 1 .. Cardinality(I) : k < l => Position(I, k) < Position(I, l)
<1> DEFINE upTo(i) == {j \in I : j <= i}
           count   == [i \in I |-> Cardinality(upTo(i))]
           N       == Cardinality(I)
<1>1. IsFiniteSet(I) /\ N \in Nat
  <2>1. IsFiniteSet(1 .. n)
    BY FS_Interval
  <2>2. IsFiniteSet(I)
    BY <2>1, FS_Subset
  <2> QED  BY <2>2, FS_CardinalityType
<1>2. \A i \in I : i \in Nat
  OBVIOUS
<1>3. \A i \in I : upTo(i) \in SUBSET I /\ i \in upTo(i)
  BY <1>2
<1>4. \A i \in I : IsFiniteSet(upTo(i)) /\ Cardinality(upTo(i)) \in 1 .. N
  <2> SUFFICES ASSUME NEW i \in I
               PROVE  IsFiniteSet(upTo(i)) /\ Cardinality(upTo(i)) \in 1 .. N
    OBVIOUS
  <2> HIDE DEF upTo, N
  <2>1. IsFiniteSet(upTo(i)) /\ Cardinality(upTo(i)) <= Cardinality(I)
    BY <1>1, <1>3, FS_Subset
  <2>2. Cardinality(upTo(i)) \in Nat
    BY <2>1, FS_CardinalityType
  <2>3. Cardinality(upTo(i)) # 0
    BY <1>3, <2>1, FS_EmptySet
  <2> QED  BY <1>1, <2>1, <2>2, <2>3 DEF N
<1>5. \A i, m \in I : i < m => Cardinality(upTo(i)) < Cardinality(upTo(m))
  <2> SUFFICES ASSUME NEW i \in I, NEW m \in I, i < m
               PROVE  Cardinality(upTo(i)) < Cardinality(upTo(m))
    OBVIOUS
  <2>1. \A j \in upTo(i) : j \in upTo(m)
    BY <1>2
  <2>2. m \in upTo(m) /\ m \notin upTo(i)
    BY <1>2
  <2> HIDE DEF upTo
  <2>3. upTo(i) \in SUBSET upTo(m) /\ upTo(i) # upTo(m)
    BY <2>1, <2>2
  <2>4. Cardinality(upTo(i)) <= Cardinality(upTo(m)) /\ Cardinality(upTo(i)) # Cardinality(upTo(m))
    BY <1>4, <2>3, FS_Subset
  <2> QED  BY <1>1, <1>4, <2>4
<1>6. /\ count \in [I -> 1 .. N]
      /\ \A i, m \in I : i < m => count[i] < count[m]
  BY <1>4, <1>5
<1> HIDE DEF count, N
<1>7. \A i, m \in I : count[i] = count[m] => i = m
  <2> SUFFICES ASSUME NEW i \in I, NEW m \in I, count[i] = count[m], i # m
               PROVE  FALSE
    OBVIOUS
  <2>1. i < m \/ m < i
    BY <1>2
  <2>2. count[i] \in Int
    BY <1>6
  <2> QED  BY <1>6, <2>1, <2>2
<1>8. \A k \in 1 .. N : \E i \in I : count[i] = k
  <2>1. count \in Injection(I, 1 .. N)
    BY <1>6, <1>7, Fun_IsInj
  <2>2. IsFiniteSet(1 .. N) /\ Cardinality(1 .. N) = N
    BY <1>1, FS_Interval
  <2>3. count \in Surjection(I, 1 .. N)
    BY <2>1, <2>2, FS_Injection DEF N
  <2> QED  BY <2>3, Fun_SurjectionProperties
<1>9. \A k \in 1 .. N : Position(I, k) \in I /\ count[Position(I, k)] = k
  <2> SUFFICES ASSUME NEW k \in 1 .. N
               PROVE  Position(I, k) \in I /\ count[Position(I, k)] = k
    OBVIOUS
  <2>1. \E i \in I : Cardinality({j \in I : j <= i}) = k
    BY <1>8 DEF count
  <2> QED  BY <2>1 DEF Position, count
<1>10. \A i \in I : count[i] \in 1 .. N /\ Position(I, count[i]) = i
  BY <1>6, <1>7, <1>9
<1>11. \A k, l \in 1 .. N : k < l => Position(I, k) < Position(I, l)
  <2> SUFFICES ASSUME NEW k \in 1 .. N, NEW l \in 1 .. N, k < l,
                      NEW p \in I, NEW q \in I, count[p] = k, count[q] = l
               PROVE  p < q
    BY <1>9
  <2>1. p \in Nat /\ q \in Nat /\ k \in Nat /\ l \in Nat
    BY <1>1, <1>2
  <2>2. p # q /\ ~ (q < p)
    BY <1>6, <2>1
  <2> QED  BY <2>1, <2>2
<1> QED  BY <1>1, <1>9, <1>10, <1>11 DEF N

\* What is picked are the elements at the positions, in their order.
LEMMA Picked ==
    ASSUME NEW S, NEW s \in Seq(S), NEW I \in SUBSET (1 .. Len(s))
    PROVE  /\ Pick(s, I) \in Seq(S)
           /\ Len(Pick(s, I)) = Cardinality(I) /\ Cardinality(I) \in Nat
           /\ \A k \in 1 .. Cardinality(I) : Position(I, k) \in I /\ Pick(s, I)[k] = s[Position(I, k)]
           /\ \A i \in I : \E k \in 1 .. Cardinality(I) : Position(I, k) = i
           /\ \A k, l \in 1 .. Cardinality(I) : k < l => Position(I, k) < Position(I, l)
<1>1. Len(s) \in Nat /\ \A i \in 1 .. Len(s) : s[i] \in S
  OBVIOUS
<1>2. /\ Cardinality(I) \in Nat
      /\ \A k \in 1 .. Cardinality(I) : Position(I, k) \in I
      /\ \A i \in I : \E k \in 1 .. Cardinality(I) : Position(I, k) = i
      /\ \A k, l \in 1 .. Cardinality(I) : k < l => Position(I, k) < Position(I, l)
  BY <1>1, Positions
<1>3. \A k \in 1 .. Cardinality(I) : s[Position(I, k)] \in S
  BY <1>1, <1>2
<1>4. Pick(s, I) \in [1 .. Cardinality(I) -> S]
  BY <1>3 DEF Pick
<1>5. Pick(s, I) \in Seq(S) /\ Len(Pick(s, I)) = Cardinality(I)
  BY <1>2, <1>4
<1> QED  BY <1>2, <1>5 DEF Pick

\* The elements that are picked.
LEMMA ElemsOfPick ==
    ASSUME NEW S, NEW s \in Seq(S), NEW I \in SUBSET (1 .. Len(s))
    PROVE  Elems(Pick(s, I)) = {s[i] : i \in I}
<1> DEFINE p == Pick(s, I)
<1>1. /\ p \in Seq(S) /\ Len(p) = Cardinality(I)
      /\ \A k \in 1 .. Cardinality(I) : Position(I, k) \in I /\ p[k] = s[Position(I, k)]
      /\ \A i \in I : \E k \in 1 .. Cardinality(I) : Position(I, k) = i
  BY Picked
<1> HIDE DEF p
<1>2. /\ \A k \in 1 .. Len(p) : p[k] \in Elems(p)
      /\ \A x \in Elems(p) : \E k \in 1 .. Len(p) : x = p[k]
  BY <1>1, ElemsTyped
<1>3. ASSUME NEW x \in Elems(p) PROVE \E i \in I : x = s[i]
  <2>1. PICK k \in 1 .. Len(p) : x = p[k]
    BY <1>2
  <2>2. Position(I, k) \in I /\ x = s[Position(I, k)]
    BY <1>1, <2>1
  <2> QED  BY <2>2
<1>4. \A i \in I : s[i] \in Elems(p)
  BY <1>1, <1>2
<1> QED  BY <1>3, <1>4 DEF p

-----------------------------------------------------------------------------
\* Every element is related to every later one.
Pairwise(s, R) == \A i, j \in DOMAIN s : i < j => <<s[i], s[j]>> \in R

\* Lists of a few elements.
LEMMA PairwiseFew ==
    ASSUME NEW R
    PROVE  /\ Pairwise(<<>>, R)
           /\ \A a : Pairwise(<<a>>, R)
           /\ \A a, b : <<a, b>> \in R => Pairwise(<<a, b>>, R)
           /\ \A a, b, c : <<a, b>> \in R /\ <<a, c>> \in R /\ <<b, c>> \in R
                           => Pairwise(<<a, b, c>>, R)
  BY DEF Pairwise

\* Two lists that are put together.
LEMMA PairwiseConcat ==
    ASSUME NEW S, NEW s \in Seq(S), NEW t \in Seq(S), NEW R,
           Pairwise(s, R), Pairwise(t, R),
           \A x \in Elems(s), y \in Elems(t) : <<x, y>> \in R
    PROVE  Pairwise(s \o t, R)
<1>1. /\ Len(s \o t) = Len(s) + Len(t) /\ DOMAIN (s \o t) = 1 .. Len(s) + Len(t)
      /\ Len(s) \in Nat /\ Len(t) \in Nat
      /\ DOMAIN s = 1 .. Len(s) /\ DOMAIN t = 1 .. Len(t)
      /\ \A i \in 1 .. Len(s) + Len(t) :
            (s \o t)[i] = IF i <= Len(s) THEN s[i] ELSE t[i - Len(s)]
  BY ConcatProperties
<1>2. /\ \A i \in 1 .. Len(s) : s[i] \in Elems(s)
      /\ \A i \in 1 .. Len(t) : t[i] \in Elems(t)
  BY ElemsTyped
<1> SUFFICES ASSUME NEW i \in 1 .. Len(s) + Len(t), NEW j \in 1 .. Len(s) + Len(t), i < j
             PROVE  <<(s \o t)[i], (s \o t)[j]>> \in R
  BY <1>1 DEF Pairwise
<1>3. CASE j <= Len(s)
  <2>1. i \in 1 .. Len(s) /\ j \in 1 .. Len(s) /\ (s \o t)[i] = s[i] /\ (s \o t)[j] = s[j]
    BY <1>1, <1>3
  <2> QED  BY <1>1, <2>1 DEF Pairwise
<1>4. CASE i <= Len(s) /\ j > Len(s)
  <2>1. i \in 1 .. Len(s) /\ j - Len(s) \in 1 .. Len(t)
        /\ (s \o t)[i] = s[i] /\ (s \o t)[j] = t[j - Len(s)]
    BY <1>1, <1>4
  <2> QED  BY <1>2, <2>1
<1>5. CASE i > Len(s)
  <2>1. /\ i - Len(s) \in 1 .. Len(t) /\ j - Len(s) \in 1 .. Len(t) /\ i - Len(s) < j - Len(s)
        /\ (s \o t)[i] = t[i - Len(s)] /\ (s \o t)[j] = t[j - Len(s)]
    BY <1>1, <1>5
  <2> QED  BY <1>1, <2>1 DEF Pairwise
<1>6. j <= Len(s) \/ (i <= Len(s) /\ j > Len(s)) \/ i > Len(s)
  BY <1>1
<1> QED  BY <1>3, <1>4, <1>5, <1>6, Zenon

\* A list with one more at its end.
LEMMA PairwiseAppend ==
    ASSUME NEW S, NEW s \in Seq(S), NEW e \in S, NEW R,
           Pairwise(s, R), \A x \in Elems(s) : <<x, e>> \in R
    PROVE  Pairwise(Append(s, e), R)
<1>1. Append(s, e) = s \o <<e>> /\ <<e>> \in Seq(S)
  BY AppendIsConcat
<1>2. Elems(<<e>>) = {e} /\ Pairwise(<<e>>, R)
  BY ElemsOfFew, PairwiseFew
<1>3. Pairwise(s \o <<e>>, R)
  BY <1>1, <1>2, PairwiseConcat
<1> QED  BY <1>1, <1>3

\* The head is related to the tail.
LEMMA PairwiseTail ==
    ASSUME NEW S, NEW s \in Seq(S), s # <<>>, NEW R, Pairwise(s, R)
    PROVE  /\ Pairwise(Tail(s), R)
           /\ \A y \in Elems(Tail(s)) : <<Head(s), y>> \in R
<1>1. /\ Tail(s) \in Seq(S) /\ Len(Tail(s)) = Len(s) - 1 /\ Len(s) \in Nat
      /\ DOMAIN s = 1 .. Len(s) /\ DOMAIN Tail(s) = 1 .. Len(s) - 1
      /\ \A i \in 1 .. Len(s) - 1 : Tail(s)[i] = s[i + 1]
  BY HeadTailProperties
<1>2. Head(s) = s[1] /\ 1 \in 1 .. Len(s)
  OBVIOUS
<1>3. Pairwise(Tail(s), R)
  <2> SUFFICES ASSUME NEW i \in 1 .. Len(s) - 1, NEW j \in 1 .. Len(s) - 1, i < j
               PROVE  <<Tail(s)[i], Tail(s)[j]>> \in R
    BY <1>1 DEF Pairwise
  <2>1. i + 1 \in 1 .. Len(s) /\ j + 1 \in 1 .. Len(s) /\ i + 1 < j + 1
        /\ Tail(s)[i] = s[i + 1] /\ Tail(s)[j] = s[j + 1]
    BY <1>1
  <2> QED  BY <1>1, <2>1 DEF Pairwise
<1>4. ASSUME NEW y \in Elems(Tail(s)) PROVE <<Head(s), y>> \in R
  <2>0. \A x \in Elems(Tail(s)) : \E i \in 1 .. Len(Tail(s)) : x = Tail(s)[i]
    BY <1>1, ElemsTyped
  <2>1. PICK i \in 1 .. Len(Tail(s)) : y = Tail(s)[i]
    BY <2>0
  <2>2. i + 1 \in 1 .. Len(s) /\ 1 < i + 1 /\ y = s[i + 1]
    BY <1>1, <2>1
  <2> QED  BY <1>1, <1>2, <2>2 DEF Pairwise
<1> QED  BY <1>3, <1>4

\* What is left of a list.
LEMMA PairwisePick ==
    ASSUME NEW S, NEW s \in Seq(S), NEW I \in SUBSET (1 .. Len(s)), NEW R, Pairwise(s, R)
    PROVE  Pairwise(Pick(s, I), R)
<1> DEFINE p == Pick(s, I)
<1>1. /\ p \in Seq(S) /\ Len(p) = Cardinality(I)
      /\ \A k \in 1 .. Cardinality(I) : Position(I, k) \in I /\ p[k] = s[Position(I, k)]
      /\ \A k, l \in 1 .. Cardinality(I) : k < l => Position(I, k) < Position(I, l)
  BY Picked
<1> HIDE DEF p
<1>2. DOMAIN p = 1 .. Cardinality(I) /\ DOMAIN s = 1 .. Len(s)
  BY <1>1
<1> SUFFICES ASSUME NEW k \in 1 .. Cardinality(I), NEW l \in 1 .. Cardinality(I), k < l
             PROVE  <<p[k], p[l]>> \in R
  BY <1>2 DEF Pairwise, p
<1>3. /\ Position(I, k) \in 1 .. Len(s) /\ Position(I, l) \in 1 .. Len(s)
      /\ Position(I, k) < Position(I, l)
      /\ p[k] = s[Position(I, k)] /\ p[l] = s[Position(I, l)]
  BY <1>1
<1> QED  BY <1>2, <1>3 DEF Pairwise

-----------------------------------------------------------------------------
(***************************************************************************)
(* The inductive invariant.                                                *)
(***************************************************************************)

\* What is left to do once a transport has closed.
Closers == {"abort", "retry", "close", "fail", "wsclose"}

\* Which call may be made in the course of which: the callbacks that Closers, a walk
\* or a timeout call only destroy the client or return.
MayNest(f, g) ==
    /\ g.do = "abort" => f.do = "refused"
    /\ g.do = "retry" => f.do \in {"refused", "abort"}
    /\ g.do = "open"  => f.do = "deauthenticate"
    /\ g.do = "close" => f.do \in {"refused", "abort", "retry"}
    /\ g.do \in {"fail", "wsclose", "flush", "cancel"} => f.do \in {"refused"} \cup Closers

\* Two callbacks of calls, two rejections and two entries of the map are of two calls.
Callbacks == {"answered", "refused"}
CallsDiffer(f, g) == f.do \in Callbacks /\ g.do \in Callbacks => f.at # g.at
FailsDiffer(f, g) == f.do = "fail" /\ g.do = "fail" => f.n # g.n /\ (f.at \in Calls => f.at # g.at)
Fits(f, g) == MayNest(f, g) /\ CallsDiffer(f, g) /\ FailsDiffer(f, g)

\* The calls of a task, the entries of the map and the events of the buffer, in order.
Nesting      == {p \in Frames \X Frames : Fits(p[1], p[2])}
EntriesDiffer == {p \in Entries \X Entries :
                    p[1].cid # p[2].cid /\ (p[1].at \in Calls \cup {Handshake} => p[1].at # p[2].at)}
EventsDiffer == {p \in (Calls \cup Casts) \X (Calls \cup Casts) : p[1] # p[2]}

\* The task still has such a call to make.
Doing(do) == \E f \in Elems(stack) : f.do = do

\* What each call of a task is about.
FrameOK(f) ==
    /\ f.do \in {"abort", "flush"} => f.at \in Calls \cup Casts \cup {None}
    /\ f.do = "fail" => f.at \in Channels \cup Calls \cup {Handshake} /\ f.n \in Cids
    /\ f.do = "cid" => f.at \in Channels /\ f.n \in Cids
    /\ f.do \in {"cancel", "answered", "refused"} => f.at \in Calls

\* What each message is about.
WireOK ==
    /\ \A m \in Elems(up) : m.ev = "subscribe" => m.at \in Channels
    /\ \A m \in Elems(down) : m.ev = "publish" => m.at \in Channels

\* All of the types.
Typed ==
    /\ TypeOK /\ WireOK
    /\ \A f \in Elems(stack) : FrameOK(f)
    /\ \A x \in Elems(map) : x.at \in Channels \cup Calls \cup {Handshake}

\* The calls of the running task are nested as the code nests them.
Nested == Pairwise(stack, Nesting)

\* The running task and the state of the client go together.
Disciplined ==
    /\ state # "closed" => active /\ retry = "none" /\ \A f \in Elems(stack) : f.do \notin Closers
    /\ state = "connecting" => ~ Doing("flush") /\ \A x \in Elems(map) : x.at = Handshake
    /\ state # "connecting" => \A x \in Elems(map) : x.at # Handshake
    /\ state = "closed" /\ active => map = <<>>
    /\ preparing <=> Doing("open")

\* The close of a transport still has to arm the reconnect timer, or has done so.
WillRetry ==
    active /\ state = "closed" /\ retry = "none" /\ ~ ForGood(code) =>
        \E f \in Elems(stack) : f.do = "retry" /\ f.n = code

\* While the pending calls of a transport are rejected, nothing else is pending, and
\* a handshake was pending alone.
Failing ==
    Doing("fail") =>
        /\ map = <<>>
        /\ \A c \in Channels : chan[c].cid = 0
        /\ (\E f \in Elems(stack) : f.do = "fail" /\ f.at = Handshake) =>
              \A f \in Elems(stack) : f.do = "fail" => f.at = Handshake

\* A call whose callback is called is not held any more.
Calling == \A f \in Elems(stack) : f.do \in Callbacks => f.at \notin asked

\* Where a call waits.
InBuffer(e) == e \in Elems(buffer)
InMap(e)    == \E x \in Elems(map) : x.at = e
InFails(e)  == \E f \in Elems(stack) : f.do = "fail" /\ f.at = e

\* It waits in one place only.
Held ==
    /\ Pairwise(buffer, EventsDiffer)
    /\ Pairwise(map, EntriesDiffer)
    /\ \A e \in asked :
          /\ InBuffer(e) \/ InMap(e) \/ InFails(e)
          /\ ~ (InBuffer(e) /\ InMap(e)) /\ ~ (InBuffer(e) /\ InFails(e)) /\ ~ (InMap(e) /\ InFails(e))

\* The two loops over the emit buffer.
Walking ==
    /\ \A f \in Elems(stack) : f.do = "abort" => f.at = First(buffer)
    /\ \A f \in Elems(stack) : f.do = "flush" /\ f.at \in asked => f.at \in Elems(buffer)
    /\ Doing("flush") /\ state = "closed" /\ ~ Doing("abort") => buffer = <<>>

\* A call that timed out is still in the map only until its timeout has ended, and is
\* rejected only after a destroy() from its callback.
TimedOut ==
    /\ \A f \in Elems(stack) : f.do = "cancel" => f.at \notin asked
    /\ active => \A x \in Elems(map) : x.at \in Calls \ asked =>
                    \E f \in Elems(stack) : f.do = "cancel" /\ f.at = x.at
    /\ active => \A f \in Elems(stack) : f.do = "fail" /\ f.at \in Calls => f.at \in asked

\* A call id names one request.
Owned ==
    /\ \A x \in Elems(map), c \in Channels : x.cid = chan[c].cid => x.at = c
    /\ \A x \in Elems(map), f \in Elems(stack) : f.do = "cid" /\ x.cid = f.n => x.at = f.at

\* The '#disconnect' of disconnect().
SaidGoodbye == \E m \in Elems(up) : m.ev = "disconnect"

\* A WebSocket left open has been told, or will be closed: what would skip that is the
\* rejection of a call that timed out.
Leaving ==
    state = "closed" /\ ws = "open" =>
        /\ SaidGoodbye \/ Doing("wsclose")
        /\ SaidGoodbye \/ \A f \in Elems(stack) : f.do = "fail" /\ f.at \in Calls => f.at \in asked

\* A channel's request is on record; a pending one has a request or is about to send it.
Requested ==
    \A c \in Channels : ~ chan[c].torn =>
        /\ chan[c].cid # 0 => state = "open" /\ [cid |-> chan[c].cid, at |-> c] \in Elems(map)
        /\ state = "open" /\ chan[c].st = "pending" /\ chan[c].cid = 0 =>
              Doing("open") \/ \E f \in Elems(stack) : f.do = "tries" /\ c \in f.of

\* The inductive invariant.
IInv == Typed /\ Nested /\ Disciplined /\ WillRetry /\ Failing /\ Calling /\ Held /\ Walking /\ TimedOut
        /\ Owned /\ Leaving /\ Requested

-----------------------------------------------------------------------------
(***************************************************************************)
(* Calls, and lists of calls.                                              *)
(***************************************************************************)

\* The names are told apart.
LEMMA NamesDiffer ==
    /\ Channels \cup Calls \cup Casts \cup {None, Handshake} = Names
    /\ Channels \cap Calls = {} /\ Channels \cap Casts = {} /\ Calls \cap Casts = {}
    /\ None \notin Channels \cup Calls \cup Casts \cup {Handshake}
    /\ Handshake \notin Channels \cup Calls \cup Casts
  BY SCClientAssumption DEF Names

\* What a call may be.
Dos == Hooks \cup Inner \cup Rests

\* Their names.
LEMMA DosAre ==
    {"connect", "close", "deauthenticate", "subscribe", "message", "answered", "refused",
     "abort", "retry", "fail", "wsclose", "open", "tries", "cid", "flushall", "flush",
     "respond", "cancel"} \subseteq Dos
  BY DEF Dos, Hooks, Inner

\* A call that is put on the stack.
LEMMA FrameIs ==
    ASSUME NEW do \in Dos, NEW at \in Names
    PROVE  /\ Frame(do, at) \in Frames
           /\ Frame(do, at).do = do /\ Frame(do, at).at = at
           /\ Frame(do, at).n = 0 /\ Frame(do, at).of = {}
  BY DEF Frame, Frames, Dos

\* One with a call id or a code.
LEMMA FrameWithN ==
    ASSUME NEW f \in Frames, NEW k \in Nat
    PROVE  /\ [f EXCEPT !.n = k] \in Frames
           /\ [f EXCEPT !.n = k].do = f.do /\ [f EXCEPT !.n = k].at = f.at
           /\ [f EXCEPT !.n = k].n = k /\ [f EXCEPT !.n = k].of = f.of
  BY DEF Frames

\* One with channels.
LEMMA FrameWithOf ==
    ASSUME NEW f \in Frames, NEW S \in SUBSET Channels
    PROVE  /\ [f EXCEPT !.of = S] \in Frames
           /\ [f EXCEPT !.of = S].do = f.do /\ [f EXCEPT !.of = S].at = f.at
           /\ [f EXCEPT !.of = S].n = f.n /\ [f EXCEPT !.of = S].of = S
  BY DEF Frames

\* One call in the course of another.
LEMMA NestingIs ==
    ASSUME NEW f \in Frames, NEW g \in Frames
    PROVE  <<f, g>> \in Nesting <=> Fits(f, g)
  BY DEF Nesting

\* The head of the stack and the rest of it.
LEMMA Popped ==
    ASSUME TypeOK, Nested, stack # <<>>
    PROVE  /\ Top \in Frames /\ Tail(stack) \in Seq(Frames)
           /\ Elems(Tail(stack)) \subseteq Frames
           /\ Elems(stack) = {Top} \cup Elems(Tail(stack))
           /\ Pairwise(Tail(stack), Nesting)
           /\ \A g \in Elems(Tail(stack)) : Fits(Top, g)
<1>1. stack \in Seq(Frames)
  BY DEF TypeOK
<1>2. /\ Top \in Frames /\ Tail(stack) \in Seq(Frames)
      /\ Elems(stack) = {Top} \cup Elems(Tail(stack))
  BY <1>1, ElemsOfTail DEF Top
<1>3. /\ Pairwise(Tail(stack), Nesting)
      /\ \A g \in Elems(Tail(stack)) : <<Top, g>> \in Nesting
  BY <1>1, PairwiseTail DEF Nested, Top
<1>4. Elems(Tail(stack)) \subseteq Frames
  BY <1>2, ElemsTyped
<1> QED  BY <1>2, <1>3, <1>4, NestingIs

\* A call put before others.
LEMMA Pushed ==
    ASSUME NEW f \in Frames, NEW t \in Seq(Frames), Pairwise(t, Nesting),
           \A g \in Elems(t) : Fits(f, g)
    PROVE  /\ <<f>> \o t \in Seq(Frames)
           /\ Elems(<<f>> \o t) = {f} \cup Elems(t)
           /\ Pairwise(<<f>> \o t, Nesting)
<1> DEFINE s == <<f>>
<1>1. s \in Seq(Frames) /\ Elems(s) = {f} /\ Pairwise(s, Nesting)
  BY ElemsOfFew, PairwiseFew
<1>2. Elems(t) \subseteq Frames
  BY ElemsTyped
<1>3. \A x \in Elems(s), y \in Elems(t) : <<x, y>> \in Nesting
  <2>1. \A y \in Elems(t) : <<f, y>> \in Nesting
    BY <1>2, NestingIs
  <2> QED  BY <1>1, <2>1
<1> HIDE DEF s
<1>4. s \o t \in Seq(Frames) /\ Elems(s \o t) = {f} \cup Elems(t)
  BY <1>1, ElemsOfConcat
<1>5. Pairwise(s \o t, Nesting)
  BY <1>1, <1>3, PairwiseConcat
<1> QED  BY <1>4, <1>5 DEF s

\* Several calls put before others one by one.
LEMMA Beside ==
    ASSUME NEW t \in Seq(Frames)
    PROVE  /\ <<>> \o t = t /\ t \o <<>> = t
           /\ \A a, b \in Frames : <<a, b>> \o t = <<a>> \o (<<b>> \o t)
           /\ \A a, b, c \in Frames : <<a, b, c>> \o t = <<a>> \o (<<b>> \o (<<c>> \o t))
<1>1. <<>> \o t = t /\ t \o <<>> = t
  BY ConcatEmptySeq
<1>2. ASSUME NEW a \in Frames, NEW b \in Frames PROVE <<a, b>> \o t = <<a>> \o (<<b>> \o t)
  <2>1. <<a, b>> = Append(<<a>>, b) /\ <<a>> \in Seq(Frames) /\ <<b>> \in Seq(Frames)
    OBVIOUS
  <2>2. <<a, b>> = <<a>> \o <<b>>
    BY <2>1, AppendIsConcat
  <2> QED  BY <2>1, <2>2, ConcatAssociative
<1>3. ASSUME NEW a \in Frames, NEW b \in Frames, NEW c \in Frames
      PROVE  <<a, b, c>> \o t = <<a>> \o (<<b>> \o (<<c>> \o t))
  <2>1. /\ <<a, b, c>> = Append(<<a, b>>, c)
        /\ <<a, b>> \in Seq(Frames) /\ <<c>> \in Seq(Frames) /\ <<c>> \o t \in Seq(Frames)
    OBVIOUS
  <2>2. <<a, b, c>> = <<a, b>> \o <<c>>
    BY <2>1, AppendIsConcat
  <2>3. <<a, b, c>> \o t = <<a, b>> \o (<<c>> \o t)
    BY <2>1, <2>2, ConcatAssociative
  <2>4. <<a, b>> \o (<<c>> \o t) = <<a>> \o (<<b>> \o (<<c>> \o t))
    <3>1. <<a, b>> = Append(<<a>>, b) /\ <<a>> \in Seq(Frames) /\ <<b>> \in Seq(Frames)
      OBVIOUS
    <3>2. <<a, b>> = <<a>> \o <<b>>
      BY <3>1, AppendIsConcat
    <3>3. (<<a>> \o <<b>>) \o (<<c>> \o t) = <<a>> \o (<<b>> \o (<<c>> \o t))
      BY <2>1, <3>1, ConcatAssociative
    <3> QED  BY <3>2, <3>3
  <2> QED  BY <2>3, <2>4
<1> QED  BY <1>1, <1>2, <1>3

-----------------------------------------------------------------------------
(***************************************************************************)
(* The list, the map and the stack when something is taken out.            *)
(***************************************************************************)

\* Without, with each of the tests the client uses, as first-order operators.
Minus(s, e) == Without(s, LAMBDA x : x = e)
MinusCid(s, n) == Without(s, LAMBDA x : x.cid = n)
MinusName(s, e) == Without(s, LAMBDA x : x.at = e)
MinusRequests(s, ch) == Without(s, LAMBDA e : e.at \in Channels /\ ch[e.at].cid = e.cid)
MinusChannel(s, c) == Without(s, LAMBDA f : f.at = c /\ f.do \in {"cid", "fail"})
FailsOf(s) == Without(s, LAMBDA f : f.do # "fail")

\* A list without one of its items.
LEMMA WithoutItem ==
    ASSUME NEW S, NEW s \in Seq(S), NEW e, NEW R
    PROVE  LET w == Minus(s, e) IN
           /\ w \in Seq(S) /\ Elems(w) = Elems(s) \ {e}
           /\ Pairwise(s, R) => Pairwise(w, R)
<1> DEFINE I == {i \in DOMAIN s : ~ (s[i] = e)}
<1>1. Minus(s, e) = Pick(s, I)
  BY DEF Without, Minus
<1>2. I \in SUBSET (1 .. Len(s))
  OBVIOUS
<1>3. {s[i] : i \in I} = Elems(s) \ {e}
  BY DEF Elems
<1> HIDE DEF I
<1>4. Pick(s, I) \in Seq(S) /\ Elems(Pick(s, I)) = {s[i] : i \in I}
  BY <1>2, Picked, ElemsOfPick
<1>5. Pairwise(s, R) => Pairwise(Pick(s, I), R)
  BY <1>2, PairwisePick
<1> QED  BY <1>1, <1>3, <1>4, <1>5

\* The map without the entries of a call id.
LEMMA WithoutCid ==
    ASSUME NEW s \in Seq(Entries), NEW n, NEW R
    PROVE  LET w == MinusCid(s, n) IN
           /\ w \in Seq(Entries) /\ Elems(w) = {x \in Elems(s) : x.cid # n}
           /\ Pairwise(s, R) => Pairwise(w, R)
<1> DEFINE I == {i \in DOMAIN s : ~ (s[i].cid = n)}
<1>1. MinusCid(s, n) = Pick(s, I)
  BY DEF Without, MinusCid
<1>2. I \in SUBSET (1 .. Len(s))
  OBVIOUS
<1>3. {s[i] : i \in I} = {x \in Elems(s) : x.cid # n}
  BY DEF Elems
<1> HIDE DEF I
<1>4. Pick(s, I) \in Seq(Entries) /\ Elems(Pick(s, I)) = {s[i] : i \in I}
  BY <1>2, Picked, ElemsOfPick
<1>5. Pairwise(s, R) => Pairwise(Pick(s, I), R)
  BY <1>2, PairwisePick
<1> QED  BY <1>1, <1>3, <1>4, <1>5

\* The map without the entries of a name.
LEMMA WithoutName ==
    ASSUME NEW s \in Seq(Entries), NEW e, NEW R
    PROVE  LET w == MinusName(s, e) IN
           /\ w \in Seq(Entries) /\ Elems(w) = {x \in Elems(s) : x.at # e}
           /\ Pairwise(s, R) => Pairwise(w, R)
<1> DEFINE I == {i \in DOMAIN s : ~ (s[i].at = e)}
<1>1. MinusName(s, e) = Pick(s, I)
  BY DEF Without, MinusName
<1>2. I \in SUBSET (1 .. Len(s))
  OBVIOUS
<1>3. {s[i] : i \in I} = {x \in Elems(s) : x.at # e}
  BY DEF Elems
<1> HIDE DEF I
<1>4. Pick(s, I) \in Seq(Entries) /\ Elems(Pick(s, I)) = {s[i] : i \in I}
  BY <1>2, Picked, ElemsOfPick
<1>5. Pairwise(s, R) => Pairwise(Pick(s, I), R)
  BY <1>2, PairwisePick
<1> QED  BY <1>1, <1>3, <1>4, <1>5

\* The map without the requests that channels wait for.
LEMMA WithoutRequests ==
    ASSUME NEW s \in Seq(Entries), NEW ch, NEW R
    PROVE  LET w == MinusRequests(s, ch) IN
           /\ w \in Seq(Entries)
           /\ Elems(w) = {x \in Elems(s) : ~ (x.at \in Channels /\ ch[x.at].cid = x.cid)}
           /\ Pairwise(s, R) => Pairwise(w, R)
<1> DEFINE I == {i \in DOMAIN s : ~ (s[i].at \in Channels /\ ch[s[i].at].cid = s[i].cid)}
<1>1. MinusRequests(s, ch) = Pick(s, I)
  BY DEF Without, MinusRequests
<1>2. I \in SUBSET (1 .. Len(s))
  OBVIOUS
<1>3. {s[i] : i \in I} = {x \in Elems(s) : ~ (x.at \in Channels /\ ch[x.at].cid = x.cid)}
  BY DEF Elems
<1> HIDE DEF I
<1>4. Pick(s, I) \in Seq(Entries) /\ Elems(Pick(s, I)) = {s[i] : i \in I}
  BY <1>2, Picked, ElemsOfPick
<1>5. Pairwise(s, R) => Pairwise(Pick(s, I), R)
  BY <1>2, PairwisePick
<1> QED  BY <1>1, <1>3, <1>4, <1>5

\* The task when a channel is destroyed.
LEMMA WithoutChannel ==
    ASSUME NEW s \in Seq(Frames), NEW c, Pairwise(s, Nesting)
    PROVE  LET w == MinusChannel(s, c) IN
           /\ w \in Seq(Frames) /\ Pairwise(w, Nesting)
           /\ Elems(w) = {f \in Elems(s) : ~ (f.at = c /\ f.do \in {"cid", "fail"})}
<1> DEFINE I == {i \in DOMAIN s : ~ (s[i].at = c /\ s[i].do \in {"cid", "fail"})}
<1>1. MinusChannel(s, c) = Pick(s, I)
  BY DEF Without, MinusChannel
<1>2. I \in SUBSET (1 .. Len(s))
  OBVIOUS
<1>3. {s[i] : i \in I} = {f \in Elems(s) : ~ (f.at = c /\ f.do \in {"cid", "fail"})}
  BY DEF Elems
<1> HIDE DEF I
<1>4. Pick(s, I) \in Seq(Frames) /\ Elems(Pick(s, I)) = {s[i] : i \in I}
  BY <1>2, Picked, ElemsOfPick
<1>5. Pairwise(Pick(s, I), Nesting)
  BY <1>2, PairwisePick
<1> QED  BY <1>1, <1>3, <1>4, <1>5

\* The rejections of a task.
LEMMA OnlyFails ==
    ASSUME NEW s \in Seq(Frames), Pairwise(s, Nesting)
    PROVE  LET w == FailsOf(s) IN
           /\ w \in Seq(Frames) /\ Pairwise(w, Nesting)
           /\ Elems(w) = {f \in Elems(s) : f.do = "fail"}
<1> DEFINE I == {i \in DOMAIN s : ~ (s[i].do # "fail")}
<1>1. FailsOf(s) = Pick(s, I)
  BY DEF Without, FailsOf
<1>2. I \in SUBSET (1 .. Len(s))
  OBVIOUS
<1>3. {s[i] : i \in I} = {f \in Elems(s) : f.do = "fail"}
  BY DEF Elems
<1> HIDE DEF I
<1>4. Pick(s, I) \in Seq(Frames) /\ Elems(Pick(s, I)) = {s[i] : i \in I}
  BY <1>2, Picked, ElemsOfPick
<1>5. Pairwise(Pick(s, I), Nesting)
  BY <1>2, PairwisePick
<1> QED  BY <1>1, <1>3, <1>4, <1>5

\* No item is in the list twice.
Distinct(s) == \A i, j \in 1 .. Len(s) : i < j => s[i] # s[j]

\* The item after the first is the first without it.
LEMMA AfterFirst ==
    ASSUME NEW S, NEW s \in Seq(S), Distinct(s)
    PROVE  /\ s # <<>> => First(s) \in Elems(s)
           /\ s = <<>> => First(s) = None
           /\ First(Minus(s, First(s))) = After(s, First(s))
<1>1. /\ s = <<>> <=> Elems(s) = {}
      /\ \A i \in 1 .. Len(s) : s[i] \in Elems(s)
  BY ElemsTyped
<1> SUFFICES ASSUME NEW e, e = First(s)
             PROVE  /\ s # <<>> => e \in Elems(s)
                    /\ s = <<>> => e = None
                    /\ First(Minus(s, e)) = After(s, e)
  OBVIOUS
<1> DEFINE I == {i \in DOMAIN s : ~ (s[i] = e)}
           w == Pick(s, I)
<1>2. Minus(s, e) = w
  BY DEF Without, Minus
<1>3. I \in SUBSET (1 .. Len(s))
  OBVIOUS
<1>4. I = {i \in 1 .. Len(s) : s[i] # e}
  OBVIOUS
<1> HIDE DEF I
<1>5. /\ w \in Seq(S) /\ Len(w) = Cardinality(I) /\ Cardinality(I) \in Nat
      /\ \A k \in 1 .. Cardinality(I) : Position(I, k) \in I /\ w[k] = s[Position(I, k)]
      /\ \A i \in I : \E k \in 1 .. Cardinality(I) : Position(I, k) = i
      /\ \A k, l \in 1 .. Cardinality(I) : k < l => Position(I, k) < Position(I, l)
  BY <1>3, Picked
<1> HIDE DEF w
<1>6. CASE s = <<>>
  <2>1. s = <<>> /\ e = None /\ After(s, e) = None /\ I = {}
    BY <1>4, <1>6 DEF First, After
  <2>2. Len(w) = 0
    <3>1. \A k \in 1 .. Cardinality(I) : FALSE
      BY <1>5, <2>1
    <3> QED  BY <1>5, <3>1
  <2>3. First(w) = None
    BY <1>5, <2>2 DEF First
  <2> QED  BY <1>2, <2>1, <2>3
<1>7. CASE s # <<>>
  <2>1. e = s[1] /\ 1 \in 1 .. Len(s) /\ Len(s) \in Nat /\ s # <<>> /\ e \in Elems(s)
    BY <1>1, <1>7 DEF First
  <2>2. I = 2 .. Len(s)
    BY <1>4, <2>1 DEF Distinct
  <2>3. CASE Len(s) = 1
    <3>1. Len(w) = 0
      <4>1. \A k \in 1 .. Cardinality(I) : FALSE
        BY <1>5, <2>2, <2>3
      <4> QED  BY <1>5, <4>1
    <3>2. First(w) = None
      BY <1>5, <3>1 DEF First
    <3>3. After(s, e) = None
      BY <2>3 DEF After
    <3> QED  BY <1>2, <2>1, <3>2, <3>3
  <2>4. CASE Len(s) > 1
    <3>0. Len(s) \in Nat
      OBVIOUS
    <3>1. 2 \in I /\ 1 \in 1 .. Len(s) - 1
      BY <2>2, <2>4, <3>0
    <3>2. PICK k \in 1 .. Cardinality(I) : Position(I, k) = 2
      BY <1>5, <3>1
    <3>3. k = 1
      <4>1. k > 1 => Position(I, 1) \in I /\ Position(I, 1) < 2
        BY <1>5, <3>2
      <4> QED  BY <2>2, <4>1
    <3>4. w # <<>> /\ w[1] = s[2]
      BY <1>5, <3>2, <3>3
    <3>5. \A i \in 1 .. Len(s) - 1 : s[i] = e <=> i = 1
      BY <2>1 DEF Distinct
    <3>6. After(s, e) = s[2]
      BY <3>1, <3>5 DEF After
    <3> QED  BY <1>2, <2>1, <3>4, <3>6 DEF First
  <2>5. Len(s) \in Nat /\ Len(s) > 0
    BY <1>7
  <2>6. \A n \in Nat : n > 0 => n = 1 \/ n > 1
    OBVIOUS
  <2>7. Len(s) = 1 \/ Len(s) > 1
    BY <2>5, <2>6, Zenon
  <2> QED  BY <2>3, <2>4, <2>7
<1> QED  BY <1>6, <1>7

\* The item after any other is an item, or there is none.
LEMMA AfterTyped ==
    ASSUME NEW s \in Seq(Calls \cup Casts), NEW e
    PROVE  /\ After(s, e) \in Calls \cup Casts \cup {None}
           /\ After(s, e) # None => After(s, e) \in Elems(s)
<1>1. \A i \in 1 .. Len(s) : s[i] \in Calls \cup Casts /\ s[i] \in Elems(s)
  BY ElemsTyped
<1>2. CASE \E i \in 1 .. Len(s) - 1 : s[i] = e
  <2>1. (CHOOSE i \in 1 .. Len(s) - 1 : s[i] = e) + 1 \in 1 .. Len(s)
    BY <1>2
  <2> QED  BY <1>1, <1>2, <2>1 DEF After
<1>3. CASE ~ \E i \in 1 .. Len(s) - 1 : s[i] = e
  BY <1>3 DEF After
<1> QED  BY <1>2, <1>3

\* Events of the buffer are different.
LEMMA EventsDistinct ==
    ASSUME NEW s \in Seq(Calls \cup Casts)
    PROVE  Pairwise(s, EventsDiffer) <=> Distinct(s)
<1>1. \A x, y \in Calls \cup Casts : <<x, y>> \in EventsDiffer <=> x # y
  BY DEF EventsDiffer
<1>2. \A i \in 1 .. Len(s) : s[i] \in Calls \cup Casts
  OBVIOUS
<1>3. DOMAIN s = 1 .. Len(s)
  OBVIOUS
<1> QED  BY <1>1, <1>2, <1>3 DEF Pairwise, Distinct

\* A round of the client's _abortAllPendingEventsDueToBadConnection.
LEMMA AbortBufferedKeeps ==
    ASSUME IInv, AbortBuffered PROVE IInv'
<1> DEFINE t == Tail(stack)
<1>1. /\ stack # <<>> /\ Top.do = "abort"
      /\ Top \in Frames /\ t \in Seq(Frames) /\ Elems(t) \subseteq Frames
      /\ Elems(stack) = {Top} \cup Elems(t) /\ Pairwise(t, Nesting)
      /\ \A g \in Elems(t) : Fits(Top, g)
  BY Popped DEF IInv, Typed, Step, Top, AbortBuffered
<1>2. IInv /\ Typed /\ Nested /\ Disciplined /\ WillRetry /\ Failing /\ Calling /\ Held /\ Walking
      /\ TimedOut /\ Owned /\ Leaving /\ Requested /\ TypeOK
  BY DEF IInv, Typed

<1>3. /\ state = "closed" /\ Top.at = First(buffer) /\ Top.at \in Calls \cup Casts \cup {None}
      /\ \A g \in Elems(t) : g.do \notin {"abort", "open"}
  BY <1>1, <1>2 DEF Disciplined, Closers, Walking, Typed, FrameOK, Fits, MayNest
<1>4. /\ buffer \in Seq(Calls \cup Casts) /\ asked \subseteq Calls
      /\ Pairwise(buffer, EventsDiffer)
      /\ Elems(buffer) \subseteq Calls \cup Casts /\ (buffer = <<>> <=> Elems(buffer) = {})
  BY <1>2, ElemsTyped DEF TypeOK, Held
<1>5. /\ buffer # <<>> => Top.at \in Elems(buffer)
      /\ buffer = <<>> => Top.at = None
      /\ First(Minus(buffer, Top.at)) = After(buffer, Top.at)
  BY <1>3, <1>4, EventsDistinct, AfterFirst
<1>6. /\ buffer' \in Seq(Calls \cup Casts) /\ Elems(buffer') = Elems(buffer) \ {Top.at}
      /\ Pairwise(buffer', EventsDiffer)
      /\ First(buffer') = After(buffer, Top.at) /\ After(buffer, Top.at) \in Calls \cup Casts \cup {None}
      /\ (buffer' = <<>> <=> Elems(buffer') = {})
  <2>1. buffer' = Minus(buffer, Top.at)
    BY DEF AbortBuffered, Without, Minus
  <2>2. buffer' \in Seq(Calls \cup Casts) /\ Elems(buffer') = Elems(buffer) \ {Top.at}
    BY <1>4, <2>1, WithoutItem
  <2>3. Pairwise(buffer', EventsDiffer)
    BY <1>4, <2>1, WithoutItem
  <2>4. buffer' = <<>> <=> Elems(buffer') = {}
    BY <2>2, ElemsTyped
  <2> QED  BY <1>4, <1>5, <2>1, <2>2, <2>3, <2>4, AfterTyped
<1> DEFINE next == Frame("abort", After(buffer, Top.at))
           told == Frame("refused", Top.at)
           t1   == IF Top.at = None THEN t ELSE <<next>> \o t
<1>7. /\ next \in Frames /\ next.do = "abort" /\ next.at = After(buffer, Top.at)
      /\ told \in Frames /\ told.do = "refused" /\ told.at = Top.at
  <2>1. Top.at \in Names /\ After(buffer, Top.at) \in Names
    BY <1>3, <1>6, NamesDiffer
  <2> QED  BY <2>1, FrameIs, DosAre
<1> HIDE DEF next, told, t
<1>8. /\ t1 \in Seq(Frames) /\ Pairwise(t1, Nesting)
      /\ Elems(t1) = IF Top.at = None THEN Elems(t) ELSE {next} \cup Elems(t)
  <2>1. \A g \in Elems(t) : Fits(next, g)
    BY <1>1, <1>3, <1>7 DEF Fits, MayNest, CallsDiffer, FailsDiffer, Callbacks, Closers
  <2> QED  BY <1>1, <1>7, <2>1, Pushed
<1>9. /\ stack' = IF Top.at \in asked THEN <<told>> \o t1 ELSE t1
  <2>1. stack' = (IF Top.at \in asked THEN <<told>> ELSE <<>>)
                 \o (IF Top.at = None THEN <<>> ELSE <<next>>) \o t
    BY DEF AbortBuffered, next, told, t
  <2>2. stack' = (IF Top.at \in asked THEN <<told>> ELSE <<>>) \o t1
    <3>1. CASE Top.at = None
      <4>1. stack' = (IF Top.at \in asked THEN <<told>> ELSE <<>>) \o <<>> \o t
        BY <2>1, <3>1
      <4>2. Top.at \notin asked
        BY <1>4, <3>1, NamesDiffer
      <4>3. <<>> \o <<>> \o t = t /\ <<>> \o t = t
        BY <1>1, Beside
      <4> QED  BY <3>1, <4>1, <4>2, <4>3
    <3>2. CASE Top.at # None /\ Top.at \in asked
      <4>1. stack' = <<told>> \o <<next>> \o t
        BY <2>1, <3>2
      <4>2. <<told>> \o <<next>> \o t = <<told>> \o (<<next>> \o t)
        BY <1>1, <1>7, ConcatAssociative
      <4> QED  BY <3>2, <4>1, <4>2
    <3>3. CASE Top.at # None /\ Top.at \notin asked
      <4>1. stack' = <<>> \o <<next>> \o t
        BY <2>1, <3>3
      <4>2. <<>> \o <<next>> = <<next>> /\ <<>> \o (<<next>> \o t) = <<next>> \o t
        BY <1>1, <1>7, <1>8, <3>3, Beside
      <4> QED  BY <3>3, <4>1, <4>2
    <3> QED  BY <3>1, <3>2, <3>3
  <2>3. <<>> \o t1 = t1
    BY <1>8, Beside
  <2> QED  BY <2>2, <2>3
<1> HIDE DEF t1
<1>10. /\ stack' \in Seq(Frames) /\ Pairwise(stack', Nesting)
       /\ Elems(stack') = (IF Top.at \in asked THEN {told} ELSE {})
                          \cup (IF Top.at = None THEN {} ELSE {next}) \cup Elems(t)
  <2>1. CASE Top.at \in asked
    <3>1. \A g \in Elems(t1) : Fits(told, g)
      BY <1>1, <1>2, <1>7, <1>8, <2>1 DEF Fits, MayNest, CallsDiffer, FailsDiffer, Callbacks, Calling
    <3>2. /\ <<told>> \o t1 \in Seq(Frames) /\ Pairwise(<<told>> \o t1, Nesting)
          /\ Elems(<<told>> \o t1) = {told} \cup Elems(t1)
      BY <1>7, <1>8, <3>1, Pushed
    <3> QED  BY <1>8, <1>9, <2>1, <3>2
  <2>2. CASE Top.at \notin asked
    BY <1>8, <1>9, <2>2
  <2> QED  BY <2>1, <2>2
<1>29. Top.at \in asked => \A f \in Elems(stack) : f.do = "fail" => f.at # Top.at
  <2>1. Top.at \in asked => InBuffer(Top.at)
    BY <1>4, <1>5, NamesDiffer DEF InBuffer
  <2> QED  BY <1>2, <2>1 DEF Held, InFails
<1>30. asked' = asked \ {Top.at} /\ UNCHANGED <<active, state, auth, token, preparing, tried, retry, code, map, chan, wireVars>>
  BY DEF AbortBuffered
<1>11. Typed'
  BY ZenonT(60), <1>1, <1>2, <1>3, <1>4, <1>5, <1>6, <1>7, <1>10, <1>29, <1>30, NamesDiffer DEF Typed, TypeOK, WireOK, FrameOK, wireVars
<1>12. Nested'
  BY <1>1, <1>2, <1>3, <1>4, <1>5, <1>6, <1>7, <1>10, <1>29, <1>30 DEF Nested
<1>13. Disciplined'
  BY <1>1, <1>2, <1>3, <1>4, <1>5, <1>6, <1>7, <1>10, <1>29, <1>30 DEF Disciplined, Doing, Closers
<1>14. WillRetry'
  BY <1>1, <1>2, <1>3, <1>4, <1>5, <1>6, <1>7, <1>10, <1>29, <1>30 DEF WillRetry
<1>15. Failing'
  BY <1>1, <1>2, <1>3, <1>4, <1>5, <1>6, <1>7, <1>10, <1>29, <1>30 DEF Failing, Doing
<1>16. Calling'
  BY <1>1, <1>2, <1>3, <1>4, <1>5, <1>6, <1>7, <1>10, <1>29, <1>30 DEF Calling, Callbacks
<1>17. Held'
  BY <1>1, <1>2, <1>3, <1>4, <1>5, <1>6, <1>7, <1>10, <1>29, <1>30 DEF Held, InBuffer, InMap, InFails
<1>18. Walking'
  BY <1>1, <1>2, <1>3, <1>4, <1>5, <1>6, <1>7, <1>10, <1>29, <1>30, NamesDiffer DEF Walking, Doing
<1>19. TimedOut'
  BY <1>1, <1>2, <1>3, <1>4, <1>5, <1>6, <1>7, <1>10, <1>29, <1>30, ElemsOfFew DEF TimedOut, Disciplined
<1>20. Owned'
  BY <1>1, <1>2, <1>3, <1>4, <1>5, <1>6, <1>7, <1>10, <1>29, <1>30 DEF Owned
<1>21. Leaving'
  BY <1>1, <1>2, <1>3, <1>4, <1>5, <1>6, <1>7, <1>10, <1>29, <1>30 DEF Leaving, SaidGoodbye, Doing, wireVars
<1>22. Requested'
  BY <1>1, <1>2, <1>3, <1>4, <1>5, <1>6, <1>7, <1>10, <1>29, <1>30 DEF Requested, Doing
<1> QED  BY <1>11, <1>12, <1>13, <1>14, <1>15, <1>16, <1>17, <1>18, <1>19, <1>20, <1>21, <1>22 DEF IInv

\* The decision of _onSCClose, and _tryReconnect.
LEMMA TryReconnectKeeps ==
    ASSUME IInv, TryReconnect PROVE IInv'
<1> DEFINE t == Tail(stack)
<1>1. /\ stack # <<>> /\ Top.do = "retry"
      /\ Top \in Frames /\ t \in Seq(Frames) /\ Elems(t) \subseteq Frames
      /\ Elems(stack) = {Top} \cup Elems(t) /\ Pairwise(t, Nesting)
      /\ \A g \in Elems(t) : Fits(Top, g)
  BY Popped DEF IInv, Typed, Step, Top, TryReconnect
<1>2. IInv /\ Typed /\ Nested /\ Disciplined /\ WillRetry /\ Failing /\ Calling /\ Held /\ Walking
      /\ TimedOut /\ Owned /\ Leaving /\ Requested /\ TypeOK
  BY DEF IInv, Typed
<1>3. stack' = t
  BY DEF TryReconnect
<1>4. /\ IF AtOnce(Top.n) \/ ~ ForGood(Top.n) THEN retry' \in {"now", "later"} /\ tried' = TRUE
                                                ELSE UNCHANGED <<tried, retry>>
      /\ UNCHANGED <<active, state, auth, token, preparing, code, buffer, map, asked, chan, wireVars>>
  BY DEF TryReconnect
<1> HIDE DEF t
<1>11. Typed'
  BY ZenonT(60), <1>1, <1>2, <1>3, <1>4 DEF Typed, TypeOK, WireOK, FrameOK, wireVars
<1>12. Nested'
  BY <1>1, <1>2, <1>3, <1>4 DEF Nested
<1>13. Disciplined'
  BY <1>1, <1>2, <1>3, <1>4 DEF Disciplined, Doing, Closers, Fits, MayNest
<1>14. WillRetry'
  BY <1>1, <1>2, <1>3, <1>4 DEF WillRetry, ForGood, AtOnce, Fits, MayNest
<1>15. Failing'
  BY <1>1, <1>2, <1>3, <1>4 DEF Failing, Doing
<1>16. Calling'
  BY <1>1, <1>2, <1>3, <1>4 DEF Calling, Callbacks
<1>17. Held'
  BY <1>1, <1>2, <1>3, <1>4 DEF Held, InBuffer, InMap, InFails
<1>18. Walking'
  BY <1>1, <1>2, <1>3, <1>4 DEF Walking, Doing
<1>19. TimedOut'
  BY <1>1, <1>2, <1>3, <1>4 DEF TimedOut
<1>20. Owned'
  BY <1>1, <1>2, <1>3, <1>4 DEF Owned
<1>21. Leaving'
  BY <1>1, <1>2, <1>3, <1>4 DEF Leaving, SaidGoodbye, Doing, wireVars
<1>22. Requested'
  BY <1>1, <1>2, <1>3, <1>4 DEF Requested, Doing
<1> QED  BY <1>11, <1>12, <1>13, <1>14, <1>15, <1>16, <1>17, <1>18, <1>19, <1>20, <1>21, <1>22 DEF IInv

\* The close of the WebSocket after _onClose.
LEMMA CloseWebSocketKeeps ==
    ASSUME IInv, CloseWebSocket PROVE IInv'
<1> DEFINE t == Tail(stack)
<1>1. /\ stack # <<>> /\ Top.do = "wsclose"
      /\ Top \in Frames /\ t \in Seq(Frames) /\ Elems(t) \subseteq Frames
      /\ Elems(stack) = {Top} \cup Elems(t) /\ Pairwise(t, Nesting)
      /\ \A g \in Elems(t) : Fits(Top, g)
  BY Popped DEF IInv, Typed, Step, Top, CloseWebSocket
<1>2. IInv /\ Typed /\ Nested /\ Disciplined /\ WillRetry /\ Failing /\ Calling /\ Held /\ Walking
      /\ TimedOut /\ Owned /\ Leaving /\ Requested /\ TypeOK
  BY DEF IInv, Typed
<1>3. stack' = t
  BY DEF CloseWebSocket
<1>4. ws' = "gone" /\ up' = <<>> /\ down' = <<>> /\ peer' = Stranger /\ UNCHANGED <<selfVars, linkVars>>
  BY DEF CloseWebSocket, Gone
<1>5. Elems(up') = {} /\ Elems(down') = {} /\ up' \in Seq(Messages) /\ down' \in Seq(Messages)
  BY <1>4, ElemsOfFew
<1> HIDE DEF t
<1>11. Typed'
  BY <1>1, <1>2, <1>3, <1>4, <1>5 DEF Typed, TypeOK, WireOK, FrameOK, selfVars, linkVars, Stranger
<1>12. Nested'
  BY <1>1, <1>2, <1>3, <1>4, <1>5 DEF Nested, selfVars, linkVars
<1>13. Disciplined'
  BY <1>1, <1>2, <1>3, <1>4, <1>5 DEF Disciplined, Doing, Closers, selfVars, linkVars
<1>14. WillRetry'
  BY <1>1, <1>2, <1>3, <1>4, <1>5 DEF WillRetry, selfVars, linkVars
<1>15. Failing'
  BY <1>1, <1>2, <1>3, <1>4, <1>5 DEF Failing, Doing, selfVars, linkVars
<1>16. Calling'
  BY <1>1, <1>2, <1>3, <1>4, <1>5 DEF Calling, Callbacks, selfVars, linkVars
<1>17. Held'
  BY <1>1, <1>2, <1>3, <1>4, <1>5 DEF Held, InBuffer, InMap, InFails, selfVars, linkVars
<1>18. Walking'
  BY <1>1, <1>2, <1>3, <1>4, <1>5 DEF Walking, Doing, selfVars, linkVars
<1>19. TimedOut'
  BY <1>1, <1>2, <1>3, <1>4, <1>5 DEF TimedOut, selfVars, linkVars
<1>20. Owned'
  BY <1>1, <1>2, <1>3, <1>4, <1>5 DEF Owned, selfVars, linkVars
<1>21. Leaving'
  BY <1>1, <1>2, <1>3, <1>4, <1>5 DEF Leaving, SaidGoodbye, Doing, selfVars, linkVars
<1>22. Requested'
  BY <1>1, <1>2, <1>3, <1>4, <1>5 DEF Requested, Doing, selfVars, linkVars
<1> QED  BY <1>11, <1>12, <1>13, <1>14, <1>15, <1>16, <1>17, <1>18, <1>19, <1>20, <1>21, <1>22 DEF IInv

\* The page returns from a callback.
LEMMA PageReturnsKeeps ==
    ASSUME IInv, PageReturns PROVE IInv'
<1> DEFINE t == Tail(stack)
<1>1. /\ stack # <<>> /\ Top.do \in Hooks
      /\ Top \in Frames /\ t \in Seq(Frames) /\ Elems(t) \subseteq Frames
      /\ Elems(stack) = {Top} \cup Elems(t) /\ Pairwise(t, Nesting)
      /\ \A g \in Elems(t) : Fits(Top, g)
  BY Popped DEF IInv, Typed, Step, Top, PageReturns
<1>2. IInv /\ Typed /\ Nested /\ Disciplined /\ WillRetry /\ Failing /\ Calling /\ Held /\ Walking
      /\ TimedOut /\ Owned /\ Leaving /\ Requested /\ TypeOK
  BY DEF IInv, Typed
<1>3. stack' = t
  BY DEF PageReturns
<1>4. UNCHANGED <<selfVars, linkVars, wireVars>>
  BY DEF PageReturns
<1> HIDE DEF t
<1>11. Typed'
  BY <1>1, <1>2, <1>3, <1>4 DEF Typed, TypeOK, WireOK, FrameOK, selfVars, linkVars, Hooks, wireVars
<1>12. Nested'
  BY <1>1, <1>2, <1>3, <1>4 DEF Nested, selfVars, linkVars, Hooks
<1>13. Disciplined'
  BY <1>1, <1>2, <1>3, <1>4 DEF Disciplined, Doing, Closers, selfVars, linkVars, Hooks
<1>14. WillRetry'
  BY <1>1, <1>2, <1>3, <1>4 DEF WillRetry, selfVars, linkVars, Hooks
<1>15. Failing'
  BY <1>1, <1>2, <1>3, <1>4 DEF Failing, Doing, selfVars, linkVars, Hooks
<1>16. Calling'
  BY <1>1, <1>2, <1>3, <1>4 DEF Calling, Callbacks, selfVars, linkVars, Hooks
<1>17. Held'
  BY <1>1, <1>2, <1>3, <1>4 DEF Held, InBuffer, InMap, InFails, selfVars, linkVars, Hooks
<1>18. Walking'
  BY <1>1, <1>2, <1>3, <1>4 DEF Walking, Doing, selfVars, linkVars, Hooks
<1>19. TimedOut'
  BY <1>1, <1>2, <1>3, <1>4 DEF TimedOut, selfVars, linkVars, Hooks
<1>20. Owned'
  BY <1>1, <1>2, <1>3, <1>4 DEF Owned, selfVars, linkVars, Hooks
<1>21. Leaving'
  BY <1>1, <1>2, <1>3, <1>4 DEF Leaving, SaidGoodbye, Doing, selfVars, linkVars, Hooks, wireVars
<1>22. Requested'
  BY <1>1, <1>2, <1>3, <1>4 DEF Requested, Doing, selfVars, linkVars, Hooks
<1> QED  BY <1>11, <1>12, <1>13, <1>14, <1>15, <1>16, <1>17, <1>18, <1>19, <1>20, <1>21, <1>22 DEF IInv

\* The first item is an item, unless there is none.
LEMMA FirstTyped ==
    ASSUME NEW s \in Seq(Calls \cup Casts)
    PROVE  /\ First(s) \in Calls \cup Casts \cup {None}
           /\ First(s) # None => First(s) \in Elems(s)
<1>1. CASE s = <<>>
  BY <1>1 DEF First
<1>2. CASE s # <<>>
  <2>1. First(s) = Head(s) /\ Head(s) \in Calls \cup Casts /\ Elems(s) = {Head(s)} \cup Elems(Tail(s))
    BY <1>2, ElemsOfTail DEF First
  <2> QED  BY <2>1
<1> QED  BY <1>1, <1>2

\* The rejections that an exception leaves undone, as the entries they were made from.
LEMMA FailsToEntries ==
    ASSUME NEW s \in Seq(Frames), NEW m, Pairwise(s, Nesting),
           m = [i \in DOMAIN s |-> [cid |-> s[i].n, at |-> s[i].at]],
           \A f \in Elems(s) : f.do = "fail" /\ f.n \in Cids /\ f.at \in Channels \cup Calls
    PROVE  /\ m \in Seq(Entries)
           /\ Elems(m) = {[cid |-> f.n, at |-> f.at] : f \in Elems(s)}
           /\ Pairwise(m, EntriesDiffer)
<1>1. \A i \in 1 .. Len(s) : s[i] \in Elems(s) /\ s[i] \in Frames
  BY ElemsTyped
<1>6. Channels \cup Calls \subseteq Names /\ Handshake \notin Channels \cup Calls
  BY NamesDiffer
<1>2. /\ DOMAIN s = 1 .. Len(s) /\ Len(s) \in Nat
      /\ \A i \in 1 .. Len(s) : m[i] = [cid |-> s[i].n, at |-> s[i].at] /\ m[i] \in Entries
  BY <1>1, <1>6 DEF Entries
<1>3. m \in Seq(Entries) /\ DOMAIN m = 1 .. Len(s)
  BY <1>2
<1>4. Elems(m) = {[cid |-> f.n, at |-> f.at] : f \in Elems(s)}
  BY <1>2, <1>3 DEF Elems
<1>5. ASSUME NEW i \in 1 .. Len(s), NEW j \in 1 .. Len(s), i < j PROVE <<m[i], m[j]>> \in EntriesDiffer
  <2>1. <<s[i], s[j]>> \in Nesting
    BY <1>2, <1>5 DEF Pairwise
  <2>2. FailsDiffer(s[i], s[j])
    BY <1>1, <2>1, NestingIs DEF Fits
  <2>3. s[i].n # s[j].n /\ (s[i].at \in Calls => s[i].at # s[j].at)
    BY <1>1, <2>2 DEF FailsDiffer
  <2>4. m[i].at # Handshake /\ m[i].at = s[i].at /\ m[j].at = s[j].at /\ m[i].cid = s[i].n /\ m[j].cid = s[j].n
    BY <1>1, <1>2, <1>6
  <2> QED  BY <1>2, <2>3, <2>4 DEF EntriesDiffer
<1> QED  BY <1>3, <1>4, <1>5 DEF Pairwise

\* A round of the transport's _abortAllPendingEventsDueToBadConnection.
LEMMA FailPendingKeeps ==
    ASSUME IInv, FailPending PROVE IInv'
<1> DEFINE t == Tail(stack)
<1>1. /\ stack # <<>> /\ Top.do = "fail"
      /\ Top \in Frames /\ t \in Seq(Frames) /\ Elems(t) \subseteq Frames
      /\ Elems(stack) = {Top} \cup Elems(t) /\ Pairwise(t, Nesting)
      /\ \A g \in Elems(t) : Fits(Top, g)
  BY Popped DEF IInv, Typed, Step, Top, FailPending
<1>2. IInv /\ Typed /\ Nested /\ Disciplined /\ WillRetry /\ Failing /\ Calling /\ Held /\ Walking
      /\ TimedOut /\ Owned /\ Leaving /\ Requested /\ TypeOK
  BY DEF IInv, Typed

<1>3. /\ state = "closed" /\ map = <<>> /\ Elems(map) = {} /\ \A c \in Channels : chan[c].cid = 0
      /\ Top.at \in Channels \cup Calls \cup {Handshake} /\ Top.n \in Cids
      /\ \A g \in Elems(t) : g.do # "open"
  BY <1>1, <1>2, ElemsOfFew DEF Disciplined, Closers, Failing, Doing, Typed, FrameOK, Fits, MayNest
<1>4. CASE /\ Top.at = Handshake
           /\ Gone
           /\ stack' = Tail(stack)
           /\ UNCHANGED <<selfVars, linkVars>>
  <2>1. /\ ws' = "gone" /\ up' = <<>> /\ down' = <<>> /\ peer' = Stranger
        /\ Elems(up') = {} /\ Elems(down') = {} /\ up' \in Seq(Messages) /\ down' \in Seq(Messages)
        /\ stack' = t
    BY <1>4, ElemsOfFew DEF Gone
  <2> HIDE DEF t
  <2>2. \A e \in asked : InFails(e) <=> \E f \in Elems(t) : f.do = "fail" /\ f.at = e
    <3>1. Top.at \notin asked
      BY <1>2, <1>4, NamesDiffer DEF TypeOK
    <3> QED  BY <1>1, <3>1 DEF InFails
  <2>11. Typed'
    BY <1>1, <1>2, <1>3, <1>4, <2>1 DEF Typed, TypeOK, WireOK, FrameOK, selfVars, linkVars, wireVars, Stranger
  <2>12. Nested'
    BY <1>1, <1>2, <1>3, <1>4, <2>1 DEF Nested, selfVars, linkVars
  <2>13. Disciplined'
    BY <1>1, <1>2, <1>3, <1>4, <2>1 DEF Disciplined, Doing, Closers, selfVars, linkVars
  <2>14. WillRetry'
    BY <1>1, <1>2, <1>3, <1>4, <2>1 DEF WillRetry, selfVars, linkVars
  <2>15. Failing'
    BY <1>1, <1>2, <1>3, <1>4, <2>1 DEF Failing, Doing, selfVars, linkVars
  <2>16. Calling'
    BY <1>1, <1>2, <1>3, <1>4, <2>1 DEF Calling, Callbacks, selfVars, linkVars
  <2>17. Held'
    BY <1>1, <1>2, <1>3, <1>4, <2>1, <2>2 DEF Held, InBuffer, InMap, InFails, selfVars, linkVars
  <2>18. Walking'
    BY <1>1, <1>2, <1>3, <1>4, <2>1 DEF Walking, Doing, selfVars, linkVars
  <2>19. TimedOut'
    BY <1>1, <1>2, <1>3, <1>4, <2>1 DEF TimedOut, selfVars, linkVars
  <2>20. Owned'
    BY <1>1, <1>2, <1>3, <1>4, <2>1 DEF Owned, selfVars, linkVars
  <2>21. Leaving'
    BY <1>1, <1>2, <1>3, <1>4, <2>1 DEF Leaving, SaidGoodbye, Doing, selfVars, linkVars, wireVars
  <2>22. Requested'
    BY <1>1, <1>2, <1>3, <1>4, <2>1 DEF Requested, Doing, selfVars, linkVars
  <2> QED  BY <2>11, <2>12, <2>13, <2>14, <2>15, <2>16, <2>17, <2>18, <2>19, <2>20, <2>21, <2>22 DEF IInv
<1>5. CASE /\ Top.at \in asked
           /\ asked' = asked \ {Top.at}
           /\ stack' = <<Frame("refused", Top.at)>> \o Tail(stack)
           /\ UNCHANGED <<active, auth, token, preparing, tried, linkVars, wireVars>>
  <2> DEFINE told == Frame("refused", Top.at)
  <2>1. told \in Frames /\ told.do = "refused" /\ told.at = Top.at /\ Top.at \in Calls
    <3>1. Top.at \in Names /\ Top.at \in Calls
      BY <1>2, <1>5, NamesDiffer DEF TypeOK
    <3> QED  BY <3>1, FrameIs, DosAre
  <2>2. stack' = <<told>> \o t
    BY <1>5
  <2> HIDE DEF t, told
  <2>3. \A g \in Elems(t) : Fits(told, g)
    BY <1>1, <1>2, <1>5, <2>1 DEF Fits, MayNest, CallsDiffer, FailsDiffer, Callbacks, Calling
  <2>4. stack' \in Seq(Frames) /\ Elems(stack') = {told} \cup Elems(t) /\ Pairwise(stack', Nesting)
    BY <1>1, <2>1, <2>2, <2>3, Pushed
  <2>5. \A g \in Elems(t) : g.do = "fail" => g.at # Top.at
    BY <1>1, <2>1 DEF Fits, FailsDiffer
  <2>11. Typed'
    BY <1>1, <1>2, <1>3, <1>5, <2>1, <2>4, <2>5 DEF Typed, TypeOK, WireOK, FrameOK, selfVars, linkVars, wireVars
  <2>12. Nested'
    BY <1>1, <1>2, <1>3, <1>5, <2>1, <2>4, <2>5 DEF Nested, selfVars, linkVars
  <2>13. Disciplined'
    BY <1>1, <1>2, <1>3, <1>5, <2>1, <2>4, <2>5 DEF Disciplined, Doing, Closers, selfVars, linkVars
  <2>14. WillRetry'
    BY <1>1, <1>2, <1>3, <1>5, <2>1, <2>4, <2>5 DEF WillRetry, selfVars, linkVars
  <2>15. Failing'
    BY <1>1, <1>2, <1>3, <1>5, <2>1, <2>4, <2>5 DEF Failing, Doing, selfVars, linkVars
  <2>16. Calling'
    BY <1>1, <1>2, <1>3, <1>5, <2>1, <2>4, <2>5 DEF Calling, Callbacks, selfVars, linkVars
  <2>17. Held'
    BY <1>1, <1>2, <1>3, <1>5, <2>1, <2>4, <2>5 DEF Held, InBuffer, InMap, InFails, selfVars, linkVars
  <2>18. Walking'
    BY <1>1, <1>2, <1>3, <1>5, <2>1, <2>4, <2>5 DEF Walking, Doing, selfVars, linkVars
  <2>19. TimedOut'
    BY <1>1, <1>2, <1>3, <1>5, <2>1, <2>4, <2>5 DEF TimedOut, selfVars, linkVars
  <2>20. Owned'
    BY <1>1, <1>2, <1>3, <1>5, <2>1, <2>4, <2>5 DEF Owned, selfVars, linkVars
  <2>21. Leaving'
    BY <1>1, <1>2, <1>3, <1>5, <2>1, <2>4, <2>5 DEF Leaving, SaidGoodbye, Doing, selfVars, linkVars, wireVars
  <2>22. Requested'
    BY <1>1, <1>2, <1>3, <1>5, <2>1, <2>4, <2>5 DEF Requested, Doing, selfVars, linkVars
  <2> QED  BY <2>11, <2>12, <2>13, <2>14, <2>15, <2>16, <2>17, <2>18, <2>19, <2>20, <2>21, <2>22 DEF IInv
<1>6. CASE /\ Top.at \in Calls \ asked
           /\ LET left == FailsOf(Tail(stack))
              IN  map' = [i \in DOMAIN left |-> [cid |-> left[i].n, at |-> left[i].at]]
           /\ stack' = <<>>
           /\ UNCHANGED <<selfVars, state, retry, code, chan, buffer, wireVars>>
  <2> DEFINE left == FailsOf(t)
  <2>1. left \in Seq(Frames) /\ Pairwise(left, Nesting) /\ Elems(left) = {f \in Elems(t) : f.do = "fail"}
    BY <1>1, OnlyFails
  <2>2. map' = [i \in DOMAIN left |-> [cid |-> left[i].n, at |-> left[i].at]]
    BY <1>6
  <2>3. Elems(stack') = {} /\ stack' = <<>> /\ stack' \in Seq(Frames) /\ Pairwise(stack', Nesting)
    BY <1>6, ElemsOfFew, PairwiseFew
  <2> HIDE DEF left, t
  <2>4. \A f \in Elems(left) : f \in Frames /\ f.do = "fail" /\ f.n \in Cids /\ f.at \in Channels \cup Calls
    <3>1. \A f \in Elems(left) : f \in Elems(stack) /\ f \in Frames /\ f.do = "fail"
      BY <1>1, <2>1
    <3>2. \A f \in Elems(left) : f.at # Handshake
      BY <1>1, <1>2, <1>6, <3>1, NamesDiffer DEF Failing, Doing
    <3> QED  BY <1>2, <3>1, <3>2 DEF Typed, FrameOK
  <2>5. /\ map' \in Seq(Entries) /\ Pairwise(map', EntriesDiffer)
        /\ Elems(map') = {[cid |-> f.n, at |-> f.at] : f \in Elems(left)}
    BY <2>1, <2>2, <2>4, FailsToEntries
  <2>6. ~ active /\ preparing = FALSE /\ preparing' = FALSE /\ active' = FALSE
    BY <1>1, <1>2, <1>3, <1>6 DEF TimedOut, Disciplined, Doing, TypeOK, selfVars
  <2>7. SaidGoodbye \/ ws # "open"
    BY <1>1, <1>2, <1>3, <1>6 DEF Leaving
  <2>8. \A x \in Elems(map') : x.cid \in Cids /\ x.at \in Channels \cup Calls
    BY <2>4, <2>5
  <2>9. \A e \in asked : /\ InFails(e) <=> (\E x \in Elems(map') : x.at = e)
                         /\ ~ InMap(e)
    <3>1. \A e : (\E x \in Elems(map') : x.at = e) <=> \E f \in Elems(left) : f.at = e
      <4>1. \A x \in Elems(map') : \E f \in Elems(left) : x.at = f.at
        BY <2>5
      <4>2. \A f \in Elems(left) : [cid |-> f.n, at |-> f.at] \in Elems(map')
        BY <2>5
      <4> QED  BY <4>1, <4>2
    <3>2. \A e \in asked : InFails(e) <=> \E f \in Elems(left) : f.at = e
      BY <1>1, <1>6, <2>1 DEF InFails
    <3> QED  BY <1>3, <3>1, <3>2 DEF InMap
  <2>11. Typed'
    BY <1>1, <1>2, <1>3, <1>6, <2>1, <2>3, <2>6, <2>8, <2>5 DEF Typed, TypeOK, WireOK, FrameOK, selfVars, linkVars, wireVars
  <2>12. Nested'
    BY <1>1, <1>2, <1>3, <1>6, <2>1, <2>3, <2>6, <2>8 DEF Nested, selfVars, linkVars
  <2>13. Disciplined'
    BY <1>1, <1>2, <1>3, <1>6, <2>1, <2>3, <2>6, <2>8, NamesDiffer DEF Disciplined, Doing, Closers, selfVars, linkVars
  <2>14. WillRetry'
    BY <1>1, <1>2, <1>3, <1>6, <2>1, <2>3, <2>6, <2>8 DEF WillRetry, selfVars, linkVars
  <2>15. Failing'
    BY <1>1, <1>2, <1>3, <1>6, <2>1, <2>3, <2>6, <2>8 DEF Failing, Doing, selfVars, linkVars
  <2>16. Calling'
    BY <1>1, <1>2, <1>3, <1>6, <2>1, <2>3, <2>6, <2>8 DEF Calling, Callbacks, selfVars, linkVars
  <2>17. Held'
    BY <1>1, <1>2, <1>3, <1>6, <2>1, <2>3, <2>6, <2>8, <2>5, <2>9 DEF Held, InBuffer, InMap, InFails, selfVars, linkVars
  <2>18. Walking'
    BY <1>1, <1>2, <1>3, <1>6, <2>1, <2>3, <2>6, <2>8 DEF Walking, Doing, selfVars, linkVars
  <2>19. TimedOut'
    BY <1>1, <1>2, <1>3, <1>6, <2>1, <2>3, <2>6, <2>8 DEF TimedOut, selfVars, linkVars
  <2>20. Owned'
    BY <1>1, <1>2, <1>3, <1>6, <2>1, <2>3, <2>6, <2>8 DEF Owned, selfVars, linkVars, Cids
  <2>21. Leaving'
    BY <1>1, <1>2, <1>3, <1>6, <2>1, <2>3, <2>6, <2>8, <2>7 DEF Leaving, SaidGoodbye, Doing, selfVars, linkVars, wireVars
  <2>22. Requested'
    BY <1>1, <1>2, <1>3, <1>6, <2>1, <2>3, <2>6, <2>8 DEF Requested, Doing, selfVars, linkVars
  <2> QED  BY <2>11, <2>12, <2>13, <2>14, <2>15, <2>16, <2>17, <2>18, <2>19, <2>20, <2>21, <2>22 DEF IInv
<1>7. CASE /\ Top.at \in Channels
           /\ chan' = [chan EXCEPT ![Top.at] = Settled(@, "unsubscribed")]
           /\ stack' = Tail(stack)
           /\ UNCHANGED <<selfVars, state, retry, code, map, buffer, wireVars>>
  <2>1. stack' = t
    BY <1>7
  <2> HIDE DEF t
  <2>3. \A e \in asked : InFails(e) <=> \E f \in Elems(t) : f.do = "fail" /\ f.at = e
    <3>1. Top.at \notin asked
      BY <1>2, <1>7, NamesDiffer DEF TypeOK
    <3> QED  BY <1>1, <3>1 DEF InFails
  <2>2. /\ chan' \in [Channels -> [st : {"none", "unsubscribed", "pending", "subscribed"}, cid : 0 .. MaxCid,
                                   torn : BOOLEAN]]
        /\ \A c \in Channels : chan'[c].cid = 0
    BY <1>2, <1>3, <1>7, SCClientAssumption DEF TypeOK, Settled, NoChannel
  <2>11. Typed'
    BY ZenonT(60), <1>1, <1>2, <1>3, <1>7, <2>1, <2>2 DEF Typed, TypeOK, WireOK, FrameOK, selfVars, linkVars, wireVars
  <2>12. Nested'
    BY <1>1, <1>2, <1>3, <1>7, <2>1, <2>2 DEF Nested, selfVars, linkVars
  <2>13. Disciplined'
    BY <1>1, <1>2, <1>3, <1>7, <2>1, <2>2 DEF Disciplined, Doing, Closers, selfVars, linkVars
  <2>14. WillRetry'
    BY <1>1, <1>2, <1>3, <1>7, <2>1, <2>2 DEF WillRetry, selfVars, linkVars
  <2>15. Failing'
    BY <1>1, <1>2, <1>3, <1>7, <2>1, <2>2 DEF Failing, Doing, selfVars, linkVars
  <2>16. Calling'
    BY <1>1, <1>2, <1>3, <1>7, <2>1, <2>2 DEF Calling, Callbacks, selfVars, linkVars
  <2>17. Held'
    BY <1>1, <1>2, <1>3, <1>7, <2>1, <2>2, <2>3 DEF Held, InBuffer, InMap, InFails, selfVars, linkVars
  <2>18. Walking'
    BY <1>1, <1>2, <1>3, <1>7, <2>1, <2>2 DEF Walking, Doing, selfVars, linkVars
  <2>19. TimedOut'
    BY <1>1, <1>2, <1>3, <1>7, <2>1, <2>2 DEF TimedOut, selfVars, linkVars
  <2>20. Owned'
    BY <1>1, <1>2, <1>3, <1>7, <2>1, <2>2 DEF Owned, selfVars, linkVars
  <2>21. Leaving'
    BY <1>1, <1>2, <1>3, <1>7, <2>1, <2>2 DEF Leaving, SaidGoodbye, Doing, selfVars, linkVars, wireVars
  <2>22. Requested'
    BY <1>1, <1>2, <1>3, <1>7, <2>1, <2>2 DEF Requested, Doing, selfVars, linkVars
  <2> QED  BY <2>11, <2>12, <2>13, <2>14, <2>15, <2>16, <2>17, <2>18, <2>19, <2>20, <2>21, <2>22 DEF IInv
<1> QED  BY <1>4, <1>5, <1>6, <1>7 DEF FailPending, FailsOf

\* The assignment of _pendingSubscriptionCid.
LEMMA AssignCidKeeps ==
    ASSUME IInv, AssignCid PROVE IInv'
<1> DEFINE t == Tail(stack)
<1>1. /\ stack # <<>> /\ Top.do = "cid"
      /\ Top \in Frames /\ t \in Seq(Frames) /\ Elems(t) \subseteq Frames
      /\ Elems(stack) = {Top} \cup Elems(t) /\ Pairwise(t, Nesting)
      /\ \A g \in Elems(t) : Fits(Top, g)
  BY Popped DEF IInv, Typed, Step, Top, AssignCid
<1>2. IInv /\ Typed /\ Nested /\ Disciplined /\ WillRetry /\ Failing /\ Calling /\ Held /\ Walking
      /\ TimedOut /\ Owned /\ Leaving /\ Requested /\ TypeOK
  BY DEF IInv, Typed
<1>3. stack' = t
  BY DEF AssignCid
<1>4. /\ chan' = [chan EXCEPT ![Top.at].cid = Top.n, ![Top.at].torn = TRUE]
      /\ UNCHANGED <<selfVars, state, retry, code, map, buffer, wireVars>>
  BY DEF AssignCid
<1> HIDE DEF t
<1>5. /\ Top.at \in Channels /\ Top.n \in Cids /\ Top.n \in 0 .. MaxCid
      /\ \A g \in Elems(t) : g.do # "fail"
  BY <1>1, <1>2, SCClientAssumption DEF Typed, FrameOK, Fits, MayNest, Closers, Cids
<1>6. /\ chan' \in [Channels -> [st : {"none", "unsubscribed", "pending", "subscribed"}, cid : 0 .. MaxCid,
                                 torn : BOOLEAN]]
      /\ \A c \in Channels : chan'[c] = IF c = Top.at THEN [chan[c] EXCEPT !.cid = Top.n, !.torn = TRUE] ELSE chan[c]
      /\ \A c \in Channels \ {Top.at} : chan'[c] = chan[c]
      /\ chan'[Top.at].cid = Top.n /\ chan'[Top.at].torn
  BY ZenonT(60), <1>2, <1>4, <1>5 DEF TypeOK
<1>7. \A e \in asked : InFails(e) <=> \E f \in Elems(t) : f.do = "fail" /\ f.at = e
  BY <1>1 DEF InFails
<1>11. Typed'
  BY ZenonT(60), <1>1, <1>2, <1>3, <1>4, <1>5, <1>6 DEF Typed, TypeOK, WireOK, FrameOK, selfVars, linkVars, wireVars
<1>12. Nested'
  BY <1>1, <1>2, <1>3, <1>4, <1>5, <1>6 DEF Nested, selfVars, linkVars
<1>13. Disciplined'
  BY <1>1, <1>2, <1>3, <1>4, <1>5, <1>6 DEF Disciplined, Doing, Closers, selfVars, linkVars
<1>14. WillRetry'
  BY <1>1, <1>2, <1>3, <1>4, <1>5, <1>6 DEF WillRetry, selfVars, linkVars
<1>15. Failing'
  BY <1>1, <1>2, <1>3, <1>4, <1>5, <1>6 DEF Failing, Doing, selfVars, linkVars
<1>16. Calling'
  BY <1>1, <1>2, <1>3, <1>4, <1>5, <1>6 DEF Calling, Callbacks, selfVars, linkVars
<1>17. Held'
  BY <1>1, <1>2, <1>3, <1>4, <1>5, <1>6, <1>7 DEF Held, InBuffer, InMap, InFails, selfVars, linkVars
<1>18. Walking'
  BY <1>1, <1>2, <1>3, <1>4, <1>5, <1>6 DEF Walking, Doing, selfVars, linkVars
<1>19. TimedOut'
  BY <1>1, <1>2, <1>3, <1>4, <1>5, <1>6 DEF TimedOut, selfVars, linkVars
<1>20. Owned'
  <2>1. ASSUME NEW x \in Elems(map), NEW c \in Channels, x.cid = chan'[c].cid PROVE x.at = c
    <3>1. CASE c = Top.at
      <4>1. x.cid = Top.n /\ Top \in Elems(stack)
        BY <1>1, <1>6, <2>1, <3>1
      <4> QED  BY <1>1, <1>2, <3>1, <4>1 DEF Owned
    <3>2. CASE c # Top.at
      <4>1. x.cid = chan[c].cid
        BY <1>6, <2>1, <3>2
      <4> QED  BY <1>2, <4>1 DEF Owned
    <3> QED  BY <3>1, <3>2
  <2>2. \A x \in Elems(map), f \in Elems(t) : f.do = "cid" /\ x.cid = f.n => x.at = f.at
    BY <1>1, <1>2 DEF Owned
  <2> QED  BY <1>3, <1>4, <2>1, <2>2 DEF Owned
<1>21. Leaving'
  BY <1>1, <1>2, <1>3, <1>4, <1>5, <1>6 DEF Leaving, SaidGoodbye, Doing, selfVars, linkVars, wireVars
<1>22. Requested'
  <2> SUFFICES ASSUME NEW c \in Channels, ~ chan'[c].torn
               PROVE  /\ chan[c].cid # 0 => state = "open" /\ [cid |-> chan[c].cid, at |-> c] \in Elems(map)
                      /\ state = "open" /\ chan[c].st = "pending" /\ chan[c].cid = 0 =>
                           \/ \E f \in Elems(t) : f.do = "open"
                           \/ \E f \in Elems(t) : f.do = "tries" /\ c \in f.of
    BY <1>3, <1>4, <1>6 DEF Requested, Doing
  <2>1. chan'[c] = chan[c]
    BY <1>6
  <2> QED  BY <1>1, <1>2, <2>1 DEF Requested, Doing
<1> QED  BY <1>11, <1>12, <1>13, <1>14, <1>15, <1>16, <1>17, <1>18, <1>19, <1>20, <1>21, <1>22 DEF IInv

\* The last statement of _onSCOpen.
LEMMA FlushAllKeeps ==
    ASSUME IInv, FlushAll PROVE IInv'
<1> DEFINE t == Tail(stack)
<1>1. /\ stack # <<>> /\ Top.do = "flushall"
      /\ Top \in Frames /\ t \in Seq(Frames) /\ Elems(t) \subseteq Frames
      /\ Elems(stack) = {Top} \cup Elems(t) /\ Pairwise(t, Nesting)
      /\ \A g \in Elems(t) : Fits(Top, g)
  BY Popped DEF IInv, Typed, Step, Top, FlushAll
<1>2. IInv /\ Typed /\ Nested /\ Disciplined /\ WillRetry /\ Failing /\ Calling /\ Held /\ Walking
      /\ TimedOut /\ Owned /\ Leaving /\ Requested /\ TypeOK
  BY DEF IInv, Typed
<1>3. UNCHANGED <<selfVars, linkVars, wireVars>>
  BY DEF FlushAll
<1>4. \A g \in Elems(t) : g.do \notin {"abort", "retry", "open", "close", "fail", "wsclose", "flush", "cancel"}
  BY <1>1 DEF Fits, MayNest, Closers
<1>5. CASE state # "open"
  <2>1. stack' = t
    BY <1>1, <1>5, Beside DEF FlushAll
  <2> HIDE DEF t
  <2>11. Typed'
    BY <1>1, <1>2, <1>3, <1>4, <1>5, <2>1 DEF Typed, TypeOK, WireOK, FrameOK, selfVars, linkVars, wireVars
  <2>12. Nested'
    BY <1>1, <1>2, <1>3, <1>4, <1>5, <2>1 DEF Nested, selfVars, linkVars
  <2>13. Disciplined'
    BY <1>1, <1>2, <1>3, <1>4, <1>5, <2>1 DEF Disciplined, Doing, Closers, selfVars, linkVars
  <2>14. WillRetry'
    BY <1>1, <1>2, <1>3, <1>4, <1>5, <2>1 DEF WillRetry, selfVars, linkVars
  <2>15. Failing'
    BY <1>1, <1>2, <1>3, <1>4, <1>5, <2>1 DEF Failing, Doing, selfVars, linkVars
  <2>16. Calling'
    BY <1>1, <1>2, <1>3, <1>4, <1>5, <2>1 DEF Calling, Callbacks, selfVars, linkVars
  <2>17. Held'
    BY <1>1, <1>2, <1>3, <1>4, <1>5, <2>1 DEF Held, InBuffer, InMap, InFails, selfVars, linkVars
  <2>18. Walking'
    BY <1>1, <1>2, <1>3, <1>4, <1>5, <2>1 DEF Walking, Doing, selfVars, linkVars
  <2>19. TimedOut'
    BY <1>1, <1>2, <1>3, <1>4, <1>5, <2>1 DEF TimedOut, selfVars, linkVars
  <2>20. Owned'
    BY <1>1, <1>2, <1>3, <1>4, <1>5, <2>1 DEF Owned, selfVars, linkVars
  <2>21. Leaving'
    BY <1>1, <1>2, <1>3, <1>4, <1>5, <2>1 DEF Leaving, SaidGoodbye, Doing, selfVars, linkVars, wireVars
  <2>22. Requested'
    BY <1>1, <1>2, <1>3, <1>4, <1>5, <2>1 DEF Requested, Doing, selfVars, linkVars
  <2> QED  BY <2>11, <2>12, <2>13, <2>14, <2>15, <2>16, <2>17, <2>18, <2>19, <2>20, <2>21, <2>22 DEF IInv
<1>6. CASE state = "open"
  <2> DEFINE next == Frame("flush", First(buffer))
  <2>1. stack' = <<next>> \o t
    BY <1>6 DEF FlushAll
  <2>2. First(buffer) \in Calls \cup Casts \cup {None} /\ (First(buffer) # None => First(buffer) \in Elems(buffer))
    BY <1>2, FirstTyped DEF TypeOK
  <2>3. next \in Frames /\ next.do = "flush" /\ next.at = First(buffer)
    <3>1. First(buffer) \in Names
      BY <2>2, NamesDiffer
    <3> QED  BY <3>1, FrameIs, DosAre
  <2> HIDE DEF t, next
  <2>4. \A g \in Elems(t) : Fits(next, g)
    BY <1>1, <1>4, <2>3 DEF Fits, MayNest, CallsDiffer, FailsDiffer, Callbacks, Closers
  <2>5. stack' \in Seq(Frames) /\ Elems(stack') = {next} \cup Elems(t) /\ Pairwise(stack', Nesting)
    BY <1>1, <2>1, <2>3, <2>4, Pushed
  <2>11. Typed'
    BY <1>1, <1>2, <1>3, <1>4, <1>6, <2>2, <2>3, <2>5 DEF Typed, TypeOK, WireOK, FrameOK, selfVars, linkVars, wireVars
  <2>12. Nested'
    BY <1>1, <1>2, <1>3, <1>4, <1>6, <2>2, <2>3, <2>5 DEF Nested, selfVars, linkVars
  <2>13. Disciplined'
    BY <1>1, <1>2, <1>3, <1>4, <1>6, <2>2, <2>3, <2>5 DEF Disciplined, Doing, Closers, selfVars, linkVars
  <2>14. WillRetry'
    BY <1>1, <1>2, <1>3, <1>4, <1>6, <2>2, <2>3, <2>5 DEF WillRetry, selfVars, linkVars
  <2>15. Failing'
    BY <1>1, <1>2, <1>3, <1>4, <1>6, <2>2, <2>3, <2>5 DEF Failing, Doing, selfVars, linkVars
  <2>16. Calling'
    BY <1>1, <1>2, <1>3, <1>4, <1>6, <2>2, <2>3, <2>5 DEF Calling, Callbacks, selfVars, linkVars
  <2>17. Held'
    BY <1>1, <1>2, <1>3, <1>4, <1>6, <2>2, <2>3, <2>5 DEF Held, InBuffer, InMap, InFails, selfVars, linkVars
  <2>18. Walking'
    BY <1>1, <1>2, <1>3, <1>4, <1>6, <2>2, <2>3, <2>5, NamesDiffer DEF Walking, Doing, selfVars, linkVars, TypeOK
  <2>19. TimedOut'
    BY <1>1, <1>2, <1>3, <1>4, <1>6, <2>2, <2>3, <2>5 DEF TimedOut, selfVars, linkVars
  <2>20. Owned'
    BY <1>1, <1>2, <1>3, <1>4, <1>6, <2>2, <2>3, <2>5 DEF Owned, selfVars, linkVars
  <2>21. Leaving'
    BY <1>1, <1>2, <1>3, <1>4, <1>6, <2>2, <2>3, <2>5 DEF Leaving, SaidGoodbye, Doing, selfVars, linkVars, wireVars
  <2>22. Requested'
    BY <1>1, <1>2, <1>3, <1>4, <1>6, <2>2, <2>3, <2>5 DEF Requested, Doing, selfVars, linkVars
  <2> QED  BY <2>11, <2>12, <2>13, <2>14, <2>15, <2>16, <2>17, <2>18, <2>19, <2>20, <2>21, <2>22 DEF IInv
<1> QED  BY <1>5, <1>6

\* _onSCOpen from connectAttempts = 0 on.
LEMMA ConnectedKeeps ==
    ASSUME IInv, Connected PROVE IInv'
<1> DEFINE t == Tail(stack)
<1>1. /\ stack # <<>> /\ Top.do = "open"
      /\ Top \in Frames /\ t \in Seq(Frames) /\ Elems(t) \subseteq Frames
      /\ Elems(stack) = {Top} \cup Elems(t) /\ Pairwise(t, Nesting)
      /\ \A g \in Elems(t) : Fits(Top, g)
  BY Popped DEF IInv, Typed, Step, Top, Connected
<1>2. IInv /\ Typed /\ Nested /\ Disciplined /\ WillRetry /\ Failing /\ Calling /\ Held /\ Walking
      /\ TimedOut /\ Owned /\ Leaving /\ Requested /\ TypeOK
  BY DEF IInv, Typed
<1>3. /\ tried' = FALSE /\ preparing' = FALSE
      /\ UNCHANGED <<active, auth, token, asked, linkVars, wireVars>>
  BY DEF Connected
<1>4. \A g \in Elems(t) : g.do \notin {"abort", "retry", "open", "close", "fail", "wsclose", "flush", "cancel"}
  BY <1>1 DEF Fits, MayNest, Closers
<1> DEFINE f1 == ProcessPending
           f2 == [Frame("connect", None) EXCEPT !.n = Top.n]
           f3 == Frame("flushall", None)
<1>5. /\ f1 \in Frames /\ f1.do = "tries" /\ f1.of = Pending
      /\ f2 \in Frames /\ f2.do = "connect"
      /\ f3 \in Frames /\ f3.do = "flushall"
  <2>1. /\ None \in Names /\ Pending \in SUBSET Channels /\ Top.n \in Nat
    BY <1>1, NamesDiffer DEF Pending, Frames
  <2>2. Frame("tries", None) \in Frames /\ Frame("tries", None).do = "tries"
        /\ Frame("connect", None) \in Frames /\ Frame("connect", None).do = "connect"
        /\ f3 \in Frames /\ f3.do = "flushall"
    BY <2>1, FrameIs, DosAre
  <2>3. f1 \in Frames /\ f1.do = "tries" /\ f1.of = Pending
    BY <2>1, <2>2, FrameWithOf DEF ProcessPending
  <2>4. f2 \in Frames /\ f2.do = "connect"
    BY <2>1, <2>2, FrameWithN
  <2> QED  BY <2>2, <2>3, <2>4
<1>6. stack' = <<f1, f2, f3>> \o t
  BY DEF Connected
<1> HIDE DEF t, f1, f2, f3
<1>7. stack' = <<f1>> \o (<<f2>> \o (<<f3>> \o t))
  <2>0. t \in Seq(Frames) /\ f1 \in Frames /\ f2 \in Frames /\ f3 \in Frames
    BY <1>1, <1>5
  <2>1. <<f1, f2, f3>> \o t = <<f1>> \o (<<f2>> \o (<<f3>> \o t))
    BY <2>0, Beside
  <2> QED  BY <1>6, <2>1
<1> DEFINE t3 == <<f3>> \o t
           t2 == <<f2>> \o t3
<1>8. t3 \in Seq(Frames) /\ Elems(t3) = {f3} \cup Elems(t) /\ Pairwise(t3, Nesting)
  <2>1. \A g \in Elems(t) : Fits(f3, g)
    BY <1>1, <1>4, <1>5 DEF Fits, MayNest, CallsDiffer, FailsDiffer, Callbacks, Closers
  <2> QED  BY <1>1, <1>5, <2>1, Pushed
<1> HIDE DEF t3
<1>9. t2 \in Seq(Frames) /\ Elems(t2) = {f2, f3} \cup Elems(t) /\ Pairwise(t2, Nesting)
  <2>1. \A g \in Elems(t3) : Fits(f2, g)
    BY <1>1, <1>4, <1>5, <1>8 DEF Fits, MayNest, CallsDiffer, FailsDiffer, Callbacks, Closers
  <2>2. t2 \in Seq(Frames) /\ Elems(t2) = {f2} \cup Elems(t3) /\ Pairwise(t2, Nesting)
    BY <1>5, <1>8, <2>1, Pushed
  <2> QED  BY <1>8, <2>2
<1> HIDE DEF t2
<1>10. stack' \in Seq(Frames) /\ Elems(stack') = {f1, f2, f3} \cup Elems(t) /\ Pairwise(stack', Nesting)
  <2>1. \A g \in Elems(t2) : Fits(f1, g)
    BY <1>1, <1>4, <1>5, <1>9 DEF Fits, MayNest, CallsDiffer, FailsDiffer, Callbacks, Closers
  <2>2. stack' = <<f1>> \o t2
    BY <1>7 DEF t2, t3
  <2>3. stack' \in Seq(Frames) /\ Elems(stack') = {f1} \cup Elems(t2) /\ Pairwise(stack', Nesting)
    BY <1>5, <1>9, <2>1, <2>2, Pushed
  <2> QED  BY <1>9, <2>3
<1>11. Typed'
  BY <1>1, <1>2, <1>3, <1>4, <1>5, <1>10 DEF Typed, TypeOK, WireOK, FrameOK, selfVars, linkVars, wireVars
<1>12. Nested'
  BY <1>1, <1>2, <1>3, <1>4, <1>5, <1>10 DEF Nested, selfVars, linkVars
<1>13. Disciplined'
  BY <1>1, <1>2, <1>3, <1>4, <1>5, <1>10 DEF Disciplined, Doing, Closers, selfVars, linkVars
<1>14. WillRetry'
  BY <1>1, <1>2, <1>3, <1>4, <1>5, <1>10 DEF WillRetry, selfVars, linkVars
<1>15. Failing'
  BY <1>1, <1>2, <1>3, <1>4, <1>5, <1>10 DEF Failing, Doing, selfVars, linkVars
<1>16. Calling'
  BY <1>1, <1>2, <1>3, <1>4, <1>5, <1>10 DEF Calling, Callbacks, selfVars, linkVars
<1>17. Held'
  BY <1>1, <1>2, <1>3, <1>4, <1>5, <1>10 DEF Held, InBuffer, InMap, InFails, selfVars, linkVars
<1>18. Walking'
  BY <1>1, <1>2, <1>3, <1>4, <1>5, <1>10 DEF Walking, Doing, selfVars, linkVars
<1>19. TimedOut'
  BY <1>1, <1>2, <1>3, <1>4, <1>5, <1>10 DEF TimedOut, selfVars, linkVars
<1>20. Owned'
  BY <1>1, <1>2, <1>3, <1>4, <1>5, <1>10 DEF Owned, selfVars, linkVars
<1>21. Leaving'
  BY <1>1, <1>2, <1>3, <1>4, <1>5, <1>10 DEF Leaving, SaidGoodbye, Doing, selfVars, linkVars, wireVars
<1>22. Requested'
  BY <1>1, <1>2, <1>3, <1>4, <1>5, <1>10 DEF Requested, Doing, selfVars, linkVars, Pending
<1> QED  BY <1>11, <1>12, <1>13, <1>14, <1>15, <1>16, <1>17, <1>18, <1>19, <1>20, <1>21, <1>22 DEF IInv

\* The end of _handleEventAckTimeout.
LEMMA CancelResponseKeeps ==
    ASSUME IInv, CancelResponse PROVE IInv'
<1> DEFINE t == Tail(stack)
<1>1. /\ stack # <<>> /\ Top.do = "cancel"
      /\ Top \in Frames /\ t \in Seq(Frames) /\ Elems(t) \subseteq Frames
      /\ Elems(stack) = {Top} \cup Elems(t) /\ Pairwise(t, Nesting)
      /\ \A g \in Elems(t) : Fits(Top, g)
  BY Popped DEF IInv, Typed, Step, Top, CancelResponse
<1>2. IInv /\ Typed /\ Nested /\ Disciplined /\ WillRetry /\ Failing /\ Calling /\ Held /\ Walking
      /\ TimedOut /\ Owned /\ Leaving /\ Requested /\ TypeOK
  BY DEF IInv, Typed
<1>3. stack' = t
  BY DEF CancelResponse
<1>4. /\ map' = MinusName(map, Top.at)
      /\ UNCHANGED <<selfVars, state, retry, code, chan, buffer, wireVars>>
  BY DEF CancelResponse, MinusName
<1>5. /\ map' \in Seq(Entries) /\ Elems(map') = {x \in Elems(map) : x.at # Top.at}
      /\ Pairwise(map', EntriesDiffer)
      /\ map = <<>> => map' = <<>>
  <2>1. map' \in Seq(Entries) /\ Elems(map') = {x \in Elems(map) : x.at # Top.at}
        /\ Pairwise(map', EntriesDiffer)
    BY <1>2, <1>4, WithoutName DEF TypeOK, Held
  <2>2. (map = <<>> => Elems(map) = {}) /\ (Elems(map') = {} => map' = <<>>)
    BY <2>1, ElemsOfFew, ElemsTyped
  <2> QED  BY <2>1, <2>2
<1>6. Top.at \in Calls /\ Top.at \notin asked /\ Top.at \notin Channels
  BY <1>1, <1>2, NamesDiffer DEF TimedOut, Typed, FrameOK
<1> HIDE DEF t
<1>11. Typed'
  BY <1>1, <1>2, <1>3, <1>4, <1>5, <1>6 DEF Typed, TypeOK, WireOK, FrameOK, selfVars, linkVars, wireVars
<1>12. Nested'
  BY <1>1, <1>2, <1>3, <1>4, <1>5, <1>6 DEF Nested, selfVars, linkVars
<1>13. Disciplined'
  BY <1>1, <1>2, <1>3, <1>4, <1>5, <1>6 DEF Disciplined, Doing, Closers, selfVars, linkVars
<1>14. WillRetry'
  BY <1>1, <1>2, <1>3, <1>4, <1>5, <1>6 DEF WillRetry, selfVars, linkVars
<1>15. Failing'
  BY <1>1, <1>2, <1>3, <1>4, <1>5, <1>6 DEF Failing, Doing, selfVars, linkVars
<1>16. Calling'
  BY <1>1, <1>2, <1>3, <1>4, <1>5, <1>6 DEF Calling, Callbacks, selfVars, linkVars
<1>17. Held'
  BY <1>1, <1>2, <1>3, <1>4, <1>5, <1>6 DEF Held, InBuffer, InMap, InFails, selfVars, linkVars
<1>18. Walking'
  BY <1>1, <1>2, <1>3, <1>4, <1>5, <1>6 DEF Walking, Doing, selfVars, linkVars
<1>19. TimedOut'
  BY <1>1, <1>2, <1>3, <1>4, <1>5, <1>6 DEF TimedOut, selfVars, linkVars
<1>20. Owned'
  BY <1>1, <1>2, <1>3, <1>4, <1>5, <1>6 DEF Owned, selfVars, linkVars
<1>21. Leaving'
  BY <1>1, <1>2, <1>3, <1>4, <1>5, <1>6 DEF Leaving, SaidGoodbye, Doing, selfVars, linkVars, wireVars
<1>22. Requested'
  BY <1>1, <1>2, <1>3, <1>4, <1>5, <1>6 DEF Requested, Doing, selfVars, linkVars
<1> QED  BY <1>11, <1>12, <1>13, <1>14, <1>15, <1>16, <1>17, <1>18, <1>19, <1>20, <1>21, <1>22 DEF IInv

-----------------------------------------------------------------------------
(***************************************************************************)
(* Closing.                                                                *)
(***************************************************************************)

\* The rejections of _abortAllPendingEventsDueToBadConnection, as many as entries.
LEMMA FailsAre ==
    ASSUME NEW s \in Seq(Entries), Pairwise(s, EntriesDiffer),
           \A x \in Elems(s) : x.at \in Channels \cup Calls \cup {Handshake}
    PROVE  /\ Fails(s) \in Seq(Frames) /\ Pairwise(Fails(s), Nesting)
           /\ \A f \in Elems(Fails(s)) : f.do = "fail" /\ \E x \in Elems(s) : f.at = x.at /\ f.n = x.cid
           /\ \A x \in Elems(s) : \E f \in Elems(Fails(s)) : f.at = x.at
<1> DEFINE m == Fails(s)
<1>1. \A i \in 1 .. Len(s) : s[i] \in Elems(s) /\ s[i] \in Entries /\ s[i].at \in Names /\ s[i].cid \in Nat
  <2>1. \A i \in 1 .. Len(s) : s[i] \in Elems(s) /\ s[i] \in Entries
    BY ElemsTyped
  <2> QED  BY <2>1, SCClientAssumption, NamesDiffer DEF Entries, Cids
<1>2. /\ DOMAIN s = 1 .. Len(s) /\ Len(s) \in Nat
      /\ m = [i \in 1 .. Len(s) |-> [Frame("fail", s[i].at) EXCEPT !.n = s[i].cid]]
  BY DEF Fails
<1>3. ASSUME NEW i \in 1 .. Len(s)
      PROVE  m[i] \in Frames /\ m[i].do = "fail" /\ m[i].at = s[i].at /\ m[i].n = s[i].cid
  <2>1. Frame("fail", s[i].at) \in Frames /\ Frame("fail", s[i].at).do = "fail" /\ Frame("fail", s[i].at).at = s[i].at
    BY <1>1, FrameIs, DosAre
  <2>2. m[i] = [Frame("fail", s[i].at) EXCEPT !.n = s[i].cid]
    BY <1>2
  <2> QED  BY <1>1, <2>1, <2>2, FrameWithN
<1> HIDE DEF m
<1>4. m \in Seq(Frames) /\ DOMAIN m = 1 .. Len(s)
  BY <1>2, <1>3
<1>5. ASSUME NEW f \in Elems(m) PROVE f.do = "fail" /\ \E x \in Elems(s) : f.at = x.at /\ f.n = x.cid
  <2>1. PICK i \in 1 .. Len(s) : f = m[i]
    BY <1>4 DEF Elems
  <2> QED  BY <1>1, <1>3, <2>1
<1>6. ASSUME NEW x \in Elems(s) PROVE \E f \in Elems(m) : f.at = x.at
  <2>1. PICK i \in 1 .. Len(s) : x = s[i]
    BY <1>2 DEF Elems
  <2>2. m[i] \in Elems(m)
    BY <1>4 DEF Elems
  <2> QED  BY <1>3, <2>1, <2>2
<1>7. ASSUME NEW i \in 1 .. Len(s), NEW j \in 1 .. Len(s), i < j PROVE <<m[i], m[j]>> \in Nesting
  <2>1. <<s[i], s[j]>> \in EntriesDiffer
    BY <1>2, <1>7 DEF Pairwise
  <2>2. s[i].cid # s[j].cid /\ (s[i].at \in Calls => s[i].at # s[j].at)
    BY <2>1 DEF EntriesDiffer
  <2>3. Fits(m[i], m[j])
    BY <1>3, <2>2 DEF Fits, MayNest, CallsDiffer, FailsDiffer, Callbacks, Closers
  <2> QED  BY <1>3, <2>3, NestingIs
<1>8. Pairwise(m, Nesting)
  BY <1>4, <1>7 DEF Pairwise
<1> QED  BY <1>4, <1>5, <1>6, <1>8 DEF m

\* What holds of the list, the map and the rest of the task when a transport closes.
MayClose(buf, mp, rest) ==
    /\ buf \in Seq(Calls \cup Casts) /\ Pairwise(buf, EventsDiffer)
    /\ mp \in Seq(Entries) /\ Pairwise(mp, EntriesDiffer)
    /\ \A x \in Elems(mp) : x.at \in Channels \cup Calls \cup {Handshake}
    /\ (\E x \in Elems(mp) : x.at = Handshake) => \A x \in Elems(mp) : x.at = Handshake
    /\ rest \in Seq(Frames) /\ Pairwise(rest, Nesting)
    /\ \A f \in Elems(rest) : FrameOK(f) /\ f.do \notin {"abort", "retry", "close", "fail", "open"}
    /\ \A e \in asked : e \in Elems(buf) <=> ~ \E x \in Elems(mp) : x.at = e
    /\ \A f \in Elems(rest) : f.do \in Callbacks \cup {"cancel"} => f.at \notin asked
    /\ \A f \in Elems(rest) : f.do = "flush" /\ f.at \in asked => f.at \in Elems(buf)

\* SCTransport._onClose of a transport, with what becomes of the WebSocket.
LEMMA ClosingKeeps ==
    ASSUME IInv, state # "closed", NEW how \in Nat, NEW buf, NEW mp, NEW ch, NEW rest,
           ShutDown(how, buf, mp, ch, rest), MayClose(buf, mp, rest), ~ preparing,
           ch \in [Channels -> [st : {"none", "unsubscribed", "pending", "subscribed"}, cid : 0 .. MaxCid,
                                torn : BOOLEAN]],
           active' \in BOOLEAN, UNCHANGED <<auth, token, preparing, tried, asked>>,
           TypeOK => ws' \in {"connecting", "open", "closing", "gone"} /\ up' \in Seq(Messages)
                     /\ down' \in Seq(Messages) /\ peer' \in [authed : BOOLEAN, subs : SUBSET Channels],
           WireOK',
           active' => \A x \in Elems(mp) : x.at \in Calls => x.at \in asked,
           ws' = "open" => \/ SaidGoodbye'
                           \/ /\ \E f \in Elems(rest) : f.do = "wsclose"
                              /\ \A x \in Elems(mp) : x.at \in Calls => x.at \in asked
    PROVE  IInv'
<1> DEFINE left == MinusRequests(mp, ch)
           fails == Fails(left)
           f1 == Frame("abort", First(buf))
           f2 == [Frame("retry", None) EXCEPT !.n = how]
           f3 == Frame("close", None)
           t4 == fails \o rest
           t3 == <<f3>> \o t4
           t2 == <<f2>> \o t3
<1>0. /\ Typed /\ Nested /\ Disciplined /\ WillRetry /\ Failing /\ Calling /\ Held /\ Walking
      /\ TimedOut /\ Owned /\ Leaving /\ Requested /\ TypeOK
  BY DEF IInv, Typed
<1>1. /\ left \in Seq(Entries) /\ Pairwise(left, EntriesDiffer)
      /\ Elems(left) \subseteq Elems(mp)
      /\ \A x \in Elems(mp) : x.at \in Calls => x \in Elems(left)
  <2>1. left \in Seq(Entries) /\ Pairwise(left, EntriesDiffer)
        /\ Elems(left) = {x \in Elems(mp) : ~ (x.at \in Channels /\ ch[x.at].cid = x.cid)}
    BY WithoutRequests DEF MayClose
  <2> QED  BY <2>1, NamesDiffer
<1>2. /\ state' = "closed" /\ retry' = "none" /\ code' = how /\ map' = <<>> /\ buffer' = buf
      /\ chan' = [c \in Channels |-> Suspended(ch[c])]
      /\ stack' = <<f1, f2, f3>> \o fails \o rest
  BY DEF ShutDown, MinusRequests
<1> HIDE DEF left
<1>3. /\ fails \in Seq(Frames) /\ Pairwise(fails, Nesting)
      /\ \A f \in Elems(fails) : f.do = "fail" /\ \E x \in Elems(left) : f.at = x.at /\ f.n = x.cid
      /\ \A x \in Elems(left) : \E f \in Elems(fails) : f.at = x.at
  BY <1>1, FailsAre DEF MayClose
<1> HIDE DEF fails
<1>4. /\ First(buf) \in Calls \cup Casts \cup {None} /\ (First(buf) # None => First(buf) \in Elems(buf))
  BY FirstTyped DEF MayClose
<1>5. /\ f1 \in Frames /\ f1.do = "abort" /\ f1.at = First(buf)
      /\ f2 \in Frames /\ f2.do = "retry" /\ f2.n = how
      /\ f3 \in Frames /\ f3.do = "close"
  <2>1. None \in Names /\ First(buf) \in Names
    BY <1>4, NamesDiffer
  <2>2. /\ f1 \in Frames /\ f1.do = "abort" /\ f1.at = First(buf)
        /\ Frame("retry", None) \in Frames /\ Frame("retry", None).do = "retry"
        /\ f3 \in Frames /\ f3.do = "close"
    BY <2>1, FrameIs, DosAre
  <2>3. f2 \in Frames /\ f2.do = "retry" /\ f2.n = how
    BY <2>2, FrameWithN
  <2> QED  BY <2>2, <2>3
<1> HIDE DEF f1, f2, f3
<1>6. /\ rest \in Seq(Frames) /\ Pairwise(rest, Nesting) /\ Elems(rest) \subseteq Frames /\ Elems(fails) \subseteq Frames
      /\ \A f \in Elems(rest) : f.do \notin {"abort", "retry", "close", "fail", "open"}
  BY <1>3, ElemsTyped DEF MayClose
<1>7. stack' = <<f1>> \o t2
  <2>1. <<f1, f2, f3>> \in Seq(Frames)
    BY <1>5
  <2>2. stack' = <<f1, f2, f3>> \o t4
    BY <1>2, <1>3, <1>6, <2>1, ConcatAssociative
  <2>3. t4 \in Seq(Frames)
    BY <1>3, <1>6, ElemsOfConcat
  <2> HIDE DEF t4
  <2>4. <<f1, f2, f3>> \o t4 = <<f1>> \o (<<f2>> \o (<<f3>> \o t4))
    BY <1>5, <2>3, Beside
  <2> QED  BY <2>2, <2>4
<1>8. t4 \in Seq(Frames) /\ Elems(t4) = Elems(fails) \cup Elems(rest) /\ Pairwise(t4, Nesting)
  <2>1. \A f \in Elems(fails), g \in Elems(rest) : Fits(f, g)
    BY <1>3, <1>6 DEF Fits, MayNest, CallsDiffer, FailsDiffer, Callbacks, Closers
  <2>2. \A f \in Elems(fails), g \in Elems(rest) : <<f, g>> \in Nesting
    BY <1>6, <2>1, NestingIs
  <2>3. t4 \in Seq(Frames) /\ Elems(t4) = Elems(fails) \cup Elems(rest)
    BY <1>3, <1>6, ElemsOfConcat
  <2> QED  BY <1>3, <1>6, <2>2, <2>3, PairwiseConcat
<1> HIDE DEF t4
<1>9. \A g \in Elems(t4) : g.do \notin {"abort", "retry", "close", "open"}
  BY <1>3, <1>6, <1>8
<1>10. t3 \in Seq(Frames) /\ Elems(t3) = {f3} \cup Elems(t4) /\ Pairwise(t3, Nesting)
  <2>1. \A g \in Elems(t4) : Fits(f3, g)
    BY <1>5, <1>9 DEF Fits, MayNest, CallsDiffer, FailsDiffer, Callbacks, Closers
  <2> QED  BY <1>5, <1>8, <2>1, Pushed
<1> HIDE DEF t3
<1>20. t2 \in Seq(Frames) /\ Elems(t2) = {f2, f3} \cup Elems(t4) /\ Pairwise(t2, Nesting)
  <2>1. \A g \in Elems(t3) : Fits(f2, g)
    BY <1>5, <1>9, <1>10 DEF Fits, MayNest, CallsDiffer, FailsDiffer, Callbacks, Closers
  <2>2. t2 \in Seq(Frames) /\ Elems(t2) = {f2} \cup Elems(t3) /\ Pairwise(t2, Nesting)
    BY <1>5, <1>10, <2>1, Pushed
  <2> QED  BY <1>10, <2>2
<1> HIDE DEF t2
<1>21. stack' \in Seq(Frames) /\ Elems(stack') = {f1, f2, f3} \cup Elems(fails) \cup Elems(rest) /\ Pairwise(stack', Nesting)
  <2>1. \A g \in Elems(t2) : Fits(f1, g)
    BY <1>5, <1>9, <1>20 DEF Fits, MayNest, CallsDiffer, FailsDiffer, Callbacks, Closers
  <2>2. stack' \in Seq(Frames) /\ Elems(stack') = {f1} \cup Elems(t2) /\ Pairwise(stack', Nesting)
    BY <1>5, <1>7, <1>20, <2>1, Pushed
  <2> QED  BY <1>8, <1>20, <2>2
<1>22. /\ chan' \in [Channels -> [st : {"none", "unsubscribed", "pending", "subscribed"}, cid : 0 .. MaxCid,
                                 torn : BOOLEAN]]
       /\ \A c \in Channels : chan'[c].cid = 0
  <2>1. ASSUME NEW c \in Channels
        PROVE  /\ chan'[c] \in [st : {"none", "unsubscribed", "pending", "subscribed"}, cid : 0 .. MaxCid, torn : BOOLEAN]
               /\ chan'[c].cid = 0
    <3>1. chan'[c] = [st |-> IF ch[c].st = "subscribed" THEN "pending" ELSE ch[c].st, cid |-> 0, torn |-> FALSE]
      BY <1>2 DEF Suspended, NoChannel
    <3>2. ch[c].st \in {"none", "unsubscribed", "pending", "subscribed"} /\ 0 \in 0 .. MaxCid
      BY SCClientAssumption
    <3> QED  BY <3>1, <3>2
  <2>2. chan' = [c \in Channels |-> chan'[c]]
    BY <1>2
  <2> QED  BY <2>1, <2>2
<1>23. map' \in Seq(Entries) /\ Elems(map') = {} /\ Pairwise(map', EntriesDiffer) /\ map' = <<>>
  BY <1>2, ElemsOfFew, PairwiseFew
<1>24. \A f \in Elems(fails) : /\ f.do = "fail" /\ f.at \in Channels \cup Calls \cup {Handshake} /\ f.n \in Cids
                               /\ \E x \in Elems(mp) : f.at = x.at
  <2>1. \A x \in Elems(left) : x \in Elems(mp) /\ x.at \in Channels \cup Calls \cup {Handshake} /\ x.cid \in Cids
    <3>1. Elems(left) \subseteq Entries
      BY <1>1, ElemsTyped
    <3> QED  BY <1>1, <3>1 DEF MayClose, Entries
  <2> QED  BY <1>3, <2>1
<1>25. \A e \in Calls : (\E f \in Elems(fails) : f.at = e) <=> \E x \in Elems(mp) : x.at = e
  BY <1>1, <1>3, <1>24
<1>26. \A e \in asked : /\ (\E f \in Elems(stack') : f.do = "fail" /\ f.at = e) <=> \E x \in Elems(mp) : x.at = e
                        /\ e \in Elems(buf) <=> ~ \E x \in Elems(mp) : x.at = e
  <2>1. \A e : (\E f \in Elems(stack') : f.do = "fail" /\ f.at = e) <=> \E f \in Elems(fails) : f.at = e
    BY <1>3, <1>5, <1>6, <1>21
  <2> QED  BY <1>0, <1>25, <2>1 DEF MayClose, TypeOK
<1>27. Typed'
  <2>1. TypeOK'
    BY <1>0, <1>2, <1>21, <1>22, <1>23 DEF TypeOK, MayClose
  <2>2. \A f \in Elems(stack') : FrameOK(f)
    <3>1. \A f \in Elems(rest) : FrameOK(f)
      BY DEF MayClose
    <3>2. \A f \in Elems(fails) \cup {f1, f2, f3} : FrameOK(f)
      BY <1>4, <1>5, <1>24 DEF FrameOK
    <3> QED  BY <1>21, <3>1, <3>2
  <2> QED  BY <1>23, <2>1, <2>2 DEF Typed
<1>28. Nested'
  BY <1>0, <1>2, <1>5, <1>6, <1>21, <1>22, <1>23, <1>24 DEF Nested
<1>29. Disciplined'
  BY <1>0, <1>2, <1>5, <1>6, <1>21, <1>22, <1>23, <1>24 DEF Disciplined, Doing, Closers
<1>30. WillRetry'
  BY <1>0, <1>2, <1>5, <1>6, <1>21, <1>22, <1>23, <1>24 DEF WillRetry
<1>31. Failing'
  <2>1. \A f \in Elems(stack') : f.do = "fail" => \E x \in Elems(mp) : f.at = x.at
    BY <1>5, <1>6, <1>21, <1>24
  <2>2. (\E x \in Elems(mp) : x.at = Handshake) => \A x \in Elems(mp) : x.at = Handshake
    BY DEF MayClose
  <2>3. (\E f \in Elems(stack') : f.do = "fail" /\ f.at = Handshake) =>
            \A f \in Elems(stack') : f.do = "fail" => f.at = Handshake
    BY <2>1, <2>2
  <2> QED  BY <1>22, <1>23, <2>3 DEF Failing
<1>32. Calling'
  BY <1>0, <1>2, <1>5, <1>6, <1>21, <1>22, <1>23, <1>24 DEF Calling, Callbacks, MayClose
<1>33. Held'
  BY <1>2, <1>23, <1>26 DEF Held, InBuffer, InMap, InFails, MayClose
<1>34. Walking'
  BY <1>0, <1>2, <1>5, <1>6, <1>21, <1>22, <1>23, <1>24, <1>4 DEF Walking, Doing, MayClose
<1>35. TimedOut'
  BY <1>0, <1>2, <1>5, <1>6, <1>21, <1>22, <1>23, <1>24 DEF TimedOut, MayClose, Callbacks
<1>36. Owned'
  BY <1>0, <1>2, <1>5, <1>6, <1>21, <1>22, <1>23, <1>24 DEF Owned
<1>37. Leaving'
  <2>1. ASSUME ws' = "open", ~ SaidGoodbye'
        PROVE  /\ \E f \in Elems(stack') : f.do = "wsclose"
               /\ \A f \in Elems(stack') : f.do = "fail" /\ f.at \in Calls => f.at \in asked
    BY <1>5, <1>6, <1>21, <1>24, <2>1
  <2> QED  BY <2>1 DEF Leaving, SaidGoodbye, Doing
<1>38. Requested'
  BY <1>0, <1>2, <1>5, <1>6, <1>21, <1>22, <1>23, <1>24 DEF Requested, Doing
<1> QED  BY <1>27, <1>28, <1>29, <1>30, <1>31, <1>32, <1>33, <1>34, <1>35, <1>36, <1>37, <1>38 DEF IInv

-----------------------------------------------------------------------------
(***************************************************************************)
(* The server, and what the browser does between tasks.                    *)
(***************************************************************************)

\* The parts of the invariant.
LEMMA Parts == IInv => /\ Typed /\ Nested /\ Disciplined /\ WillRetry /\ Failing /\ Calling /\ Held /\ Walking
      /\ TimedOut /\ Owned /\ Leaving /\ Requested /\ TypeOK
  BY DEF IInv, Typed

\* Between tasks nothing is left to do.
LEMMA Resting ==
    ASSUME IInv, Idle
    PROVE  stack = <<>> /\ Elems(stack) = {} /\ preparing = FALSE
<1>1. stack = <<>> /\ Elems(stack) = {}
  BY ElemsOfFew DEF Idle
<1> QED  BY <1>1, Parts DEF Disciplined, Doing, TypeOK

\* The events of the protocol.
Evs == {"handshake", "login", "publish", "subscribe", "unsubscribe", "disconnect",
        "respond", "answer", "setAuthToken"}

\* A message that is sent.
LEMMA MessageIs ==
    ASSUME NEW ev \in Evs, NEW at \in Names, NEW cid \in 0 .. MaxCid, NEW ok \in BOOLEAN
    PROVE  /\ Message(ev, at, cid, ok) \in Messages
           /\ Message(ev, at, cid, ok).ev = ev /\ Message(ev, at, cid, ok).at = at
           /\ Message(ev, at, cid, ok).cid = cid /\ Message(ev, at, cid, ok).ok = ok
  BY DEF Message, Messages, Evs

\* An answer to one.
LEMMA AnswerIs ==
    ASSUME NEW m \in Messages, NEW ok \in BOOLEAN
    PROVE  Answer(m, ok) \in Messages /\ Answer(m, ok).ev = "answer"
<1>1. None \in Names /\ m.cid \in 0 .. MaxCid /\ "answer" \in Evs
  BY NamesDiffer DEF Messages, Evs
<1> QED  BY <1>1, MessageIs DEF Answer

\* A new call id names nothing.
LEMMA Fresh ==
    ASSUME NEW cid \in FreshCids
    PROVE  /\ cid \in Cids
           /\ \A x \in Elems(map) : x.cid # cid
           /\ \A c \in Channels : chan[c].cid # cid
           /\ \A f \in Elems(stack) : f.n # cid
           /\ \A m \in Elems(up) \cup Elems(down) : m.cid # cid
  BY DEF FreshCids, InUse

\* A call id, or a call, has one entry.
LEMMA OneEntry ==
    ASSUME NEW s \in Seq(Entries), Pairwise(s, EntriesDiffer)
    PROVE  \A x, y \in Elems(s) :
              x.cid = y.cid \/ (x.at \in Calls \cup {Handshake} /\ x.at = y.at) => x = y
<1>1. \A i, j \in 1 .. Len(s) : i < j => s[i].cid # s[j].cid /\ (s[i].at \in Calls \cup {Handshake} => s[i].at # s[j].at)
  <2>1. DOMAIN s = 1 .. Len(s)
    OBVIOUS
  <2>2. ASSUME NEW i \in 1 .. Len(s), NEW j \in 1 .. Len(s), i < j
        PROVE  s[i].cid # s[j].cid /\ (s[i].at \in Calls \cup {Handshake} => s[i].at # s[j].at)
    <3>1. <<s[i], s[j]>> \in EntriesDiffer
      BY <2>1, <2>2 DEF Pairwise
    <3> QED  BY <3>1 DEF EntriesDiffer
  <2> QED  BY <2>2
<1>2. ASSUME NEW x \in Elems(s), NEW y \in Elems(s),
             x.cid = y.cid \/ (x.at \in Calls \cup {Handshake} /\ x.at = y.at)
      PROVE  x = y
  <2>1. PICK i \in 1 .. Len(s) : x = s[i]
    BY DEF Elems
  <2>2. PICK j \in 1 .. Len(s) : y = s[j]
    BY DEF Elems
  <2>3. ~ (i < j) /\ ~ (j < i)
    BY <1>1, <1>2, <2>1, <2>2
  <2> QED  BY <2>1, <2>2, <2>3
<1> QED  BY <1>2

\* A step that leaves all but the WebSocket as it is.
LEMMA WireKeeps ==
    ASSUME IInv, UNCHANGED <<selfVars, linkVars, stack>>,
           ws' \in {"connecting", "open", "closing", "gone"}, up' \in Seq(Messages), down' \in Seq(Messages),
           peer' \in [authed : BOOLEAN, subs : SUBSET Channels], WireOK',
           ws' = "open" => ws = "open" /\ (SaidGoodbye => SaidGoodbye')
    PROVE  IInv'
<1>1. /\ Typed /\ Nested /\ Disciplined /\ WillRetry /\ Failing /\ Calling /\ Held /\ Walking
      /\ TimedOut /\ Owned /\ Leaving /\ Requested /\ TypeOK
  BY Parts
<1>11. Typed'
  <2>1. TypeOK'
    BY <1>1 DEF TypeOK, selfVars, linkVars
  <2> QED  BY <1>1, <2>1 DEF Typed, FrameOK, linkVars
<1>12. Nested'
  BY <1>1 DEF Nested, selfVars, linkVars
<1>13. Disciplined'
  BY <1>1 DEF Disciplined, Doing, Closers, selfVars, linkVars
<1>14. WillRetry'
  BY <1>1 DEF WillRetry, selfVars, linkVars
<1>15. Failing'
  BY <1>1 DEF Failing, Doing, selfVars, linkVars
<1>16. Calling'
  BY <1>1 DEF Calling, Callbacks, selfVars, linkVars
<1>17. Held'
  BY <1>1 DEF Held, InBuffer, InMap, InFails, selfVars, linkVars
<1>18. Walking'
  BY <1>1 DEF Walking, Doing, selfVars, linkVars
<1>19. TimedOut'
  BY <1>1 DEF TimedOut, selfVars, linkVars
<1>20. Owned'
  BY <1>1 DEF Owned, selfVars, linkVars
<1>21. Leaving'
  <2>1. UNCHANGED <<state, stack, asked>>
    BY DEF selfVars, linkVars
  <2>2. \/ ws' # "open"
        \/ ws = "open" /\ (SaidGoodbye => SaidGoodbye')
    OBVIOUS
  <2> HIDE DEF SaidGoodbye
  <2> QED  BY <1>1, <2>1, <2>2 DEF Leaving, Doing
<1>22. Requested'
  BY <1>1 DEF Requested, Doing, selfVars, linkVars
<1> QED  BY <1>11, <1>12, <1>13, <1>14, <1>15, <1>16, <1>17, <1>18, <1>19, <1>20, <1>21, <1>22 DEF IInv

\* The server takes a message.
LEMMA Taken ==
    ASSUME IInv, NEW ev, PeerTakes(ev)
    PROVE  /\ ws = "open" /\ Head(up) \in Messages /\ Head(up).ev = ev /\ Head(up) \in Elems(up)
           /\ up' \in Seq(Messages) /\ Elems(up) = {Head(up)} \cup Elems(up')
<1>1. up \in Seq(Messages) /\ up # <<>> /\ up' = Tail(up)
  BY Parts DEF PeerTakes, TypeOK
<1> QED  BY <1>1, ElemsOfTail DEF PeerTakes

\* Its steps.
LEMMA PeerKeeps ==
    ASSUME IInv, Peer PROVE IInv'
<1>1. /\ Typed /\ Nested /\ Disciplined /\ WillRetry /\ Failing /\ Calling /\ Held /\ Walking
      /\ TimedOut /\ Owned /\ Leaving /\ Requested /\ TypeOK
  BY Parts
<1>2. peer \in [authed : BOOLEAN, subs : SUBSET Channels] /\ down \in Seq(Messages) /\ up \in Seq(Messages)
      /\ ws \in {"connecting", "open", "closing", "gone"}
  BY <1>1 DEF TypeOK
<1>3. (\A m \in Elems(up) : m.ev = "subscribe" => m.at \in Channels)
      /\ (\A m \in Elems(down) : m.ev = "publish" => m.at \in Channels)
  BY <1>1 DEF Typed, WireOK
<1>4. CASE PeerHandshake
  <2>0. PeerTakes("handshake") /\ UNCHANGED <<selfVars, linkVars, ws, stack>>
    BY <1>4 DEF PeerHandshake
  <2>1. PICK valid \in BOOLEAN : peer' = [peer EXCEPT !.authed = valid] /\ down' = Append(down, Answer(Head(up), valid))
    BY <1>4 DEF PeerHandshake
  <2>2. /\ Head(up) \in Messages /\ Head(up).ev = "handshake" /\ ws = "open"
        /\ up' \in Seq(Messages) /\ Elems(up) = {Head(up)} \cup Elems(up')
    BY <2>0, Taken
  <2>3. down' \in Seq(Messages) /\ Elems(down') = Elems(down) \cup {Answer(Head(up), valid)}
    BY <1>2, <2>1, <2>2, AnswerIs, ElemsOfAppend
  <2>4. WireOK'
    BY <1>3, <2>2, <2>3, AnswerIs DEF WireOK
  <2>5. SaidGoodbye => SaidGoodbye'
    BY <2>2 DEF SaidGoodbye
  <2> QED  BY <1>2, <2>0, <2>1, <2>2, <2>3, <2>4, <2>5, WireKeeps
<1>5. CASE PeerLogin
  <2>0. PeerTakes("login") /\ UNCHANGED <<selfVars, linkVars, ws, stack>>
    BY <1>5 DEF PeerLogin
  <2>2. /\ Head(up) \in Messages /\ Head(up).ev = "login" /\ ws = "open"
        /\ up' \in Seq(Messages) /\ Elems(up) = {Head(up)} \cup Elems(up')
    BY <2>0, Taken
  <2> DEFINE yes == Answer(Head(up), TRUE)
             no  == Answer(Head(up), FALSE)
             set == Message("setAuthToken", None, 0, TRUE)
  <2>3. /\ yes \in Messages /\ yes.ev = "answer" /\ no \in Messages /\ no.ev = "answer"
        /\ set \in Messages /\ set.ev = "setAuthToken"
    <3>1. None \in Names /\ "setAuthToken" \in Evs /\ 0 \in 0 .. MaxCid
      BY NamesDiffer, SCClientAssumption DEF Evs
    <3>2. set \in Messages /\ set.ev = "setAuthToken"
      BY <3>1, MessageIs
    <3> QED  BY <2>2, <3>2, AnswerIs
  <2>4. \/ peer' = [peer EXCEPT !.authed = TRUE] /\ down' = down \o <<yes, set>>
        \/ peer' = peer /\ down' = Append(down, no)
    BY <1>5 DEF PeerLogin
  <2> HIDE DEF yes, no, set
  <2>5. /\ down' \in Seq(Messages)
        /\ \A m \in Elems(down') : m \in Elems(down) \/ m.ev \in {"answer", "setAuthToken"}
    <3>1. CASE down' = down \o <<yes, set>>
      <4>1. <<yes, set>> \in Seq(Messages) /\ Elems(<<yes, set>>) = {yes, set}
        BY <2>3, ElemsOfFew
      <4>2. down' \in Seq(Messages) /\ Elems(down') = Elems(down) \cup Elems(<<yes, set>>)
        BY ZenonT(60), <1>2, <3>1, <4>1, ElemsOfConcat
      <4> QED  BY <2>3, <4>1, <4>2
    <3>2. CASE down' = Append(down, no)
      <4>1. down' \in Seq(Messages) /\ Elems(down') = Elems(down) \cup {no}
        BY <1>2, <2>3, <3>2, ElemsOfAppend
      <4> QED  BY <2>3, <4>1
    <3> QED  BY <2>4, <3>1, <3>2
  <2>6. WireOK'
    BY <1>3, <2>2, <2>5 DEF WireOK
  <2>7. SaidGoodbye => SaidGoodbye'
    BY <2>2 DEF SaidGoodbye
  <2>8. peer' \in [authed : BOOLEAN, subs : SUBSET Channels]
    BY <1>2, <2>4
  <2> QED  BY <1>2, <2>0, <2>2, <2>5, <2>6, <2>7, <2>8, WireKeeps
<1>6. CASE PeerSubscribe
  <2>0. /\ PeerTakes("subscribe") /\ UNCHANGED <<selfVars, linkVars, ws, stack>>
        /\ peer' = [peer EXCEPT !.subs = IF peer.authed THEN @ \cup {Head(up).at} ELSE @]
        /\ down' = Append(down, Answer(Head(up), peer.authed))
    BY <1>6 DEF PeerSubscribe
  <2>2. /\ Head(up) \in Messages /\ Head(up).ev = "subscribe" /\ ws = "open" /\ Head(up) \in Elems(up)
        /\ up' \in Seq(Messages) /\ Elems(up) = {Head(up)} \cup Elems(up')
    BY <2>0, Taken
  <2>3. /\ down' \in Seq(Messages) /\ Elems(down') = Elems(down) \cup {Answer(Head(up), peer.authed)}
        /\ Answer(Head(up), peer.authed).ev = "answer"
    BY <1>2, <2>0, <2>2, AnswerIs, ElemsOfAppend
  <2>4. WireOK'
    BY <1>3, <2>2, <2>3 DEF WireOK
  <2>5. SaidGoodbye => SaidGoodbye'
    BY <2>2 DEF SaidGoodbye
  <2>6. peer' \in [authed : BOOLEAN, subs : SUBSET Channels]
    BY <1>2, <1>3, <2>0, <2>2
  <2> QED  BY <1>2, <2>0, <2>2, <2>3, <2>4, <2>5, <2>6, WireKeeps
<1>7. CASE PeerUnsubscribe
  <2>0. /\ PeerTakes("unsubscribe") /\ UNCHANGED <<selfVars, linkVars, ws, down, stack>>
        /\ peer' = [peer EXCEPT !.subs = @ \ {Head(up).at}]
    BY <1>7 DEF PeerUnsubscribe
  <2>2. /\ Head(up).ev = "unsubscribe" /\ ws = "open"
        /\ up' \in Seq(Messages) /\ Elems(up) = {Head(up)} \cup Elems(up')
    BY <2>0, Taken
  <2>4. WireOK' /\ (SaidGoodbye => SaidGoodbye')
    BY <1>3, <2>0, <2>2 DEF WireOK, SaidGoodbye
  <2>6. peer' \in [authed : BOOLEAN, subs : SUBSET Channels]
    BY <1>2, <2>0
  <2> QED  BY <1>2, <2>0, <2>2, <2>4, <2>6, WireKeeps
<1>8. CASE PeerIgnores
  <2>0. UNCHANGED <<selfVars, linkVars, ws, down, peer, stack>>
    BY <1>8 DEF PeerIgnores
  <2>1. \E ev \in {"publish", "respond"} : PeerTakes(ev)
    BY <1>8 DEF PeerIgnores
  <2>2. /\ Head(up).ev \in {"publish", "respond"} /\ ws = "open"
        /\ up' \in Seq(Messages) /\ Elems(up) = {Head(up)} \cup Elems(up')
    BY <2>1, Taken
  <2>4. WireOK' /\ (SaidGoodbye => SaidGoodbye')
    BY <1>3, <2>0, <2>2 DEF WireOK, SaidGoodbye
  <2> QED  BY <1>2, <2>0, <2>2, <2>4, WireKeeps
<1>9. CASE PeerDisconnect
  <2>0. PeerTakes("disconnect") /\ UNCHANGED <<selfVars, linkVars, down, peer, stack>> /\ ws' = "closing"
    BY <1>9 DEF PeerDisconnect
  <2>2. up' \in Seq(Messages) /\ Elems(up) = {Head(up)} \cup Elems(up')
    BY <2>0, Taken
  <2>4. WireOK'
    BY <1>3, <2>0, <2>2 DEF WireOK
  <2> QED  BY <1>2, <2>0, <2>2, <2>4, WireKeeps
<1>10. CASE PeerPublish
  <2>0. UNCHANGED <<selfVars, linkVars, ws, up, peer, stack>>
    BY <1>10 DEF PeerPublish
  <2>1. PICK c \in peer.subs : down' = Append(down, Message("publish", c, 0, TRUE))
    BY <1>10 DEF PeerPublish
  <2>2. c \in Channels /\ c \in Names /\ "publish" \in Evs /\ 0 \in 0 .. MaxCid
    BY <1>2, NamesDiffer, SCClientAssumption DEF Evs
  <2>3. Message("publish", c, 0, TRUE) \in Messages /\ Message("publish", c, 0, TRUE).at = c
    BY <2>2, MessageIs
  <2> DEFINE m == Message("publish", c, 0, TRUE)
  <2> HIDE DEF m
  <2>4. down' \in Seq(Messages) /\ Elems(down') = Elems(down) \cup {m}
    <3>1. down' = Append(down, m) /\ m \in Messages
      BY <2>1, <2>3 DEF m
    <3> QED  BY <1>2, <3>1, ElemsOfAppend
  <2>5. WireOK' /\ (SaidGoodbye => SaidGoodbye')
    BY <1>3, <2>0, <2>2, <2>3, <2>4 DEF WireOK, SaidGoodbye, m
  <2> QED  BY <1>2, <2>0, <2>4, <2>5, WireKeeps
<1> QED  BY <1>4, <1>5, <1>6, <1>7, <1>8, <1>9, <1>10 DEF Peer

\* A task of its own.
LEMMA Alone ==
    ASSUME NEW f \in Frames
    PROVE  <<f>> \in Seq(Frames) /\ Elems(<<f>>) = {f} /\ Pairwise(<<f>>, Nesting)
  BY ElemsOfFew, PairwiseFew

\* Two calls one after the other.
LEMMA TwoCalls ==
    ASSUME NEW f \in Frames, NEW g \in Frames, Fits(f, g)
    PROVE  <<f, g>> \in Seq(Frames) /\ Elems(<<f, g>>) = {f, g} /\ Pairwise(<<f, g>>, Nesting)
<1>1. <<f, g>> \in Seq(Frames) /\ Elems(<<f, g>>) = {f, g}
  BY ElemsOfFew
<1>2. Pairwise(<<f, g>>, Nesting)
  BY NestingIs, PairwiseFew
<1> QED  BY <1>1, <1>2

\* The list, the map and what is left of the task may be given up as they are.
LEMMA MayCloseAsIs ==
    ASSUME IInv, state # "closed", NEW rest \in Seq(Frames), Pairwise(rest, Nesting),
           Elems(rest) \subseteq Elems(stack), \A f \in Elems(rest) : f.do # "open"
    PROVE  MayClose(buffer, map, rest)
<1>1. /\ Typed /\ Nested /\ Disciplined /\ WillRetry /\ Failing /\ Calling /\ Held /\ Walking
      /\ TimedOut /\ Owned /\ Leaving /\ Requested /\ TypeOK
  BY Parts
<1>2. \A f \in Elems(stack) : f.do \notin Closers
  BY <1>1 DEF Disciplined
<1>3. (\E x \in Elems(map) : x.at = Handshake) => \A x \in Elems(map) : x.at = Handshake
  BY <1>1 DEF Disciplined, TypeOK
<1>4. \A e \in asked : e \in Elems(buffer) <=> ~ \E x \in Elems(map) : x.at = e
  BY <1>1, <1>2 DEF Held, InBuffer, InMap, InFails, Closers
<1>5. \A f \in Elems(rest) : f.do \in Callbacks \cup {"cancel"} => f.at \notin asked
  BY <1>1 DEF Calling, TimedOut
<1>6. \A f \in Elems(rest) : f.do = "flush" /\ f.at \in asked => f.at \in Elems(buffer)
  BY <1>1 DEF Walking
<1>7. \A f \in Elems(rest) : FrameOK(f) /\ f.do \notin {"abort", "retry", "close", "fail", "open"}
  BY <1>1, <1>2 DEF Typed, Closers
<1>8. /\ buffer \in Seq(Calls \cup Casts) /\ Pairwise(buffer, EventsDiffer)
      /\ map \in Seq(Entries) /\ Pairwise(map, EntriesDiffer)
      /\ \A x \in Elems(map) : x.at \in Channels \cup Calls \cup {Handshake}
  BY <1>1 DEF Typed, TypeOK, Held
<1> QED  BY <1>3, <1>4, <1>5, <1>6, <1>7, <1>8 DEF MayClose

\* So may one more call in front, that is about no call.
LEMMA MayClosePush ==
    ASSUME NEW buf, NEW mp, NEW rest, MayClose(buf, mp, rest), NEW f \in Frames, FrameOK(f),
           f.do \in {"wsclose", "tries", "cid", "flush"}, \A g \in Elems(rest) : Fits(f, g),
           f.do = "flush" /\ f.at \in asked => f.at \in Elems(buf)
    PROVE  /\ MayClose(buf, mp, <<f>> \o rest)
           /\ Elems(<<f>> \o rest) = {f} \cup Elems(rest)
<1>1. rest \in Seq(Frames) /\ Pairwise(rest, Nesting)
  BY DEF MayClose
<1> DEFINE r == <<f>> \o rest
<1>2. r \in Seq(Frames) /\ Elems(r) = {f} \cup Elems(rest) /\ Pairwise(r, Nesting)
  BY <1>1, Pushed
<1> HIDE DEF r
<1>3. MayClose(buf, mp, r)
  BY <1>2 DEF MayClose, Callbacks
<1> QED  BY <1>2, <1>3 DEF r

\* The close of the WebSocket, as a call.
LEMMA CloseCall ==
    LET f == Frame("wsclose", None) IN f \in Frames /\ f.do = "wsclose" /\ FrameOK(f)
<1> DEFINE f == Frame("wsclose", None)
<1>1. None \in Names
  BY NamesDiffer
<1>2. f \in Frames /\ f.do = "wsclose"
  BY <1>1, FrameIs, DosAre
<1> HIDE DEF f
<1>3. FrameOK(f)
  BY <1>2 DEF FrameOK
<1> QED  BY <1>2, <1>3 DEF f

\* Between tasks a transport may close, with or without a close of the WebSocket to follow.
LEMMA MayCloseNow ==
    ASSUME IInv, state # "closed", Idle
    PROVE  /\ MayClose(buffer, map, <<>>)
           /\ MayClose(buffer, map, <<Frame("wsclose", None)>>)
           /\ \E f \in Elems(<<Frame("wsclose", None)>>) : f.do = "wsclose"
           /\ \A x \in Elems(map) : x.at \in Calls => x.at \in asked
<1>1. stack = <<>> /\ Elems(stack) = {} /\ <<>> \in Seq(Frames) /\ Elems(<<>>) = {} /\ Pairwise(<<>>, Nesting)
  BY Resting, ElemsOfFew, PairwiseFew
<1>2. MayClose(buffer, map, <<>>)
  BY <1>1, MayCloseAsIs
<1> DEFINE f == Frame("wsclose", None)
<1>3. f \in Frames /\ f.do = "wsclose" /\ FrameOK(f)
  BY CloseCall
<1>4. <<f>> \o <<>> = <<f>> /\ Elems(<<f>>) = {f}
  BY <1>3, Alone, Beside
<1> HIDE DEF f
<1>5. MayClose(buffer, map, <<f>> \o <<>>)
  BY <1>1, <1>2, <1>3, MayClosePush
<1>6. \A x \in Elems(map) : x.at \in Calls => x.at \in asked
  BY <1>1, Parts DEF TimedOut, Disciplined
<1> QED  BY <1>2, <1>3, <1>4, <1>5, <1>6 DEF f

\* onerror, onclose and the two timeouts.
LEMMA BrokenKeeps ==
    ASSUME IInv, WsError \/ WsClose \/ ConnectTimeout \/ PingTimeout
    PROVE  IInv'
<1>1. Idle /\ TypeOK /\ Disciplined /\ Typed
  BY Parts DEF WsError, WsClose, ConnectTimeout, PingTimeout
<1>2. stack = <<>> /\ Elems(stack) = {} /\ preparing = FALSE
  BY <1>1, Resting
<1>3. /\ Elems(<<>>) = {} /\ <<>> \in Seq(Messages) /\ Stranger \in [authed : BOOLEAN, subs : SUBSET Channels]
  BY ElemsOfFew DEF Stranger
<1>4. ASSUME NEW how \in Nat, state # "closed",
             \/ Closing(how, <<>>) /\ Gone
             \/ Closing(how, <<Frame("wsclose", None)>>) /\ UNCHANGED wireVars,
             UNCHANGED selfVars
      PROVE  IInv'
  <2>1. /\ chan \in [Channels -> [st : {"none", "unsubscribed", "pending", "subscribed"}, cid : 0 .. MaxCid,
                                   torn : BOOLEAN]]
        /\ active' \in BOOLEAN /\ UNCHANGED <<auth, token, preparing, tried, asked>>
    BY <1>1, <1>4 DEF TypeOK, selfVars
  <2>2. CASE Closing(how, <<>>) /\ Gone
    <3>1. ws' = "gone" /\ up' = <<>> /\ down' = <<>> /\ peer' = Stranger
      BY <2>2 DEF Gone
    <3>2. WireOK'
      BY <1>3, <3>1 DEF WireOK
    <3>3. ShutDown(how, buffer, map, chan, <<>>)
      BY <2>2 DEF Closing
    <3>4. ws' \in {"connecting", "open", "closing", "gone"} /\ up' \in Seq(Messages)
          /\ down' \in Seq(Messages) /\ peer' \in [authed : BOOLEAN, subs : SUBSET Channels]
      BY <1>3, <3>1
    <3> QED  BY <1>1, <1>2, <1>4, <2>1, <3>1, <3>2, <3>3, <3>4, MayCloseNow, ClosingKeeps
  <2>3. CASE Closing(how, <<Frame("wsclose", None)>>) /\ UNCHANGED wireVars
    <3>1. WireOK'
      BY <1>1, <2>3 DEF Typed, WireOK, wireVars
    <3>2. ShutDown(how, buffer, map, chan, <<Frame("wsclose", None)>>)
      BY <2>3 DEF Closing
    <3>3. ws' \in {"connecting", "open", "closing", "gone"} /\ up' \in Seq(Messages)
          /\ down' \in Seq(Messages) /\ peer' \in [authed : BOOLEAN, subs : SUBSET Channels]
      BY <1>1, <2>3 DEF TypeOK, wireVars
    <3> QED  BY <1>1, <1>2, <1>4, <2>1, <3>1, <3>2, <3>3, MayCloseNow, ClosingKeeps
  <2> QED  BY <1>4, <2>2, <2>3
<1>5. CASE WsError
  BY <1>4, <1>5 DEF WsError, WsClosed
<1>6. CASE ConnectTimeout
  BY <1>4, <1>6 DEF ConnectTimeout
<1>7. CASE PingTimeout
  BY <1>4, <1>7 DEF PingTimeout
<1>8. CASE WsClose
  <2>1. PICK how \in CloseCodes : WsClosed(how, <<>>)
    BY <1>8 DEF WsClose
  <2>2. how \in Nat
    BY SCClientAssumption
  <2>3. CASE state # "closed"
    BY <1>4, <2>1, <2>2, <2>3 DEF WsClosed
  <2>4. CASE state = "closed"
    <3>1. /\ UNCHANGED <<selfVars, linkVars, stack>>
          /\ ws' = "gone" /\ up' = <<>> /\ down' = <<>> /\ peer' = Stranger
      BY <1>2, <2>1, <2>4 DEF WsClosed, Closing, ShutDown, Gone, linkVars
    <3>2. WireOK'
      BY <1>3, <3>1 DEF WireOK
    <3> QED  BY <1>3, <3>1, <3>2, WireKeeps
  <2> QED  BY <2>3, <2>4
<1> QED  BY <1>5, <1>6, <1>7, <1>8

\* The other side starts to close.
LEMMA WsClosingKeeps ==
    ASSUME IInv, WsClosing PROVE IInv'
<1>1. ws' = "closing" /\ UNCHANGED <<selfVars, linkVars, up, down, peer, stack>>
  BY DEF WsClosing
<1>2. WireOK' /\ up' \in Seq(Messages) /\ down' \in Seq(Messages) /\ peer' \in [authed : BOOLEAN, subs : SUBSET Channels]
  BY <1>1, Parts DEF Typed, WireOK, TypeOK
<1> QED  BY <1>1, <1>2, WireKeeps

\* No answer to the handshake.
LEMMA HandshakeTimeoutKeeps ==
    ASSUME IInv, HandshakeTimeout PROVE IInv'
<1>1. /\ Typed /\ Nested /\ Disciplined /\ WillRetry /\ Failing /\ Calling /\ Held /\ Walking
      /\ TimedOut /\ Owned /\ Leaving /\ Requested /\ TypeOK
  BY Parts
<1> DEFINE mp == MinusName(map, Handshake)
<1>2. /\ Idle /\ state = "connecting" /\ UNCHANGED <<selfVars, wireVars>>
      /\ ShutDown(4003, buffer, mp, chan, <<Frame("wsclose", None)>>)
  BY DEF HandshakeTimeout, MinusName
<1>3. mp \in Seq(Entries) /\ Pairwise(mp, EntriesDiffer) /\ Elems(mp) = {x \in Elems(map) : x.at # Handshake}
  BY <1>1, WithoutName DEF TypeOK, Held
<1> HIDE DEF mp
<1>4. Elems(mp) = {} /\ \A x \in Elems(map) : x.at \notin asked
  <2>1. \A x \in Elems(map) : x.at = Handshake
    BY <1>1, <1>2 DEF Disciplined
  <2> QED  BY <1>1, <1>3, <2>1, NamesDiffer DEF TypeOK
<1>5. /\ MayClose(buffer, map, <<Frame("wsclose", None)>>) /\ preparing = FALSE
      /\ \E f \in Elems(<<Frame("wsclose", None)>>) : f.do = "wsclose"
  BY <1>2, MayCloseNow, Resting
<1>6. MayClose(buffer, mp, <<Frame("wsclose", None)>>)
  BY <1>3, <1>4, <1>5 DEF MayClose
<1>7. /\ chan \in [Channels -> [st : {"none", "unsubscribed", "pending", "subscribed"}, cid : 0 .. MaxCid,
                                 torn : BOOLEAN]]
      /\ active' \in BOOLEAN /\ UNCHANGED <<auth, token, preparing, tried, asked>>
      /\ ws' \in {"connecting", "open", "closing", "gone"} /\ up' \in Seq(Messages)
      /\ down' \in Seq(Messages) /\ peer' \in [authed : BOOLEAN, subs : SUBSET Channels]
  BY <1>1, <1>2 DEF TypeOK, selfVars, wireVars
<1>8. WireOK'
  BY <1>1, <1>2 DEF Typed, WireOK, wireVars
<1>9. 4003 \in Nat /\ state # "closed"
  BY <1>2
<1> QED  BY <1>2, <1>4, <1>5, <1>6, <1>7, <1>8, <1>9, ClosingKeeps

\* onopen, and the handshake it sends.
LEMMA WsOpenKeeps ==
    ASSUME IInv, WsOpen PROVE IInv'
<1>1. /\ Typed /\ Nested /\ Disciplined /\ WillRetry /\ Failing /\ Calling /\ Held /\ Walking
      /\ TimedOut /\ Owned /\ Leaving /\ Requested /\ TypeOK
  BY Parts
<1>2. /\ Idle /\ state = "connecting" /\ ws' = "open"
      /\ UNCHANGED <<selfVars, state, retry, code, chan, buffer, down, peer, stack>>
  BY DEF WsOpen
<1>3. PICK cid \in FreshCids : /\ map' = <<[cid |-> cid, at |-> Handshake]>>
                               /\ up' = <<Message("handshake", Handshake, cid, token)>>
  BY DEF WsOpen
<1>4. Elems(stack) = {}
  BY <1>2, Resting
<1> DEFINE x0 == [cid |-> cid, at |-> Handshake]
           m0 == Message("handshake", Handshake, cid, token)
<1>5. /\ x0 \in Entries /\ x0.at = Handshake /\ x0.cid = cid /\ cid \in Cids
      /\ m0 \in Messages /\ m0.ev = "handshake"
  <2>1. cid \in Cids /\ cid \in 0 .. MaxCid /\ token \in BOOLEAN /\ Handshake \in Names /\ "handshake" \in Evs
    BY <1>1, Fresh, NamesDiffer, SCClientAssumption DEF Cids, TypeOK, Evs
  <2>2. m0 \in Messages /\ m0.ev = "handshake"
    BY <2>1, MessageIs
  <2> QED  BY <2>1, <2>2 DEF Entries
<1> HIDE DEF x0, m0
<1>6. /\ map' = <<x0>> /\ up' = <<m0>>
      /\ map' \in Seq(Entries) /\ up' \in Seq(Messages) /\ Elems(map') = {x0} /\ Elems(up') = {m0}
      /\ Pairwise(map', EntriesDiffer)
  <2>1. map' = <<x0>> /\ up' = <<m0>>
    BY <1>3 DEF x0, m0
  <2>2. map' \in Seq(Entries) /\ up' \in Seq(Messages)
    BY <1>5, <2>1
  <2>3. Elems(map') = {x0} /\ Elems(up') = {m0}
    BY <2>1, ElemsOfFew
  <2>4. Pairwise(map', EntriesDiffer)
    BY <2>1, PairwiseFew
  <2> QED  BY <2>1, <2>2, <2>3, <2>4
<1>7. \A c \in Channels : chan[c].cid # cid
  BY Fresh
<1>8. \A e \in asked : e # Handshake
  BY <1>1, NamesDiffer DEF TypeOK
<1>11. Typed'
  BY <1>1, <1>2, <1>4, <1>5, <1>6 DEF Typed, TypeOK, WireOK, FrameOK, selfVars
<1>12. Nested'
  BY <1>1, <1>2, <1>4, <1>5, <1>6 DEF Nested, selfVars
<1>13. Disciplined'
  BY <1>1, <1>2, <1>4, <1>5, <1>6 DEF Disciplined, Doing, Closers, selfVars
<1>14. WillRetry'
  BY <1>1, <1>2, <1>4, <1>5, <1>6 DEF WillRetry, selfVars
<1>15. Failing'
  BY <1>1, <1>2, <1>4, <1>5, <1>6 DEF Failing, Doing, selfVars
<1>16. Calling'
  BY <1>1, <1>2, <1>4, <1>5, <1>6 DEF Calling, Callbacks, selfVars
<1>17. Held'
  <2>1. \A e \in asked : ~ InMap(e) /\ ~ InMap(e)'
    BY <1>1, <1>2, <1>5, <1>6, <1>8 DEF Disciplined, InMap
  <2>2. \A e \in asked : (InBuffer(e)' <=> InBuffer(e)) /\ (InFails(e)' <=> InFails(e))
    BY <1>2 DEF InBuffer, InFails
  <2> QED  BY <1>1, <1>2, <1>6, <2>1, <2>2 DEF Held, selfVars
<1>18. Walking'
  BY <1>1, <1>2, <1>4, <1>5, <1>6 DEF Walking, Doing, selfVars
<1>19. TimedOut'
  BY <1>1, <1>2, <1>4, <1>5, <1>6, NamesDiffer DEF TimedOut, selfVars
<1>20. Owned'
  BY <1>1, <1>2, <1>4, <1>5, <1>6, <1>7 DEF Owned, selfVars
<1>21. Leaving'
  BY <1>1, <1>2, <1>4, <1>5, <1>6 DEF Leaving, SaidGoodbye, Doing, selfVars
<1>22. Requested'
  BY <1>1, <1>2, <1>4, <1>5, <1>6 DEF Requested, Doing, selfVars
<1> QED  BY <1>11, <1>12, <1>13, <1>14, <1>15, <1>16, <1>17, <1>18, <1>19, <1>20, <1>21, <1>22 DEF IInv

\* The reconnect timer.
LEMMA ReconnectTimerKeeps ==
    ASSUME IInv, ReconnectTimer PROVE IInv'
<1>1. /\ Typed /\ Nested /\ Disciplined /\ WillRetry /\ Failing /\ Calling /\ Held /\ Walking
      /\ TimedOut /\ Owned /\ Leaving /\ Requested /\ TypeOK
  BY Parts
<1>2. Idle /\ retry # "none" /\ UNCHANGED <<selfVars, chan, buffer, stack>> /\ state = "closed"
  BY <1>1 DEF ReconnectTimer, Disciplined
<1>3. Elems(stack) = {} /\ preparing = FALSE
  BY <1>2, Resting
<1>4. CASE ~ active
  <2>1. retry' = "none" /\ UNCHANGED <<state, code, map, wireVars>>
    BY <1>4 DEF ReconnectTimer
  <2>11. Typed'
    BY <1>1, <1>2, <1>3, <1>4, <2>1 DEF Typed, TypeOK, WireOK, FrameOK, selfVars, wireVars
  <2>12. Nested'
    BY <1>1, <1>2, <1>3, <1>4, <2>1 DEF Nested, selfVars
  <2>13. Disciplined'
    BY <1>1, <1>2, <1>3, <1>4, <2>1 DEF Disciplined, Doing, Closers, selfVars
  <2>14. WillRetry'
    BY <1>1, <1>2, <1>3, <1>4, <2>1 DEF WillRetry, selfVars
  <2>15. Failing'
    BY <1>1, <1>2, <1>3, <1>4, <2>1 DEF Failing, Doing, selfVars
  <2>16. Calling'
    BY <1>1, <1>2, <1>3, <1>4, <2>1 DEF Calling, Callbacks, selfVars
  <2>17. Held'
    BY <1>1, <1>2, <1>3, <1>4, <2>1 DEF Held, InBuffer, InMap, InFails, selfVars
  <2>18. Walking'
    BY <1>1, <1>2, <1>3, <1>4, <2>1 DEF Walking, Doing, selfVars
  <2>19. TimedOut'
    BY <1>1, <1>2, <1>3, <1>4, <2>1 DEF TimedOut, selfVars
  <2>20. Owned'
    BY <1>1, <1>2, <1>3, <1>4, <2>1 DEF Owned, selfVars
  <2>21. Leaving'
    BY <1>1, <1>2, <1>3, <1>4, <2>1 DEF Leaving, SaidGoodbye, Doing, selfVars, wireVars
  <2>22. Requested'
    BY <1>1, <1>2, <1>3, <1>4, <2>1 DEF Requested, Doing, selfVars
  <2> QED  BY <2>11, <2>12, <2>13, <2>14, <2>15, <2>16, <2>17, <2>18, <2>19, <2>20, <2>21, <2>22 DEF IInv
<1>5. CASE active
  <2>1. /\ state' = "connecting" /\ retry' = "none" /\ code' = 0
        /\ ws' = "connecting" /\ up' = <<>> /\ down' = <<>> /\ peer' = Stranger
        /\ map' = <<>>
    BY <1>5 DEF ReconnectTimer, NewTransport
  <2>2. /\ map = <<>> /\ Elems(<<>>) = {} /\ <<>> \in Seq(Messages)
        /\ Stranger \in [authed : BOOLEAN, subs : SUBSET Channels]
    BY <1>1, <1>2, <1>5, ElemsOfFew DEF Disciplined, Stranger
  <2>11. Typed'
    BY <1>1, <1>2, <1>3, <1>5, <2>1, <2>2 DEF Typed, TypeOK, WireOK, FrameOK, selfVars
  <2>12. Nested'
    BY <1>1, <1>2, <1>3, <1>5, <2>1, <2>2 DEF Nested, selfVars
  <2>13. Disciplined'
    BY <1>1, <1>2, <1>3, <1>5, <2>1, <2>2 DEF Disciplined, Doing, Closers, selfVars
  <2>14. WillRetry'
    BY <1>1, <1>2, <1>3, <1>5, <2>1, <2>2 DEF WillRetry, selfVars
  <2>15. Failing'
    BY <1>1, <1>2, <1>3, <1>5, <2>1, <2>2 DEF Failing, Doing, selfVars
  <2>16. Calling'
    BY <1>1, <1>2, <1>3, <1>5, <2>1, <2>2 DEF Calling, Callbacks, selfVars
  <2>17. Held'
    BY <1>1, <1>2, <1>3, <1>5, <2>1, <2>2 DEF Held, InBuffer, InMap, InFails, selfVars
  <2>18. Walking'
    BY <1>1, <1>2, <1>3, <1>5, <2>1, <2>2 DEF Walking, Doing, selfVars
  <2>19. TimedOut'
    BY <1>1, <1>2, <1>3, <1>5, <2>1, <2>2 DEF TimedOut, selfVars
  <2>20. Owned'
    BY <1>1, <1>2, <1>3, <1>5, <2>1, <2>2 DEF Owned, selfVars
  <2>21. Leaving'
    BY <1>1, <1>2, <1>3, <1>5, <2>1, <2>2 DEF Leaving, SaidGoodbye, Doing, selfVars
  <2>22. Requested'
    BY <1>1, <1>2, <1>3, <1>5, <2>1, <2>2 DEF Requested, Doing, selfVars
  <2> QED  BY <2>11, <2>12, <2>13, <2>14, <2>15, <2>16, <2>17, <2>18, <2>19, <2>20, <2>21, <2>22 DEF IInv
<1> QED  BY <1>4, <1>5

\* _handleEventAckTimeout.
LEMMA AckTimeoutKeeps ==
    ASSUME IInv, NEW e \in Calls, AckTimeout(e) PROVE IInv'
<1>1. /\ Typed /\ Nested /\ Disciplined /\ WillRetry /\ Failing /\ Calling /\ Held /\ Walking
      /\ TimedOut /\ Owned /\ Leaving /\ Requested /\ TypeOK
  BY Parts
<1>2. /\ Idle /\ e \in asked /\ asked' = asked \ {e}
      /\ buffer' = Minus(buffer, e)
      /\ stack' = <<Frame("refused", e), Frame("cancel", e)>>
      /\ UNCHANGED <<active, auth, token, preparing, tried, state, retry, code, chan, map, wireVars>>
  BY DEF AckTimeout, Minus
<1>3. Elems(stack) = {} /\ preparing = FALSE
  BY <1>2, Resting
<1> DEFINE f1 == Frame("refused", e)
           f2 == Frame("cancel", e)
<1>4. f1 \in Frames /\ f1.do = "refused" /\ f1.at = e /\ f2 \in Frames /\ f2.do = "cancel" /\ f2.at = e
  <2>1. e \in Names
    BY NamesDiffer
  <2> QED  BY <2>1, FrameIs, DosAre
<1> HIDE DEF f1, f2
<1>5. Fits(f1, f2)
  BY <1>4 DEF Fits, MayNest, CallsDiffer, FailsDiffer, Callbacks
<1>6. stack' \in Seq(Frames) /\ Elems(stack') = {f1, f2} /\ Pairwise(stack', Nesting)
  <2>1. stack' = <<f1, f2>>
    BY <1>2 DEF f1, f2
  <2> QED  BY <1>4, <1>5, <2>1, TwoCalls
<1>7. /\ buffer' \in Seq(Calls \cup Casts) /\ Elems(buffer') = Elems(buffer) \ {e}
      /\ Pairwise(buffer', EventsDiffer)
  <2>1. buffer \in Seq(Calls \cup Casts) /\ Pairwise(buffer, EventsDiffer)
    BY <1>1 DEF TypeOK, Held
  <2>2. buffer' \in Seq(Calls \cup Casts) /\ Elems(buffer') = Elems(buffer) \ {e}
    BY <1>2, <2>1, WithoutItem
  <2>3. Pairwise(buffer', EventsDiffer)
    BY <1>2, <2>1, WithoutItem
  <2> QED  BY <2>2, <2>3
<1>11. Typed'
  BY ZenonT(60), <1>1, <1>2, <1>3, <1>4, <1>6, <1>7 DEF Typed, TypeOK, WireOK, FrameOK, selfVars, wireVars
<1>12. Nested'
  BY <1>1, <1>2, <1>3, <1>4, <1>6, <1>7 DEF Nested, selfVars
<1>13. Disciplined'
  BY <1>1, <1>2, <1>3, <1>4, <1>6, <1>7 DEF Disciplined, Doing, Closers, selfVars
<1>14. WillRetry'
  BY <1>1, <1>2, <1>3, <1>4, <1>6, <1>7 DEF WillRetry, selfVars
<1>15. Failing'
  BY <1>1, <1>2, <1>3, <1>4, <1>6, <1>7 DEF Failing, Doing, selfVars
<1>16. Calling'
  BY <1>1, <1>2, <1>3, <1>4, <1>6, <1>7 DEF Calling, Callbacks, selfVars
<1>17. Held'
  BY <1>1, <1>2, <1>3, <1>4, <1>6, <1>7 DEF Held, InBuffer, InMap, InFails, selfVars
<1>18. Walking'
  BY <1>1, <1>2, <1>3, <1>4, <1>6, <1>7 DEF Walking, Doing, selfVars
<1>19. TimedOut'
  BY <1>1, <1>2, <1>3, <1>4, <1>6, <1>7 DEF TimedOut, selfVars
<1>20. Owned'
  BY <1>1, <1>2, <1>3, <1>4, <1>6, <1>7 DEF Owned, selfVars
<1>21. Leaving'
  BY <1>1, <1>2, <1>3, <1>4, <1>6, <1>7 DEF Leaving, SaidGoodbye, Doing, selfVars, wireVars
<1>22. Requested'
  BY <1>1, <1>2, <1>3, <1>4, <1>6, <1>7 DEF Requested, Doing, selfVars
<1> QED  BY <1>11, <1>12, <1>13, <1>14, <1>15, <1>16, <1>17, <1>18, <1>19, <1>20, <1>21, <1>22 DEF IInv

\* An answer.
LEMMA ReceiveAnswerKeeps ==
    ASSUME IInv, ReceiveAnswer PROVE IInv'
<1>1. /\ Typed /\ Nested /\ Disciplined /\ WillRetry /\ Failing /\ Calling /\ Held /\ Walking
      /\ TimedOut /\ Owned /\ Leaving /\ Requested /\ TypeOK
  BY Parts
<1>2. Elems(stack) = {} /\ preparing = FALSE /\ stack = <<>>
  BY Resting DEF ReceiveAnswer
<1> DEFINE m == Head(down)
<1>3. /\ ws = "open" /\ down # <<>> /\ m.ev = "answer" /\ down' = Tail(down)
      /\ map' = MinusCid(map, m.cid)
      /\ UNCHANGED <<active, token, tried, retry, code, buffer, ws, up, peer>>
  BY DEF ReceiveAnswer, MinusCid
<1>4. m \in Messages /\ down' \in Seq(Messages) /\ WireOK'
  <2>1. m \in Messages /\ down' \in Seq(Messages) /\ Elems(down) = {m} \cup Elems(down')
    BY <1>1, <1>3, ElemsOfTail DEF TypeOK
  <2> QED  BY <1>1, <1>3, <2>1 DEF Typed, WireOK
<1>5. /\ map' \in Seq(Entries) /\ Elems(map') = {x \in Elems(map) : x.cid # m.cid}
      /\ Pairwise(map', EntriesDiffer)
      /\ map = <<>> => map' = <<>>
  <2>1. map \in Seq(Entries) /\ Pairwise(map, EntriesDiffer)
    BY <1>1 DEF TypeOK, Held
  <2>2. map' \in Seq(Entries) /\ Elems(map') = {x \in Elems(map) : x.cid # m.cid}
        /\ Pairwise(map', EntriesDiffer)
    BY <1>3, <2>1, WithoutCid
  <2>3. (map = <<>> => Elems(map) = {}) /\ (Elems(map') = {} => map' = <<>>)
    BY <2>2, ElemsOfFew, ElemsTyped
  <2> QED  BY <2>2, <2>3
<1>6. /\ \A x, y \in Elems(map) : x.cid = y.cid \/ (x.at \in Calls \cup {Handshake} /\ x.at = y.at) => x = y
      /\ Elems(map) \subseteq Entries
  BY <1>1, OneEntry, ElemsTyped DEF Held, TypeOK
<1>7. \/ /\ \A e \in Elems(map) : e.cid # m.cid
         /\ UNCHANGED <<state, preparing, auth, asked, chan, stack>>
      \/ \E e \in Elems(map) :
               /\ e.cid = m.cid
               /\ \/ /\ e.at = Handshake
                     /\ Opened(m.ok)
                     /\ UNCHANGED <<asked, chan>>
                  \/ /\ e.at \in Calls
                     /\ asked' = asked \ {e.at}
                     /\ stack' = IF e.at \in asked
                                 THEN <<IF m.ok THEN Frame("answered", e.at) ELSE Denied(e.at)>> ELSE <<>>
                     /\ UNCHANGED <<state, preparing, auth, chan>>
                  \/ /\ e.at \in Channels
                     /\ chan' = [chan EXCEPT ![e.at] =
                                   Settled(@, IF m.ok THEN "subscribed" ELSE "unsubscribed")]
                     /\ stack' = IF m.ok /\ chan[e.at].st \notin {"none", "subscribed"}
                                 THEN <<Frame("subscribe", e.at)>> ELSE <<>>
                     /\ UNCHANGED <<state, preparing, auth, asked>>
  BY DEF ReceiveAnswer
<1>8. m.ok \in BOOLEAN
  BY <1>4 DEF Messages
<1> HIDE DEF m
<1>9. CASE /\ \A e \in Elems(map) : e.cid # m.cid
           /\ UNCHANGED <<state, preparing, auth, asked, chan, stack>>
  <2>1. Elems(map') = Elems(map)
    BY <1>5, <1>9
  <2>11. Typed'
  <3>1. TypeOK'
      BY <1>1, <1>3, <1>4, <1>5, <1>9 DEF TypeOK
    <3> QED  BY <1>1, <1>2, <1>4, <1>9, <2>1, <3>1 DEF Typed
  <2>12. Nested'
    BY <1>1, <1>2, <1>3, <1>4, <1>5, <1>9, <2>1 DEF Nested
  <2>13. Disciplined'
    BY <1>1, <1>2, <1>3, <1>4, <1>5, <1>9, <2>1 DEF Disciplined, Doing, Closers
  <2>14. WillRetry'
    BY <1>1, <1>2, <1>3, <1>4, <1>5, <1>9, <2>1 DEF WillRetry
  <2>15. Failing'
    BY <1>1, <1>2, <1>3, <1>4, <1>5, <1>9, <2>1 DEF Failing, Doing
  <2>16. Calling'
    BY <1>1, <1>2, <1>3, <1>4, <1>5, <1>9, <2>1 DEF Calling, Callbacks
  <2>17. Held'
    BY <1>1, <1>2, <1>3, <1>4, <1>5, <1>9, <2>1 DEF Held, InBuffer, InMap, InFails
  <2>18. Walking'
    BY <1>1, <1>2, <1>3, <1>4, <1>5, <1>9, <2>1 DEF Walking, Doing
  <2>19. TimedOut'
    BY <1>1, <1>2, <1>3, <1>4, <1>5, <1>9, <2>1 DEF TimedOut
  <2>20. Owned'
    BY <1>1, <1>2, <1>3, <1>4, <1>5, <1>9, <2>1 DEF Owned
  <2>21. Leaving'
    BY <1>1, <1>2, <1>3, <1>4, <1>5, <1>9, <2>1 DEF Leaving, SaidGoodbye, Doing
  <2>22. Requested'
    BY <1>1, <1>2, <1>3, <1>4, <1>5, <1>9, <2>1 DEF Requested, Doing
  <2> QED  BY <2>11, <2>12, <2>13, <2>14, <2>15, <2>16, <2>17, <2>18, <2>19, <2>20, <2>21, <2>22 DEF IInv
<1>10. ASSUME NEW e \in Elems(map), e.cid = m.cid, e.at = Handshake, Opened(m.ok), UNCHANGED <<asked, chan>>
       PROVE  IInv'
  <2> DEFINE bye == Frame("deauthenticate", None)
             go  == [Frame("open", None) EXCEPT !.n = IF m.ok THEN 1 ELSE 0]
  <2>1. bye \in Frames /\ bye.do = "deauthenticate" /\ go \in Frames /\ go.do = "open"
    <3>1. None \in Names /\ (IF m.ok THEN 1 ELSE 0) \in Nat
      BY NamesDiffer
    <3>2. bye \in Frames /\ bye.do = "deauthenticate" /\ Frame("open", None) \in Frames /\ Frame("open", None).do = "open"
      BY <3>1, FrameIs, DosAre
    <3> QED  BY <3>1, <3>2, FrameWithN
  <2>2. /\ state' = "open" /\ preparing' = TRUE /\ auth' = m.ok
        /\ stack' = (IF auth /\ ~ m.ok THEN <<bye>> ELSE <<>>) \o <<go>>
    BY <1>10 DEF Opened
  <2> HIDE DEF bye, go
  <2>3. stack' \in Seq(Frames) /\ Elems(stack') \subseteq {bye, go} /\ go \in Elems(stack') /\ Pairwise(stack', Nesting)
    <3>1. <<go>> \in Seq(Frames) /\ Elems(<<go>>) = {go} /\ Pairwise(<<go>>, Nesting)
      BY <2>1, Alone
    <3>2. CASE auth /\ ~ m.ok
      <4>1. Fits(bye, go)
        BY <2>1 DEF Fits, MayNest, CallsDiffer, FailsDiffer, Callbacks
      <4>2. stack' = <<bye>> \o <<go>>
        BY <2>2, <3>2
      <4>3. \A g \in Elems(<<go>>) : Fits(bye, g)
        BY <3>1, <4>1
      <4> DEFINE one == <<go>>
      <4> HIDE DEF one
      <4>4. <<bye>> \o one \in Seq(Frames) /\ Elems(<<bye>> \o one) = {bye} \cup Elems(one) /\ Pairwise(<<bye>> \o one, Nesting)
        BY <2>1, <3>1, <4>3, Pushed DEF one
      <4> QED  BY <3>1, <4>2, <4>4 DEF one
    <3>3. CASE ~ (auth /\ ~ m.ok)
      <4>1. stack' = <<go>>
        <5>1. stack' = <<>> \o <<go>>
          BY <2>2, <3>3
        <5> QED  BY <3>1, <5>1, Beside
      <4> QED  BY <3>1, <4>1
    <3> QED  BY <3>2, <3>3
  <2>4. state = "connecting" /\ \A x \in Elems(map) : x = e
    <3>1. state = "connecting"
      BY <1>1, <1>10 DEF Disciplined, TypeOK
    <3> QED  BY <1>1, <1>6, <1>10, <3>1 DEF Disciplined
  <2>5. Elems(map') = {} /\ active
    BY <1>1, <1>5, <1>10, <2>4 DEF Disciplined
  <2>6. \A x \in asked : x # Handshake
    BY <1>1, NamesDiffer DEF TypeOK
  <2>11. Typed'
    <3>1. TypeOK'
      BY <1>1, <1>3, <1>4, <1>5, <1>8, <1>10, <2>2, <2>3 DEF TypeOK
    <3>2. \A f \in Elems(stack') : FrameOK(f)
      BY <2>1, <2>3 DEF FrameOK
    <3> QED  BY <1>4, <2>5, <3>1, <3>2 DEF Typed
  <2>12. Nested'
    BY <1>1, <1>2, <1>3, <1>4, <1>5, <1>10, <2>1, <2>2, <2>3, <2>4, <2>5 DEF Nested
  <2>13. Disciplined'
    BY <1>1, <1>2, <1>3, <1>4, <1>5, <1>10, <2>1, <2>2, <2>3, <2>4, <2>5 DEF Disciplined, Doing, Closers
  <2>14. WillRetry'
    BY <1>1, <1>2, <1>3, <1>4, <1>5, <1>10, <2>1, <2>2, <2>3, <2>4, <2>5 DEF WillRetry
  <2>15. Failing'
    BY <1>1, <1>2, <1>3, <1>4, <1>5, <1>10, <2>1, <2>2, <2>3, <2>4, <2>5 DEF Failing, Doing
  <2>16. Calling'
    BY <1>1, <1>2, <1>3, <1>4, <1>5, <1>10, <2>1, <2>2, <2>3, <2>4, <2>5 DEF Calling, Callbacks
  <2>17. Held'
    BY <1>1, <1>2, <1>3, <1>4, <1>5, <1>10, <2>1, <2>2, <2>3, <2>4, <2>5, <2>6 DEF Held, InBuffer, InMap, InFails
  <2>18. Walking'
    BY <1>1, <1>2, <1>3, <1>4, <1>5, <1>10, <2>1, <2>2, <2>3, <2>4, <2>5 DEF Walking, Doing
  <2>19. TimedOut'
    BY <1>1, <1>2, <1>3, <1>4, <1>5, <1>10, <2>1, <2>2, <2>3, <2>4, <2>5 DEF TimedOut
  <2>20. Owned'
    BY <1>1, <1>2, <1>3, <1>4, <1>5, <1>10, <2>1, <2>2, <2>3, <2>4, <2>5 DEF Owned
  <2>21. Leaving'
    BY <1>1, <1>2, <1>3, <1>4, <1>5, <1>10, <2>1, <2>2, <2>3, <2>4, <2>5 DEF Leaving, SaidGoodbye, Doing
  <2>22. Requested'
    BY <1>1, <1>2, <1>3, <1>4, <1>5, <1>10, <2>1, <2>2, <2>3, <2>4, <2>5 DEF Requested, Doing
  <2> QED  BY <2>11, <2>12, <2>13, <2>14, <2>15, <2>16, <2>17, <2>18, <2>19, <2>20, <2>21, <2>22 DEF IInv
<1>11. ASSUME NEW e \in Elems(map), e.cid = m.cid, e.at \in Calls, asked' = asked \ {e.at},
              stack' = IF e.at \in asked
                       THEN <<IF m.ok THEN Frame("answered", e.at) ELSE Denied(e.at)>> ELSE <<>>,
              UNCHANGED <<state, preparing, auth, chan>>
       PROVE  IInv'
  <2> DEFINE told == IF m.ok THEN Frame("answered", e.at) ELSE Denied(e.at)
  <2>1. told \in Frames /\ told.do \in {"answered", "refused"} /\ told.at = e.at
    <3>1. e.at \in Names
      BY <1>11, NamesDiffer
    <3>2. /\ Frame("answered", e.at) \in Frames /\ Frame("answered", e.at).do = "answered" /\ Frame("answered", e.at).at = e.at
          /\ Frame("refused", e.at) \in Frames /\ Frame("refused", e.at).do = "refused" /\ Frame("refused", e.at).at = e.at
      BY <3>1, FrameIs, DosAre
    <3>3. Denied(e.at) \in Frames /\ Denied(e.at).do = "refused" /\ Denied(e.at).at = e.at
      BY <3>2, FrameWithN DEF Denied
    <3> QED  BY <3>2, <3>3
  <2>2. stack' = IF e.at \in asked THEN <<told>> ELSE <<>>
    BY <1>11
  <2> HIDE DEF told
  <2>3. stack' \in Seq(Frames) /\ Elems(stack') \subseteq {told} /\ Pairwise(stack', Nesting)
    <3>1. <<told>> \in Seq(Frames) /\ Elems(<<told>>) = {told} /\ Pairwise(<<told>>, Nesting)
      BY <2>1, Alone
    <3>2. <<>> \in Seq(Frames) /\ Elems(<<>>) = {} /\ Pairwise(<<>>, Nesting)
      BY ElemsOfFew, PairwiseFew
    <3> QED  BY <2>2, <3>1, <3>2
  <2>4. \A x \in Elems(map) : x.cid = m.cid \/ x.at = e.at => x = e
    BY <1>6, <1>11
  <2>5. \A x \in Elems(map) : x \in Elems(map') <=> x # e
    BY <1>5, <1>11, <2>4
  <2>6. \A f \in Elems(stack') : f.do \in {"answered", "refused"} /\ f.at = e.at
    BY <2>1, <2>3
  <2>11. Typed'
    <3>1. TypeOK'
      BY <1>1, <1>3, <1>4, <1>5, <1>8, <1>11, <2>3 DEF TypeOK
    <3>2. \A f \in Elems(stack') : FrameOK(f)
      BY <1>11, <2>6 DEF FrameOK
    <3> QED  BY <1>1, <1>4, <1>5, <3>1, <3>2 DEF Typed
  <2>12. Nested'
    BY <1>1, <1>2, <1>3, <1>4, <1>5, <1>11, <2>3, <2>4, <2>5, <2>6 DEF Nested
  <2>13. Disciplined'
    BY <1>1, <1>2, <1>3, <1>4, <1>5, <1>11, <2>3, <2>4, <2>5, <2>6 DEF Disciplined, Doing, Closers
  <2>14. WillRetry'
    BY <1>1, <1>2, <1>3, <1>4, <1>5, <1>11, <2>3, <2>4, <2>5, <2>6 DEF WillRetry
  <2>15. Failing'
    BY <1>1, <1>2, <1>3, <1>4, <1>5, <1>11, <2>3, <2>4, <2>5, <2>6 DEF Failing, Doing
  <2>16. Calling'
    BY <1>1, <1>2, <1>3, <1>4, <1>5, <1>11, <2>3, <2>4, <2>5, <2>6 DEF Calling, Callbacks
  <2>17. Held'
    BY <1>1, <1>2, <1>3, <1>4, <1>5, <1>11, <2>3, <2>4, <2>5, <2>6 DEF Held, InBuffer, InMap, InFails
  <2>18. Walking'
    BY <1>1, <1>2, <1>3, <1>4, <1>5, <1>11, <2>3, <2>4, <2>5, <2>6 DEF Walking, Doing
  <2>19. TimedOut'
    BY <1>1, <1>2, <1>3, <1>4, <1>5, <1>11, <2>3, <2>4, <2>5, <2>6 DEF TimedOut
  <2>20. Owned'
    BY <1>1, <1>2, <1>3, <1>4, <1>5, <1>11, <2>3, <2>4, <2>5, <2>6 DEF Owned
  <2>21. Leaving'
    BY <1>1, <1>2, <1>3, <1>4, <1>5, <1>11, <2>3, <2>4, <2>5, <2>6 DEF Leaving, SaidGoodbye, Doing
  <2>22. Requested'
    BY <1>1, <1>2, <1>3, <1>4, <1>5, <1>11, <2>3, <2>4, <2>5, <2>6, NamesDiffer DEF Requested, Doing
  <2> QED  BY <2>11, <2>12, <2>13, <2>14, <2>15, <2>16, <2>17, <2>18, <2>19, <2>20, <2>21, <2>22 DEF IInv
<1>12. ASSUME NEW e \in Elems(map), e.cid = m.cid, e.at \in Channels,
              chan' = [chan EXCEPT ![e.at] = Settled(@, IF m.ok THEN "subscribed" ELSE "unsubscribed")],
              stack' = IF m.ok /\ chan[e.at].st \notin {"none", "subscribed"}
                       THEN <<Frame("subscribe", e.at)>> ELSE <<>>,
              UNCHANGED <<state, preparing, auth, asked>>
       PROVE  IInv'
  <2> DEFINE told == Frame("subscribe", e.at)
  <2>1. told \in Frames /\ told.do = "subscribe"
    <3>1. e.at \in Names
      BY <1>12, NamesDiffer
    <3> QED  BY <3>1, FrameIs, DosAre
  <2>2. stack' = <<told>> \/ stack' = <<>>
    BY <1>12
  <2> HIDE DEF told
  <2>3. stack' \in Seq(Frames) /\ Elems(stack') \subseteq {told} /\ Pairwise(stack', Nesting)
    <3>1. <<told>> \in Seq(Frames) /\ Elems(<<told>>) = {told} /\ Pairwise(<<told>>, Nesting)
      BY <2>1, Alone
    <3>2. <<>> \in Seq(Frames) /\ Elems(<<>>) = {} /\ Pairwise(<<>>, Nesting)
      BY ElemsOfFew, PairwiseFew
    <3> QED  BY <2>2, <3>1, <3>2
  <2>4. \A x \in Elems(map) : x \in Elems(map') <=> x # e
    BY <1>5, <1>6, <1>12
  <2>5. \A f \in Elems(stack') : f.do = "subscribe"
    BY <2>1, <2>3
  <2>6. /\ chan' \in [Channels -> [st : {"none", "unsubscribed", "pending", "subscribed"}, cid : 0 .. MaxCid,
                                 torn : BOOLEAN]]
        /\ chan'[e.at].cid = 0 /\ chan'[e.at].st # "pending"
        /\ \A c \in Channels \ {e.at} : chan'[c] = chan[c]
    <3>1. /\ chan[e.at].st \in {"none", "unsubscribed", "pending", "subscribed"} /\ 0 \in 0 .. MaxCid
          /\ chan \in [Channels -> [st : {"none", "unsubscribed", "pending", "subscribed"}, cid : 0 .. MaxCid,
                                 torn : BOOLEAN]]
      BY <1>1, <1>12, SCClientAssumption DEF TypeOK
    <3> DEFINE new == Settled(chan[e.at], IF m.ok THEN "subscribed" ELSE "unsubscribed")
    <3>2. /\ new \in [st : {"none", "unsubscribed", "pending", "subscribed"}, cid : 0 .. MaxCid, torn : BOOLEAN]
          /\ new.cid = 0 /\ new.st # "pending"
      BY <3>1 DEF Settled, NoChannel
    <3>3. chan' = [chan EXCEPT ![e.at] = new]
      BY <1>12
    <3> HIDE DEF new
    <3> QED  BY <1>12, <3>1, <3>2, <3>3
  <2>7. \A x \in Elems(map) : x.cid # 0 /\ x.cid \in Cids
    BY <1>6 DEF Entries, Cids
  <2>11. Typed'
    <3>1. TypeOK'
      BY <1>1, <1>3, <1>4, <1>5, <1>8, <1>12, <2>3, <2>6 DEF TypeOK
    <3>2. \A f \in Elems(stack') : FrameOK(f)
      BY <2>5 DEF FrameOK
    <3> QED  BY <1>1, <1>4, <1>5, <3>1, <3>2 DEF Typed
  <2>12. Nested'
    BY <1>1, <1>2, <1>3, <1>4, <1>5, <1>12, <2>3, <2>4, <2>5, <2>6 DEF Nested
  <2>13. Disciplined'
    BY <1>1, <1>2, <1>3, <1>4, <1>5, <1>12, <2>3, <2>4, <2>5, <2>6 DEF Disciplined, Doing, Closers
  <2>14. WillRetry'
    BY <1>1, <1>2, <1>3, <1>4, <1>5, <1>12, <2>3, <2>4, <2>5, <2>6 DEF WillRetry
  <2>15. Failing'
    BY <1>1, <1>2, <1>3, <1>4, <1>5, <1>12, <2>3, <2>4, <2>5, <2>6 DEF Failing, Doing
  <2>16. Calling'
    BY <1>1, <1>2, <1>3, <1>4, <1>5, <1>12, <2>3, <2>4, <2>5, <2>6 DEF Calling, Callbacks
  <2>17. Held'
    <3>1. \A x \in asked : (InBuffer(x)' <=> InBuffer(x)) /\ ~ InFails(x) /\ ~ InFails(x)'
      BY <1>2, <1>3, <2>5 DEF InBuffer, InFails
    <3>2. \A x \in asked : InMap(x)' <=> InMap(x)
      <4>1. \A x \in asked : x # e.at
        BY <1>1, <1>12, NamesDiffer DEF TypeOK
      <4> QED  BY <1>5, <2>4, <4>1 DEF InMap
    <3> QED  BY <1>1, <1>3, <1>5, <1>12, <3>1, <3>2 DEF Held
  <2>18. Walking'
    BY <1>1, <1>2, <1>3, <1>4, <1>5, <1>12, <2>3, <2>4, <2>5, <2>6 DEF Walking, Doing
  <2>19. TimedOut'
    BY <1>1, <1>2, <1>3, <1>4, <1>5, <1>12, <2>3, <2>4, <2>5, <2>6 DEF TimedOut
  <2>20. Owned'
    <3>1. ASSUME NEW x \in Elems(map'), NEW c \in Channels, x.cid = chan'[c].cid PROVE x.at = c
      <4>1. x \in Elems(map) /\ c # e.at
        BY <1>5, <2>6, <2>7, <3>1
      <4>2. x.cid = chan[c].cid
        BY <2>6, <3>1, <4>1
      <4> QED  BY <1>1, <4>1, <4>2 DEF Owned
    <3> QED  BY <2>5, <3>1 DEF Owned
  <2>21. Leaving'
    BY <1>1, <1>2, <1>3, <1>4, <1>5, <1>12, <2>3, <2>4, <2>5, <2>6 DEF Leaving, SaidGoodbye, Doing
  <2>22. Requested'
    <3>1. ASSUME NEW c \in Channels, ~ chan'[c].torn
          PROVE  /\ chan'[c].cid # 0 => state = "open" /\ [cid |-> chan'[c].cid, at |-> c] \in Elems(map')
                 /\ ~ (state = "open" /\ chan'[c].st = "pending" /\ chan'[c].cid = 0)
      <4>1. CASE c = e.at
        BY <2>6, <4>1
      <4>2. CASE c # e.at
        <5>1. chan'[c] = chan[c]
          BY <2>6, <4>2
        <5>2. /\ chan[c].cid # 0 => state = "open" /\ [cid |-> chan[c].cid, at |-> c] \in Elems(map)
              /\ ~ (state = "open" /\ chan[c].st = "pending" /\ chan[c].cid = 0)
          BY <1>1, <1>2, <3>1, <5>1 DEF Requested, Doing
        <5>3. [cid |-> chan[c].cid, at |-> c] # e
          BY <4>2
        <5> QED  BY <2>4, <5>1, <5>2, <5>3
      <4> QED  BY <4>1, <4>2
    <3>2. state' = state
      BY <1>12
    <3> QED  BY <3>1, <3>2 DEF Requested
  <2> QED  BY <2>11, <2>12, <2>13, <2>14, <2>15, <2>16, <2>17, <2>18, <2>19, <2>20, <2>21, <2>22 DEF IInv
<1> QED  BY <1>7, <1>9, <1>10, <1>11, <1>12

\* An event.
LEMMA ReceiveEventKeeps ==
    ASSUME IInv, ReceiveEvent PROVE IInv'
<1>1. /\ Typed /\ Nested /\ Disciplined /\ WillRetry /\ Failing /\ Calling /\ Held /\ Walking
      /\ TimedOut /\ Owned /\ Leaving /\ Requested /\ TypeOK
  BY Parts
<1>2. Elems(stack) = {} /\ preparing = FALSE /\ stack = <<>>
  BY Resting DEF ReceiveEvent
<1> DEFINE m == Head(down)
<1>3. /\ ws = "open" /\ down # <<>> /\ down' = Tail(down)
      /\ UNCHANGED <<active, tried, asked, linkVars, ws, up, peer>>
  BY DEF ReceiveEvent
<1>4. m \in Messages /\ down' \in Seq(Messages) /\ WireOK' /\ (m.ev = "publish" => m.at \in Channels)
  <2>1. m \in Messages /\ down' \in Seq(Messages) /\ Elems(down) = {m} \cup Elems(down')
    BY <1>1, <1>3, ElemsOfTail DEF TypeOK
  <2> QED  BY <1>1, <1>3, <2>1 DEF Typed, WireOK
<1>5. \/ state = "closed" /\ UNCHANGED <<auth, token, preparing, stack>>
      \/ /\ state # "closed" /\ m.ev = "setAuthToken" /\ token' = TRUE /\ auth' = TRUE
         /\ preparing' = (preparing /\ auth)
         /\ stack' = (IF auth THEN <<>> ELSE <<ProcessPending>>) \o <<Frame("respond", None)>>
      \/ /\ state # "closed" /\ m.ev = "publish"
         /\ stack' = IF chan[m.at].st \in {"subscribed", "pending"} THEN <<Frame("message", m.at)>> ELSE <<>>
         /\ UNCHANGED <<auth, token, preparing>>
  BY DEF ReceiveEvent
<1> HIDE DEF m
<1>6. /\ stack' \in Seq(Frames) /\ Pairwise(stack', Nesting)
      /\ \A f \in Elems(stack') : f.do \in {"tries", "respond", "message"}
      /\ auth' \in BOOLEAN /\ token' \in BOOLEAN /\ preparing' = FALSE
  <2> DEFINE f1 == ProcessPending
             f2 == Frame("respond", None)
  <2>1. None \in Names /\ Pending \in SUBSET Channels
    BY NamesDiffer DEF Pending
  <2>2. /\ f2 \in Frames /\ f2.do = "respond"
        /\ Frame("tries", None) \in Frames /\ Frame("tries", None).do = "tries"
    BY <2>1, FrameIs, DosAre
  <2>3. f1 \in Frames /\ f1.do = "tries"
    BY <2>1, <2>2, FrameWithOf DEF ProcessPending
  <2>4. auth \in BOOLEAN /\ token \in BOOLEAN
    BY <1>1 DEF TypeOK
  <2>5. CASE state = "closed" /\ UNCHANGED <<auth, token, preparing, stack>>
    <3>1. <<>> \in Seq(Frames) /\ Pairwise(<<>>, Nesting) /\ stack' = <<>> /\ Elems(stack') = {}
      BY <1>2, <2>5, ElemsOfFew, PairwiseFew
    <3> QED  BY <1>2, <2>4, <2>5, <3>1
  <2>6. CASE /\ token' = TRUE /\ auth' = TRUE /\ preparing' = (preparing /\ auth)
             /\ stack' = (IF auth THEN <<>> ELSE <<ProcessPending>>) \o <<Frame("respond", None)>>
    <3>1. preparing' = FALSE
      BY <1>2, <2>6
    <3>2. stack' = (IF auth THEN <<>> ELSE <<f1>>) \o <<f2>>
      BY <2>6
    <3> HIDE DEF f1, f2
    <3>3. <<f2>> \in Seq(Frames) /\ Elems(<<f2>>) = {f2} /\ Pairwise(<<f2>>, Nesting)
      BY <2>2, Alone
    <3>4. CASE auth
      <4>1. stack' = <<f2>>
        <5>1. stack' = <<>> \o <<f2>>
          BY <3>2, <3>4
        <5> QED  BY <3>3, <5>1, Beside
      <4> QED  BY <2>2, <2>6, <3>1, <3>3, <4>1
    <3>5. CASE ~ auth
      <4> DEFINE one == <<f2>>
      <4>1. stack' = <<f1>> \o one
        BY <3>2, <3>5
      <4>2. \A g \in Elems(one) : Fits(f1, g)
        BY <2>2, <2>3, <3>3 DEF Fits, MayNest, CallsDiffer, FailsDiffer, Callbacks
      <4>3. one \in Seq(Frames) /\ Elems(one) = {f2} /\ Pairwise(one, Nesting)
        BY <3>3
      <4> HIDE DEF one
      <4>4. stack' \in Seq(Frames) /\ Elems(stack') = {f1} \cup Elems(one) /\ Pairwise(stack', Nesting)
        BY <2>3, <4>1, <4>2, <4>3, Pushed
      <4> QED  BY <2>2, <2>3, <2>6, <3>1, <4>3, <4>4
    <3> QED  BY <3>4, <3>5
  <2>7. CASE /\ m.ev = "publish"
             /\ stack' = IF chan[m.at].st \in {"subscribed", "pending"} THEN <<Frame("message", m.at)>> ELSE <<>>
             /\ UNCHANGED <<auth, token, preparing>>
    <3> DEFINE f3 == Frame("message", m.at)
    <3>1. f3 \in Frames /\ f3.do = "message"
      <4>1. m.at \in Names
        BY <1>4, <2>7, NamesDiffer
      <4> QED  BY <4>1, FrameIs, DosAre
    <3>2. stack' = <<f3>> \/ stack' = <<>>
      BY <2>7
    <3> HIDE DEF f3
    <3>3. <<f3>> \in Seq(Frames) /\ Elems(<<f3>>) = {f3} /\ Pairwise(<<f3>>, Nesting)
      BY <3>1, Alone
    <3>4. <<>> \in Seq(Frames) /\ Elems(<<>>) = {} /\ Pairwise(<<>>, Nesting)
      BY ElemsOfFew, PairwiseFew
    <3>5. stack' \in Seq(Frames) /\ Pairwise(stack', Nesting) /\ \A f \in Elems(stack') : f.do = "message"
      BY <3>1, <3>2, <3>3, <3>4
    <3> QED  BY <1>2, <2>4, <2>7, <3>5
  <2> QED  BY <1>5, <2>5, <2>6, <2>7
<1>11. Typed'
  <2>1. TypeOK'
    BY <1>1, <1>3, <1>4, <1>6 DEF TypeOK, linkVars
  <2>2. \A f \in Elems(stack') : FrameOK(f)
    BY <1>6 DEF FrameOK
  <2> QED  BY <1>1, <1>3, <1>4, <2>1, <2>2 DEF Typed, linkVars
<1>12. Nested'
  BY <1>1, <1>2, <1>3, <1>4, <1>6 DEF Nested, linkVars
<1>13. Disciplined'
  BY <1>1, <1>2, <1>3, <1>4, <1>6 DEF Disciplined, Doing, Closers, linkVars
<1>14. WillRetry'
  BY <1>1, <1>2, <1>3, <1>4, <1>6 DEF WillRetry, linkVars
<1>15. Failing'
  BY <1>1, <1>2, <1>3, <1>4, <1>6 DEF Failing, Doing, linkVars
<1>16. Calling'
  BY <1>1, <1>2, <1>3, <1>4, <1>6 DEF Calling, Callbacks, linkVars
<1>17. Held'
  BY <1>1, <1>2, <1>3, <1>4, <1>6 DEF Held, InBuffer, InMap, InFails, linkVars
<1>18. Walking'
  BY <1>1, <1>2, <1>3, <1>4, <1>6 DEF Walking, Doing, linkVars
<1>19. TimedOut'
  BY <1>1, <1>2, <1>3, <1>4, <1>6 DEF TimedOut, linkVars
<1>20. Owned'
  BY <1>1, <1>2, <1>3, <1>4, <1>6 DEF Owned, linkVars
<1>21. Leaving'
  BY <1>1, <1>2, <1>3, <1>4, <1>6 DEF Leaving, SaidGoodbye, Doing, linkVars
<1>22. Requested'
  BY <1>1, <1>2, <1>3, <1>4, <1>6 DEF Requested, Doing, linkVars
<1> QED  BY <1>11, <1>12, <1>13, <1>14, <1>15, <1>16, <1>17, <1>18, <1>19, <1>20, <1>21, <1>22 DEF IInv

\* The item after another is a third one.
LEMMA AfterOther ==
    ASSUME NEW s \in Seq(Calls \cup Casts), Pairwise(s, EventsDiffer), NEW e
    PROVE  /\ After(s, e) \in Calls \cup Casts \cup {None}
           /\ After(s, e) # None => After(s, e) \in Elems(s) \ {e}
<1>1. /\ Distinct(s)
      /\ \A i \in 1 .. Len(s) : s[i] \in Elems(s)
  BY EventsDistinct, ElemsTyped
<1>2. After(s, e) \in Calls \cup Casts \cup {None}
  BY AfterTyped
<1>3. CASE \E i \in 1 .. Len(s) - 1 : s[i] = e
  <2> DEFINE k == CHOOSE i \in 1 .. Len(s) - 1 : s[i] = e
  <2>1. k \in 1 .. Len(s) - 1 /\ s[k] = e
    BY <1>3
  <2>2. After(s, e) = s[k + 1]
    BY <1>3 DEF After
  <2> HIDE DEF k
  <2>3. k \in 1 .. Len(s) /\ k + 1 \in 1 .. Len(s) /\ k < k + 1
    BY <2>1
  <2>4. s[k] # s[k + 1]
    BY <1>1, <2>3 DEF Distinct
  <2> QED  BY <1>1, <1>2, <2>1, <2>2, <2>3, <2>4
<1>4. CASE ~ \E i \in 1 .. Len(s) - 1 : s[i] = e
  BY <1>2, <1>4 DEF After
<1> QED  BY <1>3, <1>4

\* A transport that closes within a call of the client: SCTransport.send.
LEMMA SendCloses ==
    ASSUME IInv, state # "closed", ~ preparing, NEW buf, NEW mp, NEW rest,
           ShutDown(1005, buf, mp, chan, rest), UNCHANGED wireVars, UNCHANGED selfVars, ws # "open",
           MayClose(buf, mp, rest),
           active => \A x \in Elems(mp) : x.at \in Calls => x.at \in asked
    PROVE  IInv'
<1>1. TypeOK /\ WireOK
  BY Parts DEF Typed
<1>2. /\ chan \in [Channels -> [st : {"none", "unsubscribed", "pending", "subscribed"}, cid : 0 .. MaxCid,
                                 torn : BOOLEAN]]
      /\ active' \in BOOLEAN /\ UNCHANGED <<active, auth, token, preparing, tried, asked>>
      /\ ws' \in {"connecting", "open", "closing", "gone"} /\ up' \in Seq(Messages)
        /\ down' \in Seq(Messages) /\ peer' \in [authed : BOOLEAN, subs : SUBSET Channels]
  BY <1>1 DEF TypeOK, selfVars, wireVars
<1>3. WireOK' /\ ws' # "open" /\ 1005 \in Nat
  BY <1>1 DEF WireOK, wireVars
<1> QED  BY <1>1, <1>2, <1>3, ClosingKeeps

\* What a call of the client in the course of nothing special leaves of the task.
LEMMA MayCloseRest ==
    ASSUME IInv, stack # <<>>, state # "closed", Top.do \in {"tries", "respond", "flush"}
    PROVE  /\ MayClose(buffer, map, Tail(stack)) /\ ~ preparing
           /\ active => \A x \in Elems(map) : x.at \in Calls => x.at \in asked
<1> DEFINE t == Tail(stack)
<1>1. /\ Top \in Frames /\ t \in Seq(Frames) /\ Elems(t) \subseteq Frames
      /\ Elems(stack) = {Top} \cup Elems(t) /\ Pairwise(t, Nesting)
      /\ \A g \in Elems(t) : Fits(Top, g)
  BY Popped, Parts
<1>2. \A g \in Elems(t) : g.do \notin {"abort", "retry", "open", "close", "fail", "wsclose", "flush", "cancel"}
  BY <1>1 DEF Fits, MayNest, Closers
<1> HIDE DEF t
<1>3. MayClose(buffer, map, t)
  BY <1>1, <1>2, MayCloseAsIs
<1>4. ~ preparing
  BY <1>1, <1>2, Parts DEF Disciplined, Doing
<1>5. active => \A x \in Elems(map) : x.at \in Calls => x.at \in asked
  BY <1>1, <1>2, Parts DEF TimedOut
<1> QED  BY <1>3, <1>4, <1>5 DEF t

\* Response.end.
LEMMA RespondKeeps ==
    ASSUME IInv, Respond PROVE IInv'
<1> DEFINE t == Tail(stack)
<1>1. /\ stack # <<>> /\ Top.do = "respond"
      /\ Top \in Frames /\ t \in Seq(Frames) /\ Elems(t) \subseteq Frames
      /\ Elems(stack) = {Top} \cup Elems(t) /\ Pairwise(t, Nesting)
      /\ \A g \in Elems(t) : Fits(Top, g)
  BY Popped DEF IInv, Typed, Step, Top, Respond
<1>2. /\ Typed /\ Nested /\ Disciplined /\ WillRetry /\ Failing /\ Calling /\ Held /\ Walking
      /\ TimedOut /\ Owned /\ Leaving /\ Requested /\ TypeOK
  BY Parts
<1>3. \A g \in Elems(t) : g.do \notin {"abort", "retry", "open", "close", "fail", "wsclose", "flush", "cancel"}
  BY <1>1 DEF Fits, MayNest, Closers

<1>4. Send(Message("respond", None, 0, TRUE), buffer, map, chan, t) /\ UNCHANGED selfVars
  BY DEF Respond
<1> DEFINE m == Message("respond", None, 0, TRUE)
<1>5. m \in Messages /\ m.ev = "respond"
  <2>1. None \in Names /\ "respond" \in Evs /\ 0 \in 0 .. MaxCid
    BY NamesDiffer, SCClientAssumption DEF Evs
  <2> QED  BY <2>1, MessageIs
<1>6. CASE ws = "open" \/ state = "closed"
  <2> HIDE DEF m, t
  <2>1. /\ stack' = t /\ UNCHANGED <<state, retry, code, buffer, map, chan, ws, down, peer>>
        /\ up' = up \/ up' = Append(up, m)
    BY <1>4, <1>6 DEF Send, ShutDown, wireVars, m
  <2>2. up' \in Seq(Messages) /\ WireOK' /\ (SaidGoodbye => SaidGoodbye')
    <3>1. up \in Seq(Messages)
      BY <1>2 DEF TypeOK
    <3>2. up' \in Seq(Messages) /\ (Elems(up') = Elems(up) \cup {m} \/ Elems(up') = Elems(up))
      <4>1. CASE up' = up
        BY <3>1, <4>1
      <4>2. CASE up' = Append(up, m)
        BY <1>5, <3>1, <4>2, ElemsOfAppend
      <4> QED  BY <2>1, <4>1, <4>2
    <3> QED  BY <1>2, <1>5, <2>1, <3>2 DEF Typed, WireOK, SaidGoodbye
  <2>11. Typed'
    <3>1. TypeOK'
      BY <1>1, <1>2, <1>4, <2>1, <2>2 DEF TypeOK, selfVars
    <3> QED  BY <1>1, <1>2, <2>1, <2>2, <3>1 DEF Typed
  <2>12. Nested'
    BY <1>1, <1>2, <1>3, <1>4, <2>1, <2>2 DEF Nested, selfVars
  <2>13. Disciplined'
    BY <1>1, <1>2, <1>3, <1>4, <2>1, <2>2 DEF Disciplined, Doing, Closers, selfVars
  <2>14. WillRetry'
    BY <1>1, <1>2, <1>3, <1>4, <2>1, <2>2 DEF WillRetry, selfVars
  <2>15. Failing'
    BY <1>1, <1>2, <1>3, <1>4, <2>1, <2>2 DEF Failing, Doing, selfVars
  <2>16. Calling'
    BY <1>1, <1>2, <1>3, <1>4, <2>1, <2>2 DEF Calling, Callbacks, selfVars
  <2>17. Held'
    BY <1>1, <1>2, <1>3, <1>4, <2>1, <2>2 DEF Held, InBuffer, InMap, InFails, selfVars
  <2>18. Walking'
    BY <1>1, <1>2, <1>3, <1>4, <2>1, <2>2 DEF Walking, Doing, selfVars
  <2>19. TimedOut'
    BY <1>1, <1>2, <1>3, <1>4, <2>1, <2>2 DEF TimedOut, selfVars
  <2>20. Owned'
    BY <1>1, <1>2, <1>3, <1>4, <2>1, <2>2 DEF Owned, selfVars
  <2>21. Leaving'
    <3> HIDE DEF SaidGoodbye
    <3> QED  BY <1>1, <1>2, <1>3, <1>4, <2>1, <2>2 DEF Leaving, Doing, selfVars
  <2>22. Requested'
    BY <1>1, <1>2, <1>3, <1>4, <2>1, <2>2 DEF Requested, Doing, selfVars
  <2> QED  BY <2>11, <2>12, <2>13, <2>14, <2>15, <2>16, <2>17, <2>18, <2>19, <2>20, <2>21, <2>22 DEF IInv
<1>7. CASE ws # "open" /\ state # "closed"
  <2>1. ShutDown(1005, buffer, map, chan, t) /\ UNCHANGED wireVars
    BY <1>4, <1>7 DEF Send
  <2> QED  BY <1>1, <1>4, <1>7, <2>1, MayCloseRest, SendCloses
<1> QED  BY <1>6, <1>7

\* A round of processPendingSubscriptions, or a subscribe.
LEMMA TrySubscribeKeeps ==
    ASSUME IInv, TrySubscribe PROVE IInv'
<1> DEFINE t == Tail(stack)
<1>1. /\ stack # <<>> /\ Top.do = "tries"
      /\ Top \in Frames /\ t \in Seq(Frames) /\ Elems(t) \subseteq Frames
      /\ Elems(stack) = {Top} \cup Elems(t) /\ Pairwise(t, Nesting)
      /\ \A g \in Elems(t) : Fits(Top, g)
  BY Popped DEF IInv, Typed, Step, Top, TrySubscribe
<1>2. /\ Typed /\ Nested /\ Disciplined /\ WillRetry /\ Failing /\ Calling /\ Held /\ Walking
      /\ TimedOut /\ Owned /\ Leaving /\ Requested /\ TypeOK
  BY Parts
<1>3. \A g \in Elems(t) : g.do \notin {"abort", "retry", "open", "close", "fail", "wsclose", "flush", "cancel"}
  BY <1>1 DEF Fits, MayNest, Closers

<1>4. UNCHANGED selfVars /\ Top.of \in SUBSET Channels
  BY <1>1 DEF TrySubscribe, Frames
<1>5. CASE Top.of = {} /\ stack' = Tail(stack) /\ UNCHANGED <<linkVars, wireVars>>
  <2>1. stack' = t
    BY <1>5
  <2> HIDE DEF t
  <2>11. Typed'
    BY ZenonT(60), <1>1, <1>2, <1>3, <1>4, <1>5, <2>1 DEF Typed, TypeOK, WireOK, FrameOK, selfVars, linkVars, wireVars
  <2>12. Nested'
    BY <1>1, <1>2, <1>3, <1>4, <1>5, <2>1 DEF Nested, selfVars, linkVars
  <2>13. Disciplined'
    BY <1>1, <1>2, <1>3, <1>4, <1>5, <2>1 DEF Disciplined, Doing, Closers, selfVars, linkVars
  <2>14. WillRetry'
    BY <1>1, <1>2, <1>3, <1>4, <1>5, <2>1 DEF WillRetry, selfVars, linkVars
  <2>15. Failing'
    BY <1>1, <1>2, <1>3, <1>4, <1>5, <2>1 DEF Failing, Doing, selfVars, linkVars
  <2>16. Calling'
    BY <1>1, <1>2, <1>3, <1>4, <1>5, <2>1 DEF Calling, Callbacks, selfVars, linkVars
  <2>17. Held'
    BY <1>1, <1>2, <1>3, <1>4, <1>5, <2>1 DEF Held, InBuffer, InMap, InFails, selfVars, linkVars
  <2>18. Walking'
    BY <1>1, <1>2, <1>3, <1>4, <1>5, <2>1 DEF Walking, Doing, selfVars, linkVars
  <2>19. TimedOut'
    BY <1>1, <1>2, <1>3, <1>4, <1>5, <2>1 DEF TimedOut, selfVars, linkVars
  <2>20. Owned'
    BY <1>1, <1>2, <1>3, <1>4, <1>5, <2>1 DEF Owned, selfVars, linkVars
  <2>21. Leaving'
    BY <1>1, <1>2, <1>3, <1>4, <1>5, <2>1 DEF Leaving, SaidGoodbye, Doing, selfVars, linkVars, wireVars
  <2>22. Requested'
    BY <1>1, <1>2, <1>3, <1>4, <1>5, <2>1 DEF Requested, Doing, selfVars, linkVars
  <2> QED  BY <2>11, <2>12, <2>13, <2>14, <2>15, <2>16, <2>17, <2>18, <2>19, <2>20, <2>21, <2>22 DEF IInv
<1>6. ASSUME NEW c \in Top.of,
             stack' = <<[Top EXCEPT !.of = @ \ {c}]>> \o Tail(stack), UNCHANGED <<linkVars, wireVars>>,
             ~ (state = "open" /\ ~ preparing /\ chan[c].cid = 0)
      PROVE  IInv'
  <2> DEFINE next == [Top EXCEPT !.of = @ \ {c}]
  <2>1. next \in Frames /\ next.do = "tries" /\ next.of = Top.of \ {c}
    BY <1>1, <1>4 DEF Frames
  <2>2. stack' = <<next>> \o t
    BY <1>6
  <2> HIDE DEF next, t
  <2>3. \A g \in Elems(t) : Fits(next, g)
    BY <1>1, <1>3, <2>1 DEF Fits, MayNest, CallsDiffer, FailsDiffer, Callbacks, Closers
  <2>4. stack' \in Seq(Frames) /\ Elems(stack') = {next} \cup Elems(t) /\ Pairwise(stack', Nesting)
    BY <1>1, <2>1, <2>2, <2>3, Pushed
  <2>11. Typed'
    BY ZenonT(60), <1>1, <1>2, <1>3, <1>4, <1>6, <2>1, <2>4 DEF Typed, TypeOK, WireOK, FrameOK, selfVars, linkVars, wireVars
  <2>12. Nested'
    BY <1>1, <1>2, <1>3, <1>4, <1>6, <2>1, <2>4 DEF Nested, selfVars, linkVars
  <2>13. Disciplined'
    BY <1>1, <1>2, <1>3, <1>4, <1>6, <2>1, <2>4 DEF Disciplined, Doing, Closers, selfVars, linkVars
  <2>14. WillRetry'
    BY <1>1, <1>2, <1>3, <1>4, <1>6, <2>1, <2>4 DEF WillRetry, selfVars, linkVars
  <2>15. Failing'
    BY <1>1, <1>2, <1>3, <1>4, <1>6, <2>1, <2>4 DEF Failing, Doing, selfVars, linkVars
  <2>16. Calling'
    BY <1>1, <1>2, <1>3, <1>4, <1>6, <2>1, <2>4 DEF Calling, Callbacks, selfVars, linkVars
  <2>17. Held'
    BY <1>1, <1>2, <1>3, <1>4, <1>6, <2>1, <2>4 DEF Held, InBuffer, InMap, InFails, selfVars, linkVars
  <2>18. Walking'
    BY <1>1, <1>2, <1>3, <1>4, <1>6, <2>1, <2>4 DEF Walking, Doing, selfVars, linkVars
  <2>19. TimedOut'
    BY <1>1, <1>2, <1>3, <1>4, <1>6, <2>1, <2>4 DEF TimedOut, selfVars, linkVars
  <2>20. Owned'
    BY <1>1, <1>2, <1>3, <1>4, <1>6, <2>1, <2>4 DEF Owned, selfVars, linkVars
  <2>21. Leaving'
    BY <1>1, <1>2, <1>3, <1>4, <1>6, <2>1, <2>4 DEF Leaving, SaidGoodbye, Doing, selfVars, linkVars, wireVars
  <2>22. Requested'
    <3>1. ~ preparing /\ preparing' = preparing /\ UNCHANGED <<state, chan, map>>
      BY <1>1, <1>2, <1>3, <1>4, <1>6 DEF Disciplined, Doing, selfVars, linkVars
    <3>2. ASSUME NEW d \in Channels, ~ chan[d].torn, state = "open", chan[d].st = "pending", chan[d].cid = 0
          PROVE  \E f \in Elems(stack') : f.do = "tries" /\ d \in f.of
      <4>1. PICK f \in Elems(stack) : f.do = "tries" /\ d \in f.of
        BY <1>2, <3>1, <3>2 DEF Requested, Disciplined
      <4>2. d # c
        BY <1>6, <3>1, <3>2
      <4> QED  BY <1>1, <2>1, <2>4, <4>1, <4>2
    <3> QED  BY <1>2, <3>1, <3>2 DEF Requested
  <2> QED  BY <2>11, <2>12, <2>13, <2>14, <2>15, <2>16, <2>17, <2>18, <2>19, <2>20, <2>21, <2>22 DEF IInv
<1>7. ASSUME NEW c \in Top.of, state = "open", ~ preparing, chan[c].cid = 0, NEW cid \in FreshCids,
             LET rest == <<[Top EXCEPT !.of = @ \ {c}]>> \o Tail(stack)
                 m  == Message("subscribe", c, cid, TRUE)
                 mp == Append(map, [cid |-> cid, at |-> c])
             IN  IF ws = "open"
                 THEN Send(m, buffer, mp, [chan EXCEPT ![c].cid = cid], rest)
                 ELSE Send(m, buffer, mp, chan, <<[Frame("cid", c) EXCEPT !.n = cid]>> \o rest)
      PROVE  IInv'
  <2> DEFINE next == [Top EXCEPT !.of = @ \ {c}]
             rest == <<next>> \o t
             x0   == [cid |-> cid, at |-> c]
             mp   == Append(map, x0)
             m0   == Message("subscribe", c, cid, TRUE)
             f0   == [Frame("cid", c) EXCEPT !.n = cid]
  <2>1. /\ next \in Frames /\ next.do = "tries" /\ next.of = Top.of \ {c}
        /\ c \in Channels /\ c \in Names /\ c \notin Calls \cup {Handshake} /\ c \notin asked
    BY <1>1, <1>2, <1>4, NamesDiffer DEF Frames, TypeOK
  <2>2. /\ cid \in Cids /\ cid \in 0 .. MaxCid /\ cid \in Nat /\ cid # 0
        /\ \A x \in Elems(map) : x.cid # cid
        /\ \A d \in Channels : chan[d].cid # cid
        /\ \A f \in Elems(stack) : f.n # cid
    BY Fresh, SCClientAssumption DEF Cids
  <2>3. x0 \in Entries /\ x0.cid = cid /\ x0.at = c
    BY <2>1, <2>2 DEF Entries
  <2>4. m0 \in Messages /\ m0.ev = "subscribe" /\ m0.at = c
    <3>1. "subscribe" \in Evs /\ TRUE \in BOOLEAN
      BY DEF Evs
    <3>2. Message("subscribe", c, cid, TRUE) \in Messages
          /\ Message("subscribe", c, cid, TRUE).ev = "subscribe" /\ Message("subscribe", c, cid, TRUE).at = c
      <4>1. c \in Names /\ cid \in 0 .. MaxCid
        BY <2>1, <2>2
      <4> HIDE DEF next, rest, x0, mp, m0, f0
      <4> QED  BY <3>1, <4>1, MessageIs, Zenon
    <3> QED  BY <3>2
  <2>5. f0 \in Frames /\ f0.do = "cid" /\ f0.at = c /\ f0.n = cid
    <3>1. Frame("cid", c) \in Frames /\ Frame("cid", c).do = "cid" /\ Frame("cid", c).at = c
      BY <2>1, FrameIs, DosAre
    <3> QED  BY <2>2, <3>1, FrameWithN
  <2>6. IF ws = "open" THEN Send(m0, buffer, mp, [chan EXCEPT ![c].cid = cid], rest)
                       ELSE Send(m0, buffer, mp, chan, <<f0>> \o rest)
    BY <1>7
  <2> HIDE DEF next, t, x0, m0, f0
  <2>7. \A g \in Elems(t) : Fits(next, g)
    BY <1>1, <1>3, <2>1 DEF Fits, MayNest, CallsDiffer, FailsDiffer, Callbacks, Closers
  <2>8. rest \in Seq(Frames) /\ Elems(rest) = {next} \cup Elems(t) /\ Pairwise(rest, Nesting)
    BY <1>1, <2>1, <2>7, Pushed
  <2>9. /\ mp \in Seq(Entries) /\ Elems(mp) = Elems(map) \cup {x0} /\ Pairwise(mp, EntriesDiffer)
    <3>1. map \in Seq(Entries) /\ Pairwise(map, EntriesDiffer) /\ Elems(map) \subseteq Entries
      BY <1>2, ElemsTyped DEF TypeOK, Held
    <3>2. \A x \in Elems(map) : <<x, x0>> \in EntriesDiffer
      BY <2>1, <2>2, <2>3, <3>1 DEF EntriesDiffer
    <3>3. mp \in Seq(Entries) /\ Elems(mp) = Elems(map) \cup {x0}
      BY <2>3, <3>1, ElemsOfAppend
    <3> QED  BY <2>3, <3>1, <3>2, <3>3, PairwiseAppend
  <2>10. /\ MayClose(buffer, map, t)
         /\ active => \A x \in Elems(map) : x.at \in Calls => x.at \in asked
    BY <1>1, <1>7, MayCloseRest DEF t
  <2> HIDE DEF rest, mp
  <2>20. CASE ws = "open"
    <3>1. /\ up' = Append(up, m0) /\ buffer' = buffer /\ map' = mp /\ stack' = rest
          /\ chan' = [chan EXCEPT ![c].cid = cid] /\ UNCHANGED <<state, retry, code, ws, down, peer>>
      BY <2>6, <2>20 DEF Send
    <3>2. up' \in Seq(Messages) /\ WireOK' /\ (SaidGoodbye => SaidGoodbye')
      <4>1. up' \in Seq(Messages) /\ Elems(up') = Elems(up) \cup {m0}
        BY <1>2, <2>4, <3>1, ElemsOfAppend DEF TypeOK
      <4> QED  BY <1>2, <2>1, <2>4, <3>1, <4>1 DEF Typed, WireOK, SaidGoodbye
    <3>3. /\ chan' \in [Channels -> [st : {"none", "unsubscribed", "pending", "subscribed"}, cid : 0 .. MaxCid,
                                 torn : BOOLEAN]]
          /\ chan'[c] = [chan[c] EXCEPT !.cid = cid]
          /\ chan'[c].cid = cid /\ chan'[c].st = chan[c].st /\ chan'[c].torn = chan[c].torn
          /\ \A d \in Channels \ {c} : chan'[d] = chan[d]
      BY <1>2, <2>1, <2>2, <3>1 DEF TypeOK
    <3>11. Typed'
      <4>1. TypeOK'
        BY <1>2, <1>4, <2>8, <2>9, <3>1, <3>2, <3>3 DEF TypeOK, selfVars
      <4>2. \A f \in Elems(stack') : FrameOK(f)
        BY <1>1, <1>2, <2>1, <2>8, <3>1 DEF Typed, FrameOK
      <4>3. \A x \in Elems(map') : x.at \in Channels \cup Calls \cup {Handshake}
        BY <1>2, <2>1, <2>3, <2>9, <3>1 DEF Typed
      <4> QED  BY <3>2, <4>1, <4>2, <4>3 DEF Typed
    <3>12. Nested'
      BY <1>1, <1>2, <1>3, <1>4, <1>7, <2>1, <2>2, <2>3, <2>8, <2>9, <3>1, <3>3 DEF Nested, selfVars
    <3>13. Disciplined'
      BY <1>1, <1>2, <1>3, <1>4, <1>7, <2>1, <2>2, <2>3, <2>8, <2>9, <3>1, <3>3 DEF Disciplined, Doing, Closers, selfVars
    <3>14. WillRetry'
      BY <1>1, <1>2, <1>3, <1>4, <1>7, <2>1, <2>2, <2>3, <2>8, <2>9, <3>1, <3>3 DEF WillRetry, selfVars
    <3>15. Failing'
      BY <1>1, <1>2, <1>3, <1>4, <1>7, <2>1, <2>2, <2>3, <2>8, <2>9, <3>1, <3>3 DEF Failing, Doing, selfVars
    <3>16. Calling'
      BY <1>1, <1>2, <1>3, <1>4, <1>7, <2>1, <2>2, <2>3, <2>8, <2>9, <3>1, <3>3 DEF Calling, Callbacks, selfVars
    <3>17. Held'
      <4>1. \A e \in asked : /\ InBuffer(e)' <=> InBuffer(e)
                             /\ InMap(e)' <=> InMap(e)
                             /\ InFails(e)' <=> InFails(e)
        BY <1>1, <2>1, <2>3, <2>8, <2>9, <3>1 DEF InBuffer, InMap, InFails
      <4> QED  BY <1>2, <1>4, <2>9, <3>1, <4>1 DEF Held, selfVars
    <3>18. Walking'
      BY <1>1, <1>2, <1>3, <1>4, <1>7, <2>1, <2>2, <2>3, <2>8, <2>9, <3>1, <3>3 DEF Walking, Doing, selfVars
    <3>19. TimedOut'
      BY <1>1, <1>2, <1>3, <1>4, <1>7, <2>1, <2>2, <2>3, <2>8, <2>9, <3>1, <3>3 DEF TimedOut, selfVars
    <3>20. Owned'
      <4>1. ASSUME NEW x \in Elems(map'), NEW d \in Channels, x.cid = chan'[d].cid PROVE x.at = d
        <5>1. CASE d = c
          BY <2>2, <2>3, <2>9, <3>1, <3>3, <4>1, <5>1
        <5>2. CASE d # c
          <6>1. x.cid = chan[d].cid /\ x # x0 /\ x \in Elems(map)
            BY <2>2, <2>3, <2>9, <3>1, <3>3, <4>1, <5>2
          <6> QED  BY <1>2, <6>1 DEF Owned
        <5> QED  BY <5>1, <5>2
      <4>2. ASSUME NEW x \in Elems(map'), NEW f \in Elems(stack'), f.do = "cid", x.cid = f.n PROVE x.at = f.at
        <5>1. f \in Elems(stack)
          BY <1>1, <2>1, <2>8, <3>1, <4>2
        <5>2. x \in Elems(map)
          BY <2>2, <2>3, <2>9, <3>1, <4>2, <5>1
        <5> QED  BY <1>2, <4>2, <5>1, <5>2 DEF Owned
      <4> QED  BY <4>1, <4>2 DEF Owned
    <3>21. Leaving'
      BY <1>7, <3>1 DEF Leaving
    <3>22. Requested'
      <4>1. ASSUME NEW d \in Channels, ~ chan'[d].torn
            PROVE  /\ chan'[d].cid # 0 => [cid |-> chan'[d].cid, at |-> d] \in Elems(map')
                   /\ chan'[d].st = "pending" /\ chan'[d].cid = 0 =>
                        \E f \in Elems(stack') : f.do = "tries" /\ d \in f.of
        <5>1. CASE d = c
          BY <2>2, <2>9, <3>1, <3>3, <5>1 DEF x0
        <5>2. CASE d # c
          <6>1. chan'[d] = chan[d]
            BY <3>3, <5>2
          <6>2. /\ chan[d].cid # 0 => [cid |-> chan[d].cid, at |-> d] \in Elems(map)
                /\ chan[d].st = "pending" /\ chan[d].cid = 0 =>
                     \E f \in Elems(stack) : f.do = "tries" /\ d \in f.of
            BY <1>1, <1>2, <1>3, <1>7, <4>1, <6>1 DEF Requested, Doing
          <6> QED  BY <1>1, <2>1, <2>8, <2>9, <3>1, <5>2, <6>1, <6>2
        <5> QED  BY <5>1, <5>2
      <4>2. state' = "open"
        BY <1>7, <3>1
      <4> QED  BY <4>1, <4>2 DEF Requested
    <3> QED  BY <3>11, <3>12, <3>13, <3>14, <3>15, <3>16, <3>17, <3>18, <3>19, <3>20, <3>21, <3>22 DEF IInv
  <2>21. CASE ws # "open"
    <3>1. MayClose(buffer, mp, t)
      <4>1. \A e \in asked : (\E x \in Elems(mp) : x.at = e) <=> \E x \in Elems(map) : x.at = e
        BY <2>1, <2>3, <2>9
      <4>2. \A x \in Elems(mp) : x.at \in Channels \cup Calls \cup {Handshake}
        BY <2>1, <2>3, <2>9, <2>10 DEF MayClose
      <4>3. \A x \in Elems(mp) : x.at # Handshake
        BY <1>2, <1>7, <2>1, <2>3, <2>9 DEF Disciplined
      <4> QED  BY <2>9, <2>10, <4>1, <4>2, <4>3 DEF MayClose
    <3>2. FrameOK(next) /\ FrameOK(f0) /\ next.do # "flush" /\ f0.do # "flush"
      BY <2>1, <2>2, <2>5 DEF FrameOK
    <3>3. MayClose(buffer, mp, rest)
      BY <2>1, <2>7, <3>1, <3>2, MayClosePush DEF rest
    <3>4. \A g \in Elems(rest) : Fits(f0, g)
      BY <1>3, <2>1, <2>5, <2>8 DEF Fits, MayNest, CallsDiffer, FailsDiffer, Callbacks, Closers
    <3>5. MayClose(buffer, mp, <<f0>> \o rest)
      BY <2>5, <3>2, <3>3, <3>4, MayClosePush
    <3>6. active => \A x \in Elems(mp) : x.at \in Calls => x.at \in asked
      BY <2>1, <2>3, <2>9, <2>10
    <3>7. ShutDown(1005, buffer, mp, chan, <<f0>> \o rest) /\ UNCHANGED wireVars
      BY <2>6, <2>21 DEF Send
    <3>8. state # "closed"
      BY <1>7
    <3> QED  BY <1>4, <1>7, <2>21, <3>5, <3>6, <3>7, <3>8, SendCloses
  <2> QED  BY <2>20, <2>21
<1>8. \/ Top.of = {} /\ stack' = Tail(stack) /\ UNCHANGED <<linkVars, wireVars>>
      \/ \E c \in Top.of :
            LET rest == <<[Top EXCEPT !.of = @ \ {c}]>> \o Tail(stack) IN
            IF state = "open" /\ ~ preparing /\ chan[c].cid = 0
            THEN \E cid \in FreshCids :
                   LET m  == Message("subscribe", c, cid, TRUE)
                       mp == Append(map, [cid |-> cid, at |-> c])
                   IN  IF ws = "open"
                       THEN Send(m, buffer, mp, [chan EXCEPT ![c].cid = cid], rest)
                       ELSE Send(m, buffer, mp, chan, <<[Frame("cid", c) EXCEPT !.n = cid]>> \o rest)
            ELSE stack' = rest /\ UNCHANGED <<linkVars, wireVars>>
  BY DEF TrySubscribe
<1>9. ASSUME NEW c \in Top.of,
            LET rest == <<[Top EXCEPT !.of = @ \ {c}]>> \o Tail(stack) IN
            IF state = "open" /\ ~ preparing /\ chan[c].cid = 0
            THEN \E cid \in FreshCids :
                   LET m  == Message("subscribe", c, cid, TRUE)
                       mp == Append(map, [cid |-> cid, at |-> c])
                   IN  IF ws = "open"
                       THEN Send(m, buffer, mp, [chan EXCEPT ![c].cid = cid], rest)
                       ELSE Send(m, buffer, mp, chan, <<[Frame("cid", c) EXCEPT !.n = cid]>> \o rest)
            ELSE stack' = rest /\ UNCHANGED <<linkVars, wireVars>>
      PROVE  IInv'
  <2>1. CASE state = "open" /\ ~ preparing /\ chan[c].cid = 0
    BY <1>7, <1>9, <2>1
  <2>2. CASE ~ (state = "open" /\ ~ preparing /\ chan[c].cid = 0)
    BY <1>6, <1>9, <2>2
  <2> QED  BY <2>1, <2>2
<1> QED  BY <1>5, <1>8, <1>9

\* One round of _flushEmitBuffer of an open client: the event leaves the list for the
\* WebSocket and, if it is a call, for the map.
LEMMA FlushSends ==
    ASSUME IInv, Step("flush"), state = "open", UNCHANGED selfVars, Top.at # None,
           NEW m \in Messages, m.ev \in {"login", "publish"},
           NEW mp \in Seq(Entries), Pairwise(mp, EntriesDiffer), Elems(map) \subseteq Elems(mp),
           \A x \in Elems(mp) \ Elems(map) :
              /\ x.at = Top.at
              /\ \A c \in Channels : x.cid # chan[c].cid
              /\ \A f \in Elems(stack) : x.cid # f.n,
           Top.at \in asked <=> Elems(mp) # Elems(map),
           Send(m, Minus(buffer, Top.at), mp, chan, <<Frame("flush", After(buffer, Top.at))>> \o Tail(stack))
    PROVE  IInv'
<1> DEFINE t == Tail(stack)
<1>1. /\ stack # <<>> /\ Top.do = "flush"
      /\ Top \in Frames /\ t \in Seq(Frames) /\ Elems(t) \subseteq Frames
      /\ Elems(stack) = {Top} \cup Elems(t) /\ Pairwise(t, Nesting)
      /\ \A g \in Elems(t) : Fits(Top, g)
  BY Popped DEF IInv, Typed, Step, Top
<1>2. /\ Typed /\ Nested /\ Disciplined /\ WillRetry /\ Failing /\ Calling /\ Held /\ Walking
      /\ TimedOut /\ Owned /\ Leaving /\ Requested /\ TypeOK
  BY Parts
<1>3. \A g \in Elems(t) : g.do \notin {"abort", "retry", "open", "close", "fail", "wsclose", "flush", "cancel"}
  BY <1>1 DEF Fits, MayNest, Closers
<1> DEFINE e    == Top.at
           buf  == Minus(buffer, e)
           next == Frame("flush", After(buffer, e))
           rest == <<next>> \o t
<1>4. /\ e \in Calls \cup Casts /\ e \notin Channels \cup {Handshake} /\ asked \subseteq Calls
      /\ (e \in asked => e \in Elems(buffer)) /\ buffer \in Seq(Calls \cup Casts)
      /\ Pairwise(buffer, EventsDiffer) /\ Elems(map) \subseteq Entries /\ map \in Seq(Entries)
  <2>1. e \in Calls \cup Casts
    BY <1>1, <1>2 DEF Typed, FrameOK
  <2> QED  BY <1>1, <1>2, <2>1, NamesDiffer, ElemsTyped DEF Walking, Held, TypeOK
<1>5. buf \in Seq(Calls \cup Casts) /\ Elems(buf) = Elems(buffer) \ {e} /\ Pairwise(buf, EventsDiffer)
  BY ZenonT(60), <1>4, WithoutItem
<1>6. /\ After(buffer, e) \in Calls \cup Casts \cup {None}
      /\ After(buffer, e) # None => After(buffer, e) \in Elems(buf)
  BY <1>4, <1>5, AfterOther
<1>7. next \in Frames /\ next.do = "flush" /\ next.at = After(buffer, e) /\ next.n = 0 /\ next.of = {}
  BY <1>6, NamesDiffer, FrameIs, DosAre
<1>8. Send(m, buf, mp, chan, rest)
  OBVIOUS
<1> HIDE DEF buf, next, e, t
<1>9. FrameOK(next) /\ (next.at \in asked => next.at \in Elems(buf))
  BY <1>4, <1>6, <1>7, NamesDiffer DEF FrameOK
<1>10. \A g \in Elems(t) : Fits(next, g)
  BY <1>1, <1>3, <1>7 DEF Fits, MayNest, CallsDiffer, FailsDiffer, Callbacks, Closers
<1>11. rest \in Seq(Frames) /\ Elems(rest) = {next} \cup Elems(t) /\ Pairwise(rest, Nesting)
  BY <1>1, <1>7, <1>10, Pushed
<1>12. /\ \A x \in Elems(mp) \ Elems(map) : x.at = e
       /\ e \in asked <=> Elems(mp) # Elems(map)
       /\ \A x \in Elems(mp) : x.at \in Channels \cup Calls \cup {Handshake}
       /\ \A x \in Elems(mp) : x.at # Handshake
  <2>1. /\ \A x \in Elems(mp) \ Elems(map) : x.at = e
        /\ e \in asked <=> Elems(mp) # Elems(map)
    BY DEF e
  <2>2. \A x \in Elems(map) : x.at \in Channels \cup Calls \cup {Handshake} /\ x.at # Handshake
    BY <1>2 DEF Typed, Disciplined
  <2>3. \A x \in Elems(mp) \ Elems(map) : e \in asked
    BY <2>1
  <2> QED  BY <1>4, <2>1, <2>2, <2>3
<1>13. \A d \in asked : /\ d = e => d \notin Elems(buf) /\ \E x \in Elems(mp) : x.at = d
                        /\ d # e => /\ d \in Elems(buf) <=> d \in Elems(buffer)
                                    /\ (\E x \in Elems(mp) : x.at = d) <=> \E x \in Elems(map) : x.at = d
  <2>1. e \in asked => \E x \in Elems(mp) : x.at = e
    <3>1. Elems(mp) # Elems(map) => \E x \in Elems(mp) : x \notin Elems(map)
      OBVIOUS
    <3> QED  BY <1>12, <3>1
  <2> QED  BY <1>5, <1>12, <2>1
<1>14. CASE ws = "open"
  <2> HIDE DEF rest
  <2>1. /\ up' = Append(up, m) /\ buffer' = buf /\ map' = mp /\ stack' = rest
        /\ UNCHANGED <<state, retry, code, chan, ws, down, peer>>
    BY <1>8, <1>14 DEF Send
  <2>2. up' \in Seq(Messages) /\ WireOK' /\ (SaidGoodbye => SaidGoodbye')
    <3>1. up' \in Seq(Messages) /\ Elems(up') = Elems(up) \cup {m}
      BY <1>2, <2>1, ElemsOfAppend DEF TypeOK
    <3> QED  BY <1>2, <2>1, <3>1 DEF Typed, WireOK, SaidGoodbye
  <2>11. Typed'
    <3>1. TypeOK'
      BY <1>2, <1>5, <1>11, <2>1, <2>2 DEF TypeOK, selfVars
    <3>2. \A f \in Elems(stack') : FrameOK(f)'
      BY <1>1, <1>2, <1>9, <1>11, <2>1 DEF Typed, FrameOK
    <3>3. \A x \in Elems(map') : x.at \in Channels \cup Calls \cup {Handshake}
      BY <1>12, <2>1
    <3> QED  BY <2>2, <3>1, <3>2, <3>3 DEF Typed
  <2>12. Nested'
    BY <1>1, <1>2, <1>3, <1>4, <1>5, <1>7, <1>9, <1>11, <1>12, <2>1 DEF Nested, selfVars
  <2>13. Disciplined'
    BY <1>1, <1>2, <1>3, <1>4, <1>5, <1>7, <1>9, <1>11, <1>12, <2>1 DEF Disciplined, Doing, Closers, selfVars
  <2>14. WillRetry'
    BY <1>1, <1>2, <1>3, <1>4, <1>5, <1>7, <1>9, <1>11, <1>12, <2>1 DEF WillRetry, selfVars
  <2>15. Failing'
    BY <1>1, <1>2, <1>3, <1>4, <1>5, <1>7, <1>9, <1>11, <1>12, <2>1 DEF Failing, Doing, selfVars
  <2>16. Calling'
    BY <1>1, <1>2, <1>3, <1>4, <1>5, <1>7, <1>9, <1>11, <1>12, <2>1 DEF Calling, Callbacks, selfVars
  <2>17. Held'
    <3>1. ASSUME NEW d \in asked
          PROVE  /\ InBuffer(d)' \/ InMap(d)' \/ InFails(d)'
                 /\ ~ (InBuffer(d)' /\ InMap(d)') /\ ~ (InBuffer(d)' /\ InFails(d)') /\ ~ (InMap(d)' /\ InFails(d)')
      <4>1. InFails(d)' <=> InFails(d)
        BY <1>1, <1>7, <1>11, <2>1 DEF InFails
      <4>2. ~ InFails(d)
        BY <1>1, <1>3 DEF InFails
      <4>3. (InBuffer(d)' <=> d \in Elems(buf)) /\ (InMap(d)' <=> \E x \in Elems(mp) : x.at = d)
        BY <2>1 DEF InBuffer, InMap
      <4>4. CASE d = e
        BY <1>13, <4>1, <4>2, <4>3, <4>4
      <4>5. CASE d # e
        BY <1>2, <1>13, <4>1, <4>2, <4>3, <4>5 DEF Held, InBuffer, InMap
      <4> QED  BY <4>4, <4>5
    <3>2. asked' = asked
      BY DEF selfVars
    <3> QED  BY <1>5, <2>1, <3>1, <3>2 DEF Held
  <2>18. Walking'
    BY <1>1, <1>2, <1>3, <1>4, <1>5, <1>7, <1>9, <1>11, <1>12, <2>1 DEF Walking, Doing, selfVars
  <2>19. TimedOut'
    BY <1>1, <1>2, <1>3, <1>4, <1>5, <1>7, <1>9, <1>11, <1>12, <2>1 DEF TimedOut, selfVars
  <2>20. Owned'
    <3>1. ASSUME NEW x \in Elems(map'), NEW c \in Channels, x.cid = chan'[c].cid PROVE x.at = c
      BY <1>2, <2>1, <3>1 DEF Owned
    <3>2. ASSUME NEW x \in Elems(map'), NEW f \in Elems(stack'), f.do = "cid", x.cid = f.n PROVE x.at = f.at
      <4>1. f \in Elems(stack)
        BY <1>1, <1>7, <1>11, <2>1, <3>2
      <4> QED  BY <1>2, <2>1, <3>2, <4>1 DEF Owned
    <3> QED  BY <3>1, <3>2 DEF Owned
  <2>21. Leaving'
    BY <1>14, <2>1 DEF Leaving
  <2>22. Requested'
    BY <1>1, <1>2, <1>3, <1>4, <1>5, <1>7, <1>9, <1>11, <1>12, <2>1 DEF Requested, Doing, selfVars
  <2> QED  BY <2>11, <2>12, <2>13, <2>14, <2>15, <2>16, <2>17, <2>18, <2>19, <2>20, <2>21, <2>22 DEF IInv
<1>15. CASE ws # "open"
  <2>1. /\ MayClose(buffer, map, t) /\ ~ preparing
        /\ active => \A x \in Elems(map) : x.at \in Calls => x.at \in asked
    BY <1>1, MayCloseRest DEF t
  <2>2. MayClose(buf, mp, t)
    <3>1. \A f \in Elems(t) : f.do # "flush"
      BY <1>3
    <3>2. \A d \in asked : d \in Elems(buf) <=> ~ \E x \in Elems(mp) : x.at = d
      BY <1>13, <2>1 DEF MayClose
    <3> QED  BY <1>5, <1>12, <2>1, <3>1, <3>2 DEF MayClose
  <2>3. MayClose(buf, mp, rest)
    BY <1>7, <1>9, <1>10, <2>2, MayClosePush
  <2>4. active => \A x \in Elems(mp) : x.at \in Calls => x.at \in asked
    BY <1>12, <2>1
  <2>5. ShutDown(1005, buf, mp, chan, rest) /\ UNCHANGED wireVars
    BY <1>8, <1>15 DEF Send
  <2> QED  BY <1>15, <2>1, <2>3, <2>4, <2>5, SendCloses
<1> QED  BY <1>14, <1>15

\* _flushEmitBuffer.
LEMMA FlushKeeps ==
    ASSUME IInv, Flush PROVE IInv'
<1> DEFINE t == Tail(stack)
<1>1. /\ stack # <<>> /\ Top.do = "flush"
      /\ Top \in Frames /\ t \in Seq(Frames) /\ Elems(t) \subseteq Frames
      /\ Elems(stack) = {Top} \cup Elems(t) /\ Pairwise(t, Nesting)
      /\ \A g \in Elems(t) : Fits(Top, g)
  BY Popped DEF IInv, Typed, Step, Top, Flush
<1>2. /\ Typed /\ Nested /\ Disciplined /\ WillRetry /\ Failing /\ Calling /\ Held /\ Walking
      /\ TimedOut /\ Owned /\ Leaving /\ Requested /\ TypeOK
  BY Parts
<1>3. \A g \in Elems(t) : g.do \notin {"abort", "retry", "open", "close", "fail", "wsclose", "flush", "cancel"}
  BY <1>1 DEF Fits, MayNest, Closers
<1> DEFINE e    == Top.at
           buf  == Minus(buffer, e)
           next == Frame("flush", After(buffer, e))
           rest == <<next>> \o t
           m1(cid) == Message("login", e, cid, TRUE)
           x1(cid) == [cid |-> cid, at |-> e]
           m2 == Message("publish", e, 0, TRUE)
<1>4. /\ UNCHANGED selfVars
      /\ \/ e = None /\ stack' = t /\ UNCHANGED <<linkVars, wireVars>>
         \/ e \in asked /\ \E cid \in FreshCids : Send(m1(cid), buf, Append(map, x1(cid)), chan, rest)
         \/ e \notin asked \cup {None} /\ Send(m2, buf, map, chan, rest)
  BY DEF Flush, Minus
<1>5. /\ e \in Calls \cup Casts \cup {None} /\ e \in Names /\ asked \subseteq Calls
      /\ (e \in asked => e \in Elems(buffer)) /\ buffer \in Seq(Calls \cup Casts)
      /\ map \in Seq(Entries) /\ Pairwise(map, EntriesDiffer) /\ Elems(map) \subseteq Entries
  BY <1>1, <1>2, NamesDiffer, ElemsTyped DEF Typed, FrameOK, Walking, Held, TypeOK
<1>6. state = "closed" => buffer = <<>> /\ Elems(buffer) = {} /\ e \notin asked
  BY <1>1, <1>2, <1>3, <1>5, ElemsOfFew DEF Walking, Doing
<1>7. state # "connecting" /\ state \in {"closed", "connecting", "open"}
  BY <1>1, <1>2 DEF Disciplined, Doing, TypeOK
<1>8. CASE e = None /\ stack' = t /\ UNCHANGED <<linkVars, wireVars>>
  <2> HIDE DEF t, e
  <2>11. Typed'
    BY <1>1, <1>2, <1>3, <1>4, <1>8 DEF Typed, TypeOK, WireOK, FrameOK, selfVars, linkVars, wireVars
  <2>12. Nested'
    BY <1>1, <1>2, <1>3, <1>4, <1>8 DEF Nested, selfVars, linkVars, wireVars
  <2>13. Disciplined'
    BY <1>1, <1>2, <1>3, <1>4, <1>8 DEF Disciplined, Doing, Closers, selfVars, linkVars, wireVars
  <2>14. WillRetry'
    BY <1>1, <1>2, <1>3, <1>4, <1>8 DEF WillRetry, selfVars, linkVars, wireVars
  <2>15. Failing'
    BY <1>1, <1>2, <1>3, <1>4, <1>8 DEF Failing, Doing, selfVars, linkVars, wireVars
  <2>16. Calling'
    BY <1>1, <1>2, <1>3, <1>4, <1>8 DEF Calling, Callbacks, selfVars, linkVars, wireVars
  <2>17. Held'
    BY <1>1, <1>2, <1>3, <1>4, <1>8 DEF Held, InBuffer, InMap, InFails, selfVars, linkVars, wireVars
  <2>18. Walking'
    BY <1>1, <1>2, <1>3, <1>4, <1>8 DEF Walking, Doing, selfVars, linkVars, wireVars
  <2>19. TimedOut'
    BY <1>1, <1>2, <1>3, <1>4, <1>8 DEF TimedOut, selfVars, linkVars, wireVars
  <2>20. Owned'
    BY <1>1, <1>2, <1>3, <1>4, <1>8 DEF Owned, selfVars, linkVars, wireVars
  <2>21. Leaving'
    BY <1>1, <1>2, <1>3, <1>4, <1>8 DEF Leaving, SaidGoodbye, Doing, selfVars, linkVars, wireVars
  <2>22. Requested'
    BY <1>1, <1>2, <1>3, <1>4, <1>8 DEF Requested, Doing, selfVars, linkVars, wireVars
  <2> QED  BY <2>11, <2>12, <2>13, <2>14, <2>15, <2>16, <2>17, <2>18, <2>19, <2>20, <2>21, <2>22 DEF IInv
<1>9. CASE state = "open" /\ e # None /\ ~ (e = None /\ stack' = t /\ UNCHANGED <<linkVars, wireVars>>)
  <2>1. ASSUME e \in asked, NEW cid \in FreshCids, Send(m1(cid), buf, Append(map, x1(cid)), chan, rest)
        PROVE  IInv'
    <3> DEFINE m == m1(cid)
               x == x1(cid)
               mp == Append(map, x)
    <3>1. /\ cid \in Cids /\ cid \in 0 .. MaxCid
          /\ \A y \in Elems(map) : y.cid # cid
          /\ \A d \in Channels : chan[d].cid # cid
          /\ \A f \in Elems(stack) : f.n # cid
      BY Fresh, SCClientAssumption DEF Cids
    <3>2. m \in Messages /\ m.ev = "login"
      <4>1. "login" \in Evs /\ TRUE \in BOOLEAN
        BY DEF Evs
      <4> HIDE DEF e
      <4> QED  BY <1>5, <3>1, <4>1, MessageIs, Zenon
    <3>3. x \in Entries /\ x.cid = cid /\ x.at = e
      BY <1>5, <3>1 DEF Entries
    <3>4. \A y \in Elems(map) : y.at # e
      BY <1>2, <1>5, <2>1 DEF Held, InBuffer, InMap
    <3>5. Send(m, buf, mp, chan, rest)
      BY <2>1
    <3> HIDE DEF m, x
    <3>6. /\ mp \in Seq(Entries) /\ Elems(mp) = Elems(map) \cup {x} /\ x \notin Elems(map)
          /\ Pairwise(mp, EntriesDiffer)
      <4>1. \A y \in Elems(map) : <<y, x>> \in EntriesDiffer
        BY <1>5, <3>1, <3>3, <3>4 DEF EntriesDiffer
      <4>2. mp \in Seq(Entries) /\ Elems(mp) = Elems(map) \cup {x}
        BY <1>5, <3>3, ElemsOfAppend
      <4>3. Pairwise(mp, EntriesDiffer)
        BY <1>5, <3>3, <4>1, PairwiseAppend
      <4> QED  BY <3>1, <3>3, <4>2, <4>3
    <3> HIDE DEF mp
    <3>7. /\ \A y \in Elems(mp) \ Elems(map) :
              /\ y.at = Top.at
              /\ \A c \in Channels : y.cid # chan[c].cid
              /\ \A f \in Elems(stack) : y.cid # f.n
          /\ Top.at \in asked <=> Elems(mp) # Elems(map)
          /\ Elems(map) \subseteq Elems(mp)
      BY <2>1, <3>1, <3>3, <3>6
    <3>8. Step("flush") /\ state = "open" /\ Top.at # None /\ m.ev \in {"login", "publish"}
      BY <1>1, <1>9, <3>2 DEF Step, Top
    <3> QED  BY <1>4, <3>2, <3>5, <3>6, <3>7, <3>8, FlushSends
  <2>2. ASSUME e \notin asked \cup {None}, Send(m2, buf, map, chan, rest)
        PROVE  IInv'
    <3>1. m2 \in Messages /\ m2.ev = "publish"
      <4>1. "publish" \in Evs /\ TRUE \in BOOLEAN /\ 0 \in 0 .. MaxCid
        BY SCClientAssumption DEF Evs
      <4> HIDE DEF e
      <4> QED  BY <1>5, <4>1, MessageIs, Zenon
    <3> HIDE DEF m2
    <3>2. Step("flush") /\ state = "open" /\ Top.at # None /\ m2.ev \in {"login", "publish"}
      BY <1>1, <1>9, <3>1 DEF Step, Top
    <3>3. Top.at \in asked <=> Elems(map) # Elems(map)
      BY <2>2
    <3> QED  BY <1>4, <1>5, <2>2, <3>1, <3>2, <3>3, FlushSends
  <2> QED  BY <1>4, <1>9, <2>1, <2>2
<1>10. CASE state = "closed" /\ e # None
  <2>1. /\ Send(m2, buf, map, chan, rest)
    BY <1>4, <1>6, <1>10
  <2>2. m2 \in Messages /\ m2.ev = "publish"
    <3>1. "publish" \in Evs /\ TRUE \in BOOLEAN /\ 0 \in 0 .. MaxCid
      BY SCClientAssumption DEF Evs
    <3> HIDE DEF e
    <3> QED  BY <1>5, <3>1, MessageIs, Zenon
  <2>3. buf \in Seq(Calls \cup Casts) /\ Elems(buf) = {} /\ buf = <<>>
    <3>1. buf \in Seq(Calls \cup Casts) /\ Elems(buf) = {}
      BY ZenonT(60), <1>5, <1>6, <1>10, WithoutItem
    <3> HIDE DEF buf
    <3> QED  BY <3>1, ElemsTyped
  <2>4. After(buffer, e) = None
    BY <1>6, <1>10 DEF After
  <2>5. next \in Frames /\ next.do = "flush" /\ next.at = None /\ next.n = 0 /\ next.of = {}
    BY <2>4, NamesDiffer, FrameIs, DosAre
  <2> HIDE DEF m2, buf, next, t
  <2>6. /\ stack' = rest /\ buffer' = <<>> /\ UNCHANGED <<state, retry, code, map, chan, ws, down, peer>>
        /\ up' = up \/ up' = Append(up, m2)
    BY <1>10, <2>1, <2>3 DEF Send, ShutDown, wireVars
  <2>7. \A g \in Elems(t) : Fits(next, g)
    BY <1>1, <1>3, <2>5 DEF Fits, MayNest, CallsDiffer, FailsDiffer, Callbacks, Closers
  <2>8. rest \in Seq(Frames) /\ Elems(rest) = {next} \cup Elems(t) /\ Pairwise(rest, Nesting)
    BY <1>1, <2>5, <2>7, Pushed
  <2> HIDE DEF rest, e
  <2>9. up' \in Seq(Messages) /\ WireOK' /\ (SaidGoodbye => SaidGoodbye')
    <3>1. up \in Seq(Messages)
      BY <1>2 DEF TypeOK
    <3>2. up' \in Seq(Messages) /\ (Elems(up') = Elems(up) \cup {m2} \/ Elems(up') = Elems(up))
      <4>1. CASE up' = up
        BY <3>1, <4>1
      <4>2. CASE up' = Append(up, m2)
        BY <2>2, <3>1, <4>2, ElemsOfAppend
      <4> QED  BY <2>6, <4>1, <4>2
    <3> QED  BY <1>2, <2>2, <2>6, <3>2 DEF Typed, WireOK, SaidGoodbye
  <2>10. buffer = <<>> /\ buffer' = buffer /\ buffer = <<>>
    BY <1>6, <1>10, <2>6
  <2>21. Typed'
    <3>1. TypeOK'
      BY <1>2, <1>4, <2>6, <2>8, <2>9, <2>10 DEF TypeOK, selfVars
    <3>2. (\A f \in Elems(stack) : FrameOK(f))'
      BY <1>1, <1>2, <2>5, <2>6, <2>8 DEF Typed, FrameOK
    <3> QED  BY <1>2, <2>6, <2>9, <3>1, <3>2 DEF Typed
  <2>22. Nested'
    BY <1>1, <1>2, <1>3, <1>4, <1>10, <2>5, <2>6, <2>8, <2>10 DEF Nested, selfVars
  <2>23. Disciplined'
    BY <1>1, <1>2, <1>3, <1>4, <1>10, <2>5, <2>6, <2>8, <2>10 DEF Disciplined, Doing, Closers, selfVars
  <2>24. WillRetry'
    BY <1>1, <1>2, <1>3, <1>4, <1>10, <2>5, <2>6, <2>8, <2>10 DEF WillRetry, selfVars
  <2>25. Failing'
    BY <1>1, <1>2, <1>3, <1>4, <1>10, <2>5, <2>6, <2>8, <2>10 DEF Failing, Doing, selfVars
  <2>26. Calling'
    BY <1>1, <1>2, <1>3, <1>4, <1>10, <2>5, <2>6, <2>8, <2>10 DEF Calling, Callbacks, selfVars
  <2>27. Held'
    BY <1>1, <1>2, <1>3, <1>4, <1>10, <2>5, <2>6, <2>8, <2>10 DEF Held, InBuffer, InMap, InFails, selfVars
  <2>28. Walking'
    <3>1. None \notin asked
      BY <1>5, NamesDiffer
    <3> QED  BY <1>1, <1>2, <1>3, <1>4, <2>5, <2>6, <2>8, <2>10, <3>1 DEF Walking, Doing, selfVars
  <2>29. TimedOut'
    BY <1>1, <1>2, <1>3, <1>4, <1>10, <2>5, <2>6, <2>8, <2>10 DEF TimedOut, selfVars
  <2>30. Owned'
    BY <1>1, <1>2, <1>3, <1>4, <1>10, <2>5, <2>6, <2>8, <2>10 DEF Owned, selfVars
  <2>31. Leaving'
    <3> HIDE DEF SaidGoodbye
    <3> QED  BY <1>1, <1>2, <1>3, <1>4, <2>5, <2>6, <2>8, <2>9 DEF Leaving, Doing, selfVars
  <2>32. Requested'
    BY <1>1, <1>2, <1>3, <1>4, <1>10, <2>5, <2>6, <2>8, <2>10 DEF Requested, Doing, selfVars
  <2> QED  BY <2>21, <2>22, <2>23, <2>24, <2>25, <2>26, <2>27, <2>28, <2>29, <2>30, <2>31, <2>32 DEF IInv
<1>11. CASE e = None
  <2>1. e \notin asked
    BY <1>5, <1>11, NamesDiffer
  <2>2. e = None /\ stack' = t /\ UNCHANGED <<linkVars, wireVars>>
    BY <1>4, <1>11, <2>1
  <2> QED  BY <1>8, <2>2
<1> HIDE DEF e, t
<1>12. CASE state = "open" /\ e # None
  BY <1>9, <1>12
<1> QED  BY <1>7, <1>10, <1>11, <1>12

\* Under the callbacks from which a page emits and subscribes, and between tasks, nothing
\* is being closed, flushed or opened.
Quiet == {"abort", "retry", "open", "close", "fail", "wsclose", "flush", "cancel"}

\* What is left of a task when such a callback calls the client: all of it, or, when the
\* call is the last thing the callback does, the rest.
Remains(rest) ==
    /\ rest \in Seq(Frames) /\ Pairwise(rest, Nesting)
    /\ \A g \in Elems(rest) :
          /\ g \in Elems(stack) /\ g.do \notin Quiet
          /\ g.do \notin {"tries", "cid"} \/ (stack # <<>> /\ g \in Elems(Tail(stack)))
    /\ \A g \in Elems(stack) : g \in Elems(rest) \/ g.do \in Hooks

\* So it is in each of them.
LEMMA QuietCallbacks ==
    ASSUME IInv, From({"connect", "answered", "subscribe", "message"})
    PROVE  Remains(stack) /\ (stack # <<>> => Remains(Tail(stack)))
<1>1. stack \in Seq(Frames) /\ Elems(stack) \subseteq Frames /\ Pairwise(stack, Nesting) /\ TypeOK /\ Nested
  BY Parts, ElemsTyped DEF TypeOK, Nested
<1>2. CASE Idle
  <2>1. Elems(stack) = {} /\ stack = <<>>
    BY <1>2, ElemsOfFew DEF Idle
  <2> QED  BY <1>1, <2>1 DEF Remains
<1>3. CASE ~ Idle
  <2>1. Top.do \in {"connect", "answered", "subscribe", "message"} /\ stack # <<>>
    BY <1>3 DEF From, Step, Top
  <2>2. /\ Elems(stack) = {Top} \cup Elems(Tail(stack))
        /\ \A g \in Elems(Tail(stack)) : Fits(Top, g)
        /\ Tail(stack) \in Seq(Frames) /\ Pairwise(Tail(stack), Nesting)
    BY <1>1, <2>1, Popped
  <2>3. \A g \in Elems(Tail(stack)) : g.do \notin Quiet
    BY <2>1, <2>2 DEF Fits, MayNest, Closers, Quiet
  <2>4. Top.do \notin Quiet \cup {"tries", "cid"} /\ Top.do \in Hooks
    BY <2>1 DEF Quiet, Hooks
  <2> QED  BY <1>1, <2>1, <2>2, <2>3, <2>4 DEF Remains
<1> QED  BY <1>2, <1>3

\* emit and publish.
LEMMA EmitKeeps ==
    ASSUME IInv, NEW rest, Remains(rest), NEW e \in Calls \cup Casts, Unused(e), Emit(e, rest)
    PROVE  IInv'
<1>1. /\ Typed /\ Nested /\ Disciplined /\ WillRetry /\ Failing /\ Calling /\ Held /\ Walking
      /\ TimedOut /\ Owned /\ Leaving /\ Requested /\ TypeOK
  BY Parts
<1>2. \A g \in Elems(stack) :
        g \in Elems(rest) \/ g.do \in {"connect", "close", "deauthenticate", "subscribe", "message", "answered", "refused"}
  BY DEF Remains, Hooks
<1>3. /\ \A g \in Elems(rest) : g.do \notin Quiet /\ g \in Elems(stack)
      /\ rest \in Seq(Frames) /\ Elems(rest) \subseteq Frames /\ Pairwise(rest, Nesting)
  BY ElemsTyped DEF Remains
<1>4. /\ e \notin Elems(buffer) /\ e \notin asked
      /\ \A x \in Elems(map) : x.at # e
      /\ \A f \in Elems(stack) : f.at # e
      /\ e # None /\ None \notin Calls \cup Casts
  BY NamesDiffer DEF Unused
<1>5. /\ buffer' = Append(buffer, e) /\ UNCHANGED <<active, auth, token, preparing, tried, chan>>
      /\ asked' = IF e \in Calls THEN asked \cup {e} ELSE asked
      /\ state = "closed" /\ active => NewTransport
      /\ ~ (state = "closed" /\ active) => UNCHANGED <<state, retry, code, map, wireVars>>
      /\ state = "open" => stack' = <<Frame("flush", First(buffer'))>> \o rest
      /\ state # "open" => stack' = rest
  BY <1>3, Beside DEF Emit
<1>6. /\ buffer' \in Seq(Calls \cup Casts) /\ Elems(buffer') = Elems(buffer) \cup {e}
      /\ Pairwise(buffer', EventsDiffer) /\ asked' \subseteq Calls /\ asked \subseteq asked'
      /\ asked' \subseteq asked \cup {e}
  <2>1. buffer \in Seq(Calls \cup Casts) /\ Pairwise(buffer, EventsDiffer) /\ Elems(buffer) \subseteq Calls \cup Casts
        /\ asked \subseteq Calls
    BY <1>1, ElemsTyped DEF TypeOK, Held
  <2>2. \A x \in Elems(buffer) : <<x, e>> \in EventsDiffer
    BY <1>2, <1>4, <2>1 DEF EventsDiffer
  <2>3. buffer' \in Seq(Calls \cup Casts) /\ Elems(buffer') = Elems(buffer) \cup {e}
    BY <1>2, <1>5, <2>1, ElemsOfAppend
  <2>4. Pairwise(buffer', EventsDiffer)
    BY <1>2, <1>5, <2>1, <2>2, PairwiseAppend
  <2> QED  BY <1>5, <2>1, <2>3, <2>4
<1>7. /\ stack' \in Seq(Frames) /\ Pairwise(stack', Nesting) /\ Elems(rest) \subseteq Elems(stack')
      /\ \A f \in Elems(stack') \ Elems(rest) :
            /\ state = "open" /\ f.do = "flush" /\ f.n = 0 /\ f.at \in Elems(buffer') \cup {None}
            /\ FrameOK(f)
  <2>1. CASE state = "open"
    <3> DEFINE f == Frame("flush", First(buffer'))
    <3>1. First(buffer') \in Calls \cup Casts \cup {None} /\ (First(buffer') # None => First(buffer') \in Elems(buffer'))
      BY <1>6, FirstTyped
    <3>2. f \in Frames /\ f.do = "flush" /\ f.at = First(buffer') /\ f.n = 0
      BY <3>1, NamesDiffer, FrameIs, DosAre
    <3>3. stack' = <<f>> \o rest
      BY <1>5, <2>1
    <3> HIDE DEF f
    <3>4. \A g \in Elems(rest) : Fits(f, g)
      BY <1>3, <3>2 DEF Fits, MayNest, CallsDiffer, FailsDiffer, Callbacks, Closers, Quiet
    <3>5. stack' \in Seq(Frames) /\ Elems(stack') = {f} \cup Elems(rest) /\ Pairwise(stack', Nesting)
      BY <1>3, <3>2, <3>3, <3>4, Pushed
    <3>6. FrameOK(f)
      BY <3>1, <3>2 DEF FrameOK
    <3> QED  BY <2>1, <3>1, <3>2, <3>5, <3>6
  <2>2. CASE state # "open"
    BY <1>3, <1>5, <2>2
  <2> QED  BY <2>1, <2>2
<1>8. /\ state' # "closed" => active' /\ retry' = "none"
      /\ state = "closed" /\ active => map = <<>> /\ map' = <<>> /\ state' = "connecting" /\ UNCHANGED chan
      /\ ~ (state = "closed" /\ active) => UNCHANGED <<state, map, retry, code>>
      /\ Elems(map') = Elems(map) /\ map' = map /\ UNCHANGED <<active, chan>>
      /\ state' = "open" <=> state = "open"
      /\ state' = "closed" => state = "closed" /\ ~ active /\ UNCHANGED <<ws, up, retry, code>>
  BY <1>1, <1>5 DEF Disciplined, NewTransport, wireVars
<1>11. Typed'
  <2>1. TypeOK'
    <3>1. Stranger \in [authed : BOOLEAN, subs : SUBSET Channels] /\ <<>> \in Seq(Messages)
      BY DEF Stranger
    <3>2. CASE state = "closed" /\ active
      BY <1>1, <1>5, <1>6, <1>7, <1>8, <3>1, <3>2 DEF TypeOK, NewTransport
    <3>3. CASE ~ (state = "closed" /\ active)
      BY <1>1, <1>5, <1>6, <1>7, <1>8, <3>3 DEF TypeOK, wireVars
    <3> QED  BY <3>2, <3>3
  <2>2. WireOK'
    <3>1. CASE state = "closed" /\ active
      BY <1>5, <3>1, ElemsOfFew DEF WireOK, NewTransport
    <3>2. CASE ~ (state = "closed" /\ active)
      BY <1>1, <1>5, <3>2 DEF Typed, WireOK, wireVars
    <3> QED  BY <3>1, <3>2
  <2>3. (\A f \in Elems(stack) : FrameOK(f))'
    BY <1>1, <1>3, <1>7 DEF Typed, FrameOK
  <2> QED  BY <1>1, <1>8, <2>1, <2>2, <2>3 DEF Typed
<1>12. Nested'
  BY <1>1, <1>3, <1>4, <1>5, <1>6, <1>7, <1>8 DEF Nested
<1>13. Disciplined'
  <2>1. \A f \in Elems(stack') : f.do \notin Closers
    BY <1>3, <1>7 DEF Quiet, Closers
  <2>2. state' = "connecting" => ~ Doing("flush")'
    BY <1>3, <1>7, <1>8 DEF Doing, Quiet
  <2>3. Doing("open")' <=> Doing("open")
    BY <1>2, <1>3, <1>7 DEF Doing
  <2>4. preparing' = preparing /\ Elems(<<>>) = {}
    BY <1>5, ElemsOfFew
  <2>5. map' = <<>> => Elems(map') = {}
    BY <2>4
  <2>6. state' = "connecting" => \A x \in Elems(map') : x.at = Handshake
    BY <1>1, <1>8, <2>5 DEF Disciplined
  <2>7. state' # "connecting" => \A x \in Elems(map') : x.at # Handshake
    BY <1>1, <1>8, <2>5 DEF Disciplined
  <2>8. preparing' <=> Doing("open")'
    BY <1>1, <2>3, <2>4 DEF Disciplined
  <2> HIDE DEF Doing
  <2> QED  BY <1>1, <1>8, <2>1, <2>2, <2>6, <2>7, <2>8 DEF Disciplined
<1>14. WillRetry'
  BY <1>8 DEF WillRetry
<1>15. Failing'
  <2>1. ~ Doing("fail")'
    BY <1>3, <1>7 DEF Doing, Quiet
  <2> QED  BY <2>1 DEF Failing
<1>16. Calling'
  BY <1>1, <1>3, <1>4, <1>5, <1>6, <1>7, <1>8 DEF Calling, Callbacks
<1>17. Held'
  <2>1. ASSUME NEW d \in asked'
        PROVE  /\ InBuffer(d)' <=> InBuffer(d) \/ d = e
               /\ InMap(d)' <=> InMap(d)
               /\ InFails(d)' <=> InFails(d)
    BY <1>2, <1>3, <1>6, <1>7, <1>8 DEF InBuffer, InMap, InFails, Quiet
  <2>2. ~ InMap(e) /\ ~ InFails(e)
    BY <1>4 DEF InMap, InFails
  <2>3. ASSUME NEW d \in asked', d # e PROVE d \in asked
    BY <1>6, <2>3
  <2>4. Pairwise(map, EntriesDiffer)' /\ Pairwise(buffer, EventsDiffer)'
    BY <1>1, <1>6, <1>8 DEF Held
  <2>5. ASSUME NEW d \in asked'
        PROVE  /\ InBuffer(d)' \/ InMap(d)' \/ InFails(d)'
               /\ ~ (InBuffer(d)' /\ InMap(d)') /\ ~ (InBuffer(d)' /\ InFails(d)') /\ ~ (InMap(d)' /\ InFails(d)')
    BY <1>1, <2>1, <2>2, <2>3 DEF Held
  <2> QED  BY <2>4, <2>5 DEF Held
<1>18. Walking'
  <2>1. None \notin asked'
    BY <1>4, <1>6
  <2>2. Doing("flush")' => state' = "open"
    BY <1>3, <1>7, <1>8 DEF Doing, Quiet
  <2>3. \A f \in Elems(stack') : f.do # "abort"
    BY <1>3, <1>7 DEF Quiet
  <2>4. \A f \in Elems(stack') : f.do = "flush" /\ f.at \in asked' => f.at \in Elems(buffer')
    BY <1>3, <1>7, <2>1 DEF Quiet
  <2> QED  BY <2>2, <2>3, <2>4 DEF Walking
<1>19. TimedOut'
  BY <1>1, <1>2, <1>3, <1>4, <1>6, <1>7, <1>8 DEF TimedOut, Quiet
<1>20. Owned'
  <2>1. \A x \in Elems(map'), c \in Channels : x.cid = chan'[c].cid => x.at = c
    BY <1>1, <1>8 DEF Owned
  <2>2. ASSUME NEW f \in Elems(stack'), f.do = "cid" PROVE f \in Elems(stack)
    BY <1>3, <1>7, <2>2
  <2> QED  BY <1>1, <1>8, <2>1, <2>2 DEF Owned
<1>21. Leaving'
  <2>1. Doing("wsclose") => Doing("wsclose")'
    BY <1>2, <1>3, <1>7 DEF Doing
  <2>2. \A f \in Elems(stack') : f.do # "fail"
    BY <1>3, <1>7 DEF Quiet
  <2> QED  BY <1>1, <1>8, <2>1, <2>2 DEF Leaving, SaidGoodbye
<1>22. Requested'
  <2>1. Doing("open") => Doing("open")'
    BY <1>2, <1>3, <1>7 DEF Doing
  <2>2. \A c \in Channels : (\E f \in Elems(stack) : f.do = "tries" /\ c \in f.of)
                            => \E f \in Elems(stack') : f.do = "tries" /\ c \in f.of
    BY <1>2, <1>7
  <2> HIDE DEF Doing
  <2> QED  BY <1>1, <1>8, <2>1, <2>2 DEF Requested
<1> QED  BY <1>11, <1>12, <1>13, <1>14, <1>15, <1>16, <1>17, <1>18, <1>19, <1>20, <1>21, <1>22 DEF IInv

\* emit and publish, with the callback still to return.
LEMMA PageEmitsKeeps ==
    ASSUME IInv, PageEmits PROVE IInv'
  BY QuietCallbacks, EmitKeeps DEF PageEmits

\* subscribe, with the requests it sends at once or leaves to processPendingSubscriptions.
LEMMA SubscribeKeeps ==
    ASSUME IInv, NEW rest, Remains(rest), NEW c \in Channels, Subscribe({c}, rest)
    PROVE  IInv'
<1>1. /\ Typed /\ Nested /\ Disciplined /\ WillRetry /\ Failing /\ Calling /\ Held /\ Walking
      /\ TimedOut /\ Owned /\ Leaving /\ Requested /\ TypeOK
  BY Parts
<1>2. \A g \in Elems(stack) :
        g \in Elems(rest) \/ g.do \in {"connect", "close", "deauthenticate", "subscribe", "message", "answered", "refused"}
  BY DEF Remains, Hooks
<1>3. /\ \A g \in Elems(rest) : g.do \notin Quiet /\ g \in Elems(stack)
      /\ rest \in Seq(Frames) /\ Elems(rest) \subseteq Frames /\ Pairwise(rest, Nesting)
  BY ElemsTyped DEF Remains
<1> DEFINE fresh == {d \in {c} : chan[d].st \in {"none", "unsubscribed"}}
           f == [Frame("tries", None) EXCEPT !.of = fresh]
<1>4. /\ chan' = [d \in Channels |-> IF d \in fresh THEN [chan[d] EXCEPT !.st = "pending"] ELSE chan[d]]
      /\ UNCHANGED <<selfVars, state, retry, code, map, buffer, wireVars>>
      /\ fresh = {} => stack' = rest
      /\ fresh # {} => stack' = <<f>> \o rest
  BY <1>3, Beside DEF Subscribe
<1>5. fresh \in SUBSET Channels
  OBVIOUS
<1> HIDE DEF fresh
<1>6. f \in Frames /\ f.do = "tries" /\ f.at = None /\ f.n = 0 /\ f.of = fresh
  <2>1. Frame("tries", None) \in Frames /\ Frame("tries", None).do = "tries" /\ Frame("tries", None).at = None
        /\ Frame("tries", None).n = 0
    BY NamesDiffer, FrameIs, DosAre
  <2> QED  BY <1>5, <2>1, FrameWithOf
<1> HIDE DEF f
<1>7. /\ stack' \in Seq(Frames) /\ Pairwise(stack', Nesting) /\ Elems(rest) \subseteq Elems(stack')
      /\ Elems(stack') \subseteq Elems(rest) \cup {f}
      /\ fresh # {} => f \in Elems(stack')
  <2>1. CASE fresh # {}
    <3>1. \A g \in Elems(rest) : Fits(f, g)
      BY <1>3, <1>6 DEF Fits, MayNest, CallsDiffer, FailsDiffer, Callbacks, Closers, Quiet
    <3>2. stack' \in Seq(Frames) /\ Elems(stack') = {f} \cup Elems(rest) /\ Pairwise(stack', Nesting)
      BY <1>3, <1>4, <1>6, <2>1, <3>1, Pushed
    <3> QED  BY <3>2
  <2>2. CASE fresh = {}
    BY <1>3, <1>4, <2>2
  <2> QED  BY <2>1, <2>2
<1>8. /\ chan' \in [Channels -> [st : {"none", "unsubscribed", "pending", "subscribed"}, cid : 0 .. MaxCid,
                                 torn : BOOLEAN]]
      /\ \A d \in Channels : /\ chan'[d].cid = chan[d].cid /\ chan'[d].torn = chan[d].torn
                             /\ chan'[d].st = chan[d].st \/ d \in fresh
  BY <1>1, <1>4 DEF TypeOK
<1>11. Typed'
  <2>1. TypeOK'
    BY <1>1, <1>4, <1>7, <1>8 DEF TypeOK, selfVars, wireVars
  <2>2. WireOK' /\ (\A x \in Elems(map) : x.at \in Channels \cup Calls \cup {Handshake})'
    BY <1>1, <1>4 DEF Typed, WireOK, wireVars
  <2>3. (\A g \in Elems(stack) : FrameOK(g))'
    BY <1>1, <1>3, <1>6, <1>7 DEF Typed, FrameOK
  <2> QED  BY <2>1, <2>2, <2>3 DEF Typed
<1>12. Nested'
  BY <1>1, <1>3, <1>4, <1>6, <1>7, <1>8 DEF Nested, selfVars, wireVars
<1>13. Disciplined'
  BY <1>1, <1>2, <1>3, <1>4, <1>6, <1>7, <1>8 DEF Disciplined, Doing, Closers, selfVars, wireVars
<1>14. WillRetry'
  BY <1>1, <1>2, <1>3, <1>4, <1>6, <1>7, <1>8 DEF WillRetry, selfVars, wireVars
<1>15. Failing'
  BY <1>1, <1>3, <1>4, <1>6, <1>7, <1>8 DEF Failing, Doing, selfVars, wireVars
<1>16. Calling'
  BY <1>1, <1>3, <1>4, <1>6, <1>7, <1>8 DEF Calling, Callbacks, selfVars, wireVars
<1>17. Held'
  <2>1. \A d \in asked : /\ InBuffer(d)' <=> InBuffer(d)
                         /\ InMap(d)' <=> InMap(d)
                         /\ InFails(d)' <=> InFails(d)
    BY <1>2, <1>3, <1>4, <1>6, <1>7 DEF InBuffer, InMap, InFails
  <2> QED  BY <1>1, <1>4, <2>1 DEF Held, selfVars
<1>18. Walking'
  BY <1>1, <1>2, <1>3, <1>4, <1>6, <1>7, <1>8 DEF Walking, Doing, selfVars, wireVars
<1>19. TimedOut'
  <2>1. \A g \in Elems(stack) : g.do \notin {"cancel", "fail"}
    BY <1>2, <1>3 DEF Quiet
  <2>2. \A g \in Elems(stack') : g.do \notin {"cancel", "fail"}
    BY <1>3, <1>6, <1>7 DEF Quiet
  <2> QED  BY <1>1, <1>4, <2>1, <2>2 DEF TimedOut, selfVars
<1>20. Owned'
  BY <1>1, <1>3, <1>4, <1>6, <1>7, <1>8 DEF Owned, selfVars, wireVars
<1>21. Leaving'
  BY <1>1, <1>2, <1>3, <1>4, <1>6, <1>7, <1>8 DEF Leaving, SaidGoodbye, Doing, selfVars, wireVars
<1>22. Requested'
  <2>1. Doing("open") => Doing("open")'
    BY <1>2, <1>3, <1>7 DEF Doing
  <2>2. \A d \in Channels : (\E g \in Elems(stack) : g.do = "tries" /\ d \in g.of)
                            => \E g \in Elems(stack') : g.do = "tries" /\ d \in g.of
    BY <1>2, <1>7
  <2>3. \A d \in fresh : \E g \in Elems(stack') : g.do = "tries" /\ d \in g.of
    BY <1>6, <1>7
  <2> HIDE DEF Doing
  <2>4. UNCHANGED <<state, map>>
    BY <1>4
  <2> QED  BY <1>1, <1>8, <2>1, <2>2, <2>3, <2>4 DEF Requested
<1> QED  BY <1>11, <1>12, <1>13, <1>14, <1>15, <1>16, <1>17, <1>18, <1>19, <1>20, <1>21, <1>22 DEF IInv

\* subscribe, with the callback still to return.
LEMMA PageSubscribesKeeps ==
    ASSUME IInv, PageSubscribes PROVE IInv'
<1>1. From({"connect", "answered", "subscribe", "message"})
  BY DEF PageSubscribes, From
<1> QED  BY <1>1, QuietCallbacks, SubscribeKeeps DEF PageSubscribes

\* What is left of a task when a callback destroys a channel or the client: all of it, or the
\* rest when that is the last thing the callback does.
Remainder(rest) == rest = stack \/ (stack # <<>> /\ Top.do \in Hooks /\ rest = Tail(stack))

\* It is the task but for callbacks.
LEMMA RemainderIs ==
    ASSUME IInv, NEW rest, Remainder(rest)
    PROVE  /\ rest \in Seq(Frames) /\ Pairwise(rest, Nesting)
           /\ \A g \in Elems(rest) : g \in Elems(stack)
           /\ \A g \in Elems(stack) : g \in Elems(rest) \/ g.do \in Hooks
<1>1. stack \in Seq(Frames) /\ Pairwise(stack, Nesting)
  BY Parts DEF TypeOK, Nested
<1>2. CASE rest = stack
  BY <1>1, <1>2
<1>3. CASE stack # <<>> /\ Top.do \in Hooks /\ rest = Tail(stack)
  <2>1. /\ Tail(stack) \in Seq(Frames) /\ Pairwise(Tail(stack), Nesting)
        /\ Elems(stack) = {Top} \cup Elems(Tail(stack))
    BY <1>1, <1>3, Popped, Parts
  <2> QED  BY <1>3, <2>1
<1> QED  BY <1>2, <1>3 DEF Remainder

\* What destroyChannel takes out of the map and the task is about the channel.
LEMMA OfChannel ==
    ASSUME IInv, NEW c \in Channels, NEW rest, Remainder(rest)
    PROVE  LET mp == MinusCid(map, chan[c].cid)
               dropped == MinusChannel(rest, c)
               left == [chan EXCEPT ![c] = NoChannel]
           IN  /\ mp \in Seq(Entries) /\ Pairwise(mp, EntriesDiffer) /\ Elems(mp) \subseteq Elems(map)
               /\ \A x \in Elems(map) \ Elems(mp) : x.at = c
               /\ dropped \in Seq(Frames) /\ Pairwise(dropped, Nesting)
               /\ Elems(dropped) = {f \in Elems(rest) : ~ (f.at = c /\ f.do \in {"cid", "fail"})}
               /\ left \in [Channels -> [st : {"none", "unsubscribed", "pending", "subscribed"}, cid : 0 .. MaxCid,
                                 torn : BOOLEAN]]
               /\ left[c].cid = 0 /\ left[c].st = "none"
               /\ \A d \in Channels \ {c} : left[d] = chan[d]
<1>1. /\ Typed /\ Nested /\ Disciplined /\ WillRetry /\ Failing /\ Calling /\ Held /\ Walking
      /\ TimedOut /\ Owned /\ Leaving /\ Requested /\ TypeOK
  BY Parts
<1> DEFINE mp == MinusCid(map, chan[c].cid)
           dropped == MinusChannel(rest, c)
           left == [chan EXCEPT ![c] = NoChannel]
<1>2. map \in Seq(Entries) /\ Pairwise(map, EntriesDiffer) /\ rest \in Seq(Frames) /\ Pairwise(rest, Nesting)
  BY <1>1, RemainderIs DEF TypeOK, Held
<1>3. mp \in Seq(Entries) /\ Pairwise(mp, EntriesDiffer) /\ Elems(mp) = {x \in Elems(map) : x.cid # chan[c].cid}
  BY <1>2, WithoutCid
<1>4. \A x \in Elems(map) : x.cid = chan[c].cid => x.at = c
  BY <1>1 DEF Owned
<1>5. /\ dropped \in Seq(Frames) /\ Pairwise(dropped, Nesting)
      /\ Elems(dropped) = {f \in Elems(rest) : ~ (f.at = c /\ f.do \in {"cid", "fail"})}
  BY <1>2, WithoutChannel
<1>6. /\ left \in [Channels -> [st : {"none", "unsubscribed", "pending", "subscribed"}, cid : 0 .. MaxCid,
                                 torn : BOOLEAN]]
      /\ left[c].cid = 0 /\ left[c].st = "none"
      /\ \A d \in Channels \ {c} : left[d] = chan[d]
  BY <1>1, SCClientAssumption DEF TypeOK, NoChannel
<1> HIDE DEF mp, dropped, left
<1>7. /\ Elems(mp) \subseteq Elems(map)
      /\ \A x \in Elems(map) \ Elems(mp) : x.at = c
  BY <1>3, <1>4
<1> QED  BY <1>3, <1>5, <1>6, <1>7 DEF mp, dropped, left

\* destroyChannel that does not close the transport.
LEMMA DestroyChannelKeeps ==
    ASSUME IInv, NEW c \in Channels, NEW rest, Remainder(rest), UNCHANGED <<selfVars, state, retry, code, buffer, ws, down, peer>>,
           up' \in Seq(Messages), WireOK', SaidGoodbye => SaidGoodbye',
           chan' = [chan EXCEPT ![c] = NoChannel], stack' = MinusChannel(rest, c),
           map' = map \/ map' = MinusCid(map, chan[c].cid)
    PROVE  IInv'
<1>1. /\ Typed /\ Nested /\ Disciplined /\ WillRetry /\ Failing /\ Calling /\ Held /\ Walking
      /\ TimedOut /\ Owned /\ Leaving /\ Requested /\ TypeOK
  BY Parts
<1>2. /\ stack' \in Seq(Frames) /\ Pairwise(stack', Nesting)
      /\ Elems(stack') = {f \in Elems(rest) : ~ (f.at = c /\ f.do \in {"cid", "fail"})}
      /\ \A f \in Elems(stack') : f \in Elems(stack)
      /\ chan' \in [Channels -> [st : {"none", "unsubscribed", "pending", "subscribed"}, cid : 0 .. MaxCid,
                                 torn : BOOLEAN]]
      /\ chan'[c].cid = 0 /\ chan'[c].st = "none"
      /\ \A d \in Channels \ {c} : chan'[d] = chan[d]
  BY OfChannel, RemainderIs
<1>3. /\ map' \in Seq(Entries) /\ Pairwise(map', EntriesDiffer) /\ Elems(map') \subseteq Elems(map)
      /\ \A x \in Elems(map) \ Elems(map') : x.at = c
  <2>1. map \in Seq(Entries) /\ Pairwise(map, EntriesDiffer)
    BY <1>1 DEF TypeOK, Held
  <2>2. CASE map' = map
    BY <2>1, <2>2
  <2>3. CASE map' = MinusCid(map, chan[c].cid)
    BY <2>3, OfChannel
  <2> QED  BY <2>2, <2>3
<1>4. c \notin Calls \cup {Handshake} /\ asked \subseteq Calls /\ c \notin asked
  BY <1>1, NamesDiffer DEF TypeOK
<1>5. map = <<>> => map' = <<>>
  <2>1. map = <<>> => Elems(map') = {}
    BY <1>3, ElemsOfFew
  <2> QED  BY <1>3, <2>1, ElemsTyped
<1>6. \A f \in Elems(stack) : f.do \notin Hooks /\ (f.at # c \/ f.do \notin {"cid", "fail"}) => f \in Elems(stack')
  BY <1>2, RemainderIs
<1> USE DEF Hooks
<1>11. Typed'
  <2>1. TypeOK'
    BY <1>1, <1>2, <1>3 DEF TypeOK, selfVars
  <2> QED  BY <1>1, <1>2, <1>3, <2>1 DEF Typed, FrameOK
<1>12. Nested'
  BY <1>1, <1>2, <1>3, <1>4, <1>5, <1>6 DEF Nested, selfVars
<1>13. Disciplined'
  <2>1. Doing("open")' <=> Doing("open")
    BY <1>2, <1>6 DEF Doing
  <2>2. Doing("flush")' => Doing("flush")
    BY <1>2 DEF Doing
  <2> HIDE DEF Doing
  <2> QED  BY <1>1, <1>2, <1>3, <1>5, <2>1, <2>2 DEF Disciplined, selfVars
<1>14. WillRetry'
  BY <1>1, <1>2, <1>3, <1>4, <1>5, <1>6 DEF WillRetry, selfVars
<1>15. Failing'
  <2>1. Doing("fail")' => Doing("fail")
    BY <1>2 DEF Doing
  <2>2. \A d \in Channels : chan[d].cid = 0 => chan'[d].cid = 0
    BY <1>2
  <2> HIDE DEF Doing
  <2> QED  BY <1>1, <1>2, <1>5, <2>1, <2>2 DEF Failing
<1>16. Calling'
  BY <1>1, <1>2, <1>3, <1>4, <1>5, <1>6 DEF Calling, Callbacks, selfVars
<1>17. Held'
  <2>1. \A d : InBuffer(d)' <=> InBuffer(d)
    BY DEF InBuffer
  <2>2. \A d \in asked : InMap(d)' <=> InMap(d)
    BY <1>3, <1>4 DEF InMap
  <2>3. \A d \in asked : InFails(d)' <=> InFails(d)
    BY <1>2, <1>4, <1>6 DEF InFails
  <2> QED  BY <1>1, <1>3, <2>1, <2>2, <2>3 DEF Held, selfVars
<1>18. Walking'
  BY <1>1, <1>2, <1>3, <1>4, <1>5, <1>6 DEF Walking, Doing, selfVars
<1>19. TimedOut'
  <2>1. ASSUME NEW x \in Elems(map'), active, x.at \in Calls \ asked
        PROVE  \E f \in Elems(stack') : f.do = "cancel" /\ f.at = x.at
    BY <1>1, <1>3, <1>6, <2>1 DEF TimedOut
  <2> QED  BY <1>1, <1>2, <2>1 DEF TimedOut, selfVars
<1>20. Owned'
  <2>1. ASSUME NEW x \in Elems(map'), NEW d \in Channels, x.cid = chan'[d].cid PROVE x.at = d
    <3>1. x \in Elems(map) /\ x.cid # 0
      <4>1. x \in Entries
        BY <1>3, ElemsTyped
      <4> QED  BY <1>3, <4>1, SCClientAssumption DEF Entries, Cids
    <3>2. d # c
      BY <1>2, <2>1, <3>1
    <3> QED  BY <1>1, <1>2, <2>1, <3>1, <3>2 DEF Owned
  <2> QED  BY <1>1, <1>2, <1>3, <2>1 DEF Owned
<1>21. Leaving'
  <2>1. Doing("wsclose") => Doing("wsclose")'
    BY <1>6 DEF Doing
  <2> HIDE DEF Doing, SaidGoodbye
  <2> QED  BY <1>1, <1>2, <2>1 DEF Leaving, selfVars
<1>22. Requested'
  <2>1. ASSUME NEW d \in Channels, ~ chan'[d].torn
        PROVE  /\ chan'[d].cid # 0 => state = "open" /\ [cid |-> chan'[d].cid, at |-> d] \in Elems(map')
               /\ state = "open" /\ chan'[d].st = "pending" /\ chan'[d].cid = 0 =>
                    Doing("open")' \/ \E f \in Elems(stack') : f.do = "tries" /\ d \in f.of
    <3>1. CASE d = c
      BY <1>2, <3>1
    <3>2. CASE d # c
      <4>1. chan'[d] = chan[d]
        BY <1>2, <3>2
      <4>2. /\ chan[d].cid # 0 => state = "open" /\ [cid |-> chan[d].cid, at |-> d] \in Elems(map)
            /\ state = "open" /\ chan[d].st = "pending" /\ chan[d].cid = 0 =>
                    Doing("open") \/ \E f \in Elems(stack) : f.do = "tries" /\ d \in f.of
        BY <1>1, <2>1, <4>1 DEF Requested
      <4>3. [cid |-> chan[d].cid, at |-> d] \in Elems(map) => [cid |-> chan[d].cid, at |-> d] \in Elems(map')
        BY <1>3, <3>2
      <4>4. /\ Doing("open") => Doing("open")'
            /\ (\E f \in Elems(stack) : f.do = "tries" /\ d \in f.of) => \E f \in Elems(stack') : f.do = "tries" /\ d \in f.of
        BY <1>6 DEF Doing
      <4> HIDE DEF Doing
      <4> QED  BY <4>1, <4>2, <4>3, <4>4
    <3> QED  BY <3>1, <3>2
  <2> QED  BY <2>1 DEF Requested
<1> QED  BY <1>11, <1>12, <1>13, <1>14, <1>15, <1>16, <1>17, <1>18, <1>19, <1>20, <1>21, <1>22 DEF IInv

\* destroyChannel, which may close the transport too.
LEMMA UnsubscribeKeeps ==
    ASSUME IInv, From({"close"}), NEW rest, Remainder(rest), NEW c \in Channels, DestroyChannel(c, rest)
    PROVE  IInv'
<1>1. /\ Typed /\ Nested /\ Disciplined /\ WillRetry /\ Failing /\ Calling /\ Held /\ Walking
      /\ TimedOut /\ Owned /\ Leaving /\ Requested /\ TypeOK
  BY Parts
<1> DEFINE mp == MinusCid(map, chan[c].cid)
           dropped == MinusChannel(rest, c)
           left == [chan EXCEPT ![c] = NoChannel]
           m == Message("unsubscribe", c, 0, TRUE)
<1>2. /\ UNCHANGED selfVars
      /\ IF chan[c].st \notin {"none", "unsubscribed"} /\ state = "open"
         THEN Send(m, buffer, mp, left, dropped)
         ELSE /\ chan' = left /\ stack' = dropped
              /\ map' = IF chan[c].st = "none" THEN map ELSE mp
              /\ UNCHANGED <<state, retry, code, buffer, wireVars>>
  BY DEF DestroyChannel, MinusCid, MinusChannel
<1>3. /\ mp \in Seq(Entries) /\ Pairwise(mp, EntriesDiffer) /\ Elems(mp) \subseteq Elems(map)
      /\ \A x \in Elems(map) \ Elems(mp) : x.at = c
      /\ dropped \in Seq(Frames) /\ Pairwise(dropped, Nesting)
      /\ Elems(dropped) = {f \in Elems(rest) : ~ (f.at = c /\ f.do \in {"cid", "fail"})}
      /\ Elems(dropped) \subseteq Elems(stack)
      /\ left \in [Channels -> [st : {"none", "unsubscribed", "pending", "subscribed"}, cid : 0 .. MaxCid,
                                 torn : BOOLEAN]]
  BY OfChannel, RemainderIs
<1>4. m \in Messages /\ m.ev = "unsubscribe"
  <2>1. "unsubscribe" \in Evs /\ TRUE \in BOOLEAN /\ 0 \in 0 .. MaxCid /\ c \in Names
    BY NamesDiffer, SCClientAssumption DEF Evs
  <2> QED  BY <2>1, MessageIs, Zenon
<1> HIDE DEF mp, dropped, left, m
<1>5. CASE up' = up /\ map' \in {map, mp} /\ chan' = left /\ stack' = dropped
           /\ UNCHANGED <<state, retry, code, buffer, wireVars>>
  <2>1. up' \in Seq(Messages) /\ WireOK' /\ (SaidGoodbye => SaidGoodbye')
    BY <1>1, <1>5 DEF Typed, TypeOK, WireOK, SaidGoodbye, wireVars
  <2> QED  BY <1>2, <1>5, <2>1, DestroyChannelKeeps DEF mp, dropped, left, wireVars
<1>6. CASE up' = Append(up, m) /\ map' = mp /\ chan' = left /\ stack' = dropped
           /\ UNCHANGED <<state, retry, code, buffer, ws, down, peer>>
  <2>1. up' \in Seq(Messages) /\ WireOK' /\ (SaidGoodbye => SaidGoodbye')
    <3>1. up' \in Seq(Messages) /\ Elems(up') = Elems(up) \cup {m}
      BY <1>1, <1>4, <1>6, ElemsOfAppend DEF TypeOK
    <3> QED  BY <1>1, <1>4, <1>6, <3>1 DEF Typed, WireOK, SaidGoodbye
  <2> QED  BY <1>2, <1>6, <2>1, DestroyChannelKeeps DEF mp, dropped, left
<1>7. CASE state = "open" /\ ws # "open" /\ ShutDown(1005, buffer, mp, left, dropped) /\ UNCHANGED wireVars
  <2>1. Idle
    <3>1. Step("close") => \E f \in Elems(stack) : f.do \in Closers
      BY <1>1, Popped DEF Step, Top, Closers
    <3> QED  BY <1>1, <1>7, <3>1 DEF From, Disciplined
  <2>2. /\ MayClose(buffer, map, <<>>) /\ \A x \in Elems(map) : x.at \in Calls => x.at \in asked
    BY <1>7, <2>1, MayCloseNow
  <2>3. Elems(dropped) = {} /\ Elems(<<>>) = {} /\ preparing = FALSE
    BY <1>3, <2>1, Resting, ElemsOfFew
  <2>4. MayClose(buffer, mp, dropped)
    <3>1. \A d \in asked : (\E x \in Elems(mp) : x.at = d) <=> \E x \in Elems(map) : x.at = d
      <4>1. c \notin asked
        BY <1>1, NamesDiffer DEF TypeOK
      <4> QED  BY <1>3, <4>1
    <3> QED  BY <1>3, <2>2, <2>3, <3>1 DEF MayClose
  <2>5. /\ active' \in BOOLEAN /\ UNCHANGED <<auth, token, preparing, tried, asked>>
        /\ ws' \in {"connecting", "open", "closing", "gone"} /\ up' \in Seq(Messages)
        /\ down' \in Seq(Messages) /\ peer' \in [authed : BOOLEAN, subs : SUBSET Channels]
        /\ WireOK' /\ ws' # "open" /\ 1005 \in Nat
    BY <1>1, <1>2, <1>7 DEF TypeOK, Typed, WireOK, selfVars, wireVars
  <2>6. /\ active' => \A x \in Elems(mp) : x.at \in Calls => x.at \in asked
        /\ state # "closed"
    BY <1>3, <1>7, <2>2
  <2> QED  BY <1>3, <1>7, <2>3, <2>4, <2>5, <2>6, ClosingKeeps
<1>8. \/ up' = up /\ map' \in {map, mp} /\ chan' = left /\ stack' = dropped
          /\ UNCHANGED <<state, retry, code, buffer, wireVars>>
      \/ up' = Append(up, m) /\ map' = mp /\ chan' = left /\ stack' = dropped
          /\ UNCHANGED <<state, retry, code, buffer, ws, down, peer>>
      \/ state = "open" /\ ws # "open" /\ ShutDown(1005, buffer, mp, left, dropped) /\ UNCHANGED wireVars
  BY <1>2 DEF Send, wireVars
<1> QED  BY <1>5, <1>6, <1>7, <1>8

\* While the page's handler runs.
LEMMA PageUnsubscribesKeeps ==
    ASSUME IInv, PageUnsubscribes PROVE IInv'
  BY UnsubscribeKeeps DEF PageUnsubscribes, Remainder

\* disconnect, from the user's own task or from the callback of a call that failed.
LEMMA DisconnectKeeps ==
    ASSUME IInv, From({"refused"}), NEW rest, Remainder(rest), Disconnect(rest),
           active' \in BOOLEAN, active' => active /\ Idle,
           UNCHANGED <<auth, token, preparing, tried, asked>>
    PROVE  IInv'
<1>1. /\ Typed /\ Nested /\ Disciplined /\ WillRetry /\ Failing /\ Calling /\ Held /\ Walking
      /\ TimedOut /\ Owned /\ Leaving /\ Requested /\ TypeOK
  BY Parts
<1>2. /\ rest \in Seq(Frames) /\ Pairwise(rest, Nesting) /\ stack \in Seq(Frames)
      /\ \A g \in Elems(rest) : g \in Elems(stack)
      /\ \A g \in Elems(stack) : g \in Elems(rest) \/ g.do \in Hooks
  BY <1>1, RemainderIs DEF TypeOK
<1>3. \A g \in Elems(stack) : g.do # "open"
  <2>1. CASE Idle
    BY <2>1, Resting
  <2>2. CASE Step("refused")
    <3>1. Top.do = "refused" /\ stack # <<>>
      BY <2>2 DEF Step, Top
    <3> QED  BY <1>1, <3>1, Popped DEF Fits, MayNest
  <2> QED  BY <2>1, <2>2 DEF From
<1>4. ~ preparing
  BY <1>1, <1>3 DEF Disciplined, Doing
<1>5. CASE state = "closed"
  <2>1. /\ retry' = "none" /\ code' = 1000 /\ stack' = rest
        /\ UNCHANGED <<state, chan, map, buffer, wireVars>>
    BY <1>5 DEF Disconnect
  <2>2. ForGood(code')
    BY <2>1 DEF ForGood
  <2>3. /\ TypeOK' /\ WireOK' /\ (\A x \in Elems(map) : x.at \in Channels \cup Calls \cup {Handshake})'
    BY <1>1, <1>2, <1>5, <2>1 DEF Typed, TypeOK, WireOK, wireVars
  <2>4. /\ \A g \in Elems(stack') : g \in Elems(stack)
        /\ \A g \in Elems(stack) : g \in Elems(stack') \/ g.do \in Hooks
        /\ stack' = rest
    BY <1>2, <2>1
  <2> USE DEF Hooks
  <2>11. Typed'
    BY <1>1, <2>3, <2>4 DEF Typed, FrameOK
  <2>12. Nested'
    BY <1>2, <2>1 DEF Nested
  <2>13. Disciplined'
    BY <1>1, <1>5, <2>1, <2>4 DEF Disciplined, Doing, Closers, wireVars
  <2>14. WillRetry'
    BY <2>2 DEF WillRetry
  <2>15. Failing'
    BY <1>1, <1>5, <2>1, <2>4 DEF Failing, Doing, wireVars
  <2>16. Calling'
    BY <1>1, <1>5, <2>1, <2>4 DEF Calling, Callbacks, wireVars
  <2>17. Held'
    BY <1>1, <1>5, <2>1, <2>4 DEF Held, InBuffer, InMap, InFails, wireVars
  <2>18. Walking'
    BY <1>1, <1>5, <2>1, <2>4 DEF Walking, Doing, wireVars
  <2>19. TimedOut'
    BY <1>1, <1>5, <2>1, <2>4 DEF TimedOut, wireVars
  <2>20. Owned'
    BY <1>1, <1>5, <2>1, <2>4 DEF Owned, wireVars
  <2>21. Leaving'
    BY <1>1, <1>5, <2>1, <2>4 DEF Leaving, SaidGoodbye, Doing, wireVars
  <2>22. Requested'
    BY <1>1, <1>5, <2>1, <2>4 DEF Requested, Doing, wireVars
  <2> QED  BY <2>11, <2>12, <2>13, <2>14, <2>15, <2>16, <2>17, <2>18, <2>19, <2>20, <2>21, <2>22 DEF IInv
<1>6. CASE state # "closed"
  <2> DEFINE f == Frame("wsclose", None)
             calls == <<f>> \o rest
             how == IF state = "open" /\ ws # "open" THEN 1005 ELSE 1000
             m == Message("disconnect", None, 0, TRUE)
  <2>1. /\ ShutDown(how, buffer, map, chan, calls) /\ UNCHANGED <<ws, down, peer>>
        /\ up' = IF state = "open" /\ ws = "open" THEN Append(up, m) ELSE up
    BY <1>6 DEF Disconnect, Closing
  <2>2. how \in Nat
    OBVIOUS
  <2>3. f \in Frames /\ f.do = "wsclose" /\ FrameOK(f)
    BY CloseCall
  <2>4. m \in Messages /\ m.ev = "disconnect"
    <3>1. "disconnect" \in Evs /\ TRUE \in BOOLEAN /\ 0 \in 0 .. MaxCid /\ None \in Names
      BY NamesDiffer, SCClientAssumption DEF Evs
    <3> QED  BY <3>1, MessageIs, Zenon
  <2> HIDE DEF f, m, how
  <2>5. \A g \in Elems(stack) : g.do \notin Closers
    BY <1>1, <1>6 DEF Disciplined
  <2>6. \A g \in Elems(rest) : Fits(f, g)
    BY <1>2, <1>3, <2>3, <2>5 DEF Fits, MayNest, CallsDiffer, FailsDiffer, Callbacks, Closers
  <2>7. MayClose(buffer, map, rest)
    BY <1>2, <1>3, <1>6, MayCloseAsIs
  <2>8. MayClose(buffer, map, calls) /\ Elems(calls) = {f} \cup Elems(rest)
    BY <2>3, <2>6, <2>7, MayClosePush
  <2> HIDE DEF calls
  <2>9. /\ up' \in Seq(Messages) /\ WireOK' /\ (state = "open" /\ ws = "open" => SaidGoodbye')
    <3>1. up \in Seq(Messages)
      BY <1>1 DEF TypeOK
    <3>2. CASE state = "open" /\ ws = "open"
      <4>1. up' = Append(up, m)
        BY <2>1, <3>2
      <4>2. up' \in Seq(Messages) /\ Elems(up') = Elems(up) \cup {m}
        BY <2>4, <3>1, <4>1, ElemsOfAppend
      <4> QED  BY <1>1, <2>1, <2>4, <4>2 DEF Typed, WireOK, SaidGoodbye
    <3>3. CASE ~ (state = "open" /\ ws = "open")
      BY <1>1, <2>1, <3>1, <3>3 DEF Typed, WireOK
    <3> QED  BY <3>2, <3>3
  <2>10. ws' \in {"connecting", "open", "closing", "gone"} /\ up' \in Seq(Messages)
        /\ down' \in Seq(Messages) /\ peer' \in [authed : BOOLEAN, subs : SUBSET Channels]
    BY <1>1, <2>1, <2>9 DEF TypeOK
  <2>11. active' => \A x \in Elems(map) : x.at \in Calls => x.at \in asked
    BY <1>6, MayCloseNow
  <2>12. ws' = "open" => \/ SaidGoodbye'
                         \/ /\ \E g \in Elems(calls) : g.do = "wsclose"
                            /\ \A x \in Elems(map) : x.at \in Calls => x.at \in asked
    <3>1. CASE state = "open"
      BY <2>1, <2>9, <3>1
    <3>2. CASE state # "open"
      <4>1. \A x \in Elems(map) : x.at = Handshake
        BY <1>1, <1>6, <3>2 DEF TypeOK, Disciplined
      <4>2. \E g \in Elems(calls) : g.do = "wsclose"
        BY <2>3, <2>8
      <4> QED  BY <4>1, <4>2, NamesDiffer
    <3> QED  BY <3>1, <3>2
  <2>13. chan \in [Channels -> [st : {"none", "unsubscribed", "pending", "subscribed"}, cid : 0 .. MaxCid,
                                 torn : BOOLEAN]]
    BY <1>1 DEF TypeOK
  <2> HIDE DEF SaidGoodbye
  <2> QED  BY <1>4, <1>6, <2>1, <2>2, <2>8, <2>9, <2>10, <2>11, <2>12, <2>13, ClosingKeeps
<1> QED  BY <1>5, <1>6

\* destroy() and the handler of beforeunload.
LEMMA PageDestroysKeeps ==
    ASSUME IInv, PageDestroys \/ PageUnloads PROVE IInv'
<1>1. CASE PageDestroys
  BY <1>1, DisconnectKeeps DEF PageDestroys, Destroy, Remainder
<1>2. CASE PageUnloads
  <2>1. active \in BOOLEAN
    BY Parts DEF TypeOK
  <2> QED  BY <1>2, <2>1, DisconnectKeeps DEF PageUnloads, Unload, From, Remainder, selfVars
<1> QED  BY <1>1, <1>2

-----------------------------------------------------------------------------
(***************************************************************************)
(* The invariant is inductive.                                             *)
(***************************************************************************)

\* The constructor establishes it.
LEMMA InitIInv == Init => IInv
<1> SUFFICES ASSUME Init PROVE IInv
  OBVIOUS
<1>1. /\ Elems(<<>>) = {} /\ <<>> \in Seq(Messages) /\ <<>> \in Seq(Frames) /\ <<>> \in Seq(Entries)
      /\ <<>> \in Seq(Calls \cup Casts)
      /\ \A R : Pairwise(<<>>, R)
  BY ElemsOfFew, PairwiseFew
<1>2. /\ active = TRUE /\ state = "connecting" /\ ws = "connecting"
      /\ auth = FALSE /\ token \in BOOLEAN
      /\ preparing = FALSE /\ tried = FALSE /\ retry = "none" /\ code = 0
      /\ up = <<>> /\ down = <<>> /\ peer = Stranger
      /\ buffer = <<>> /\ map = <<>> /\ asked = {}
      /\ chan = [c \in Channels |-> NoChannel]
      /\ stack = <<>>
  BY DEF Init
<1>3. /\ Elems(stack) = {} /\ Elems(map) = {} /\ Elems(up) = {} /\ Elems(down) = {} /\ Elems(buffer) = {}
      /\ \A do : ~ Doing(do)
  BY <1>1, <1>2 DEF Doing
<1>4. TypeOK
  <2>1. chan \in [Channels -> [st : {"none", "unsubscribed", "pending", "subscribed"}, cid : 0 .. MaxCid,
                               torn : BOOLEAN]]
    <3>1. 0 \in 0 .. MaxCid
      BY SCClientAssumption
    <3> QED  BY <1>2, <3>1 DEF NoChannel
  <2>2. peer \in [authed : BOOLEAN, subs : SUBSET Channels]
    BY <1>2 DEF Stranger
  <2> QED  BY <1>1, <1>2, <2>1, <2>2 DEF TypeOK
<1>5. Typed /\ Nested /\ Held
  BY <1>1, <1>2, <1>3, <1>4 DEF Typed, WireOK, Nested, Held
<1>6. Disciplined /\ WillRetry /\ Failing /\ Calling
  BY <1>2, <1>3 DEF Disciplined, WillRetry, Failing, Calling
<1>7. Walking /\ TimedOut /\ Owned
  BY <1>2, <1>3 DEF Walking, TimedOut, Owned
<1>8. Leaving /\ Requested
  BY <1>2 DEF Leaving, Requested, NoChannel
<1> QED  BY <1>5, <1>6, <1>7, <1>8 DEF IInv

\* Every step of the library, the browser, the server and the page keeps it.
LEMMA StepKeeps == IInv /\ [Next]_vars => IInv'
<1> SUFFICES ASSUME IInv, [Next]_vars PROVE IInv'
  OBVIOUS
<1>1. CASE Library
  <2>1. CASE AbortBuffered \/ TryReconnect \/ CloseWebSocket \/ FailPending
    BY <2>1, AbortBufferedKeeps, TryReconnectKeeps, CloseWebSocketKeeps, FailPendingKeeps
  <2>2. CASE TrySubscribe \/ AssignCid \/ Flush \/ FlushAll
    BY <2>2, TrySubscribeKeeps, AssignCidKeeps, FlushKeeps, FlushAllKeeps
  <2>3. CASE Respond \/ Connected \/ CancelResponse
    BY <2>3, RespondKeeps, ConnectedKeeps, CancelResponseKeeps
  <2> QED  BY <1>1, <2>1, <2>2, <2>3 DEF Library
<1>2. CASE Browser
  <2>1. CASE WsOpen \/ WsError \/ ConnectTimeout \/ PingTimeout \/ WsClose \/ WsClosing
    BY <2>1, WsOpenKeeps, BrokenKeeps, WsClosingKeeps
  <2>2. CASE ReconnectTimer \/ ReceiveAnswer \/ ReceiveEvent \/ HandshakeTimeout
    BY <2>2, ReconnectTimerKeeps, ReceiveAnswerKeeps, ReceiveEventKeeps, HandshakeTimeoutKeeps
  <2>3. CASE \E e \in Calls : AckTimeout(e)
    BY <2>3, AckTimeoutKeeps
  <2> QED  BY <1>2, <2>1, <2>2, <2>3 DEF Browser
<1>3. CASE Peer
  BY <1>3, PeerKeeps
<1>4. CASE Page
  BY <1>4, PageEmitsKeeps, PageSubscribesKeeps, PageUnsubscribesKeeps, PageDestroysKeeps, PageReturnsKeeps
  DEF Page
<1>5. CASE UNCHANGED vars
  <2>1. UNCHANGED <<selfVars, linkVars, stack, wireVars>>
    BY <1>5 DEF vars, selfVars, linkVars, wireVars
  <2>2. TypeOK /\ WireOK
    BY Parts DEF Typed
  <2>3. /\ ws' \in {"connecting", "open", "closing", "gone"} /\ up' \in Seq(Messages) /\ down' \in Seq(Messages)
        /\ peer' \in [authed : BOOLEAN, subs : SUBSET Channels] /\ WireOK' /\ ws' = ws
        /\ (SaidGoodbye => SaidGoodbye')
    BY <2>1, <2>2 DEF TypeOK, WireOK, SaidGoodbye, wireVars
  <2> QED  BY <2>1, <2>3, WireKeeps
<1> QED  BY <1>1, <1>2, <1>3, <1>4, <1>5 DEF Next

\* The invariant of the client.
THEOREM Inductive == Spec => []IInv
<1>1. Init => IInv
  BY InitIInv
<1>2. IInv /\ [Next]_vars => IInv'
  BY StepKeeps
<1> QED  BY <1>1, <1>2, PTL DEF Spec

-----------------------------------------------------------------------------
(***************************************************************************)
(* What follows from it.                                                   *)
(***************************************************************************)

\* Every variable of SCClientSocket and SCTransport keeps its type.
THEOREM TypeCorrect == Spec => []TypeOK
<1>1. IInv => TypeOK
  BY Parts
<1> QED  BY <1>1, Inductive, PTL

\* How many there are of what there is at most one of.
LEMMA AtMostOne ==
    ASSUME NEW I, \A i, j \in I : i = j
    PROVE  Cardinality(I) = IF I = {} THEN 0 ELSE 1
<1>1. CASE I = {}
  BY <1>1, FS_EmptySet
<1>2. CASE I # {}
  <2>1. PICK i \in I : TRUE
    BY <1>2
  <2>2. I = {i}
    BY <2>1
  <2>3. Cardinality({i}) = 1
    BY FS_Singleton
  <2> QED  BY <1>2, <2>2, <2>3
<1> QED  BY <1>1, <1>2

\* A call waits in one place.
LEMMA InOnePlace == IInv => CallsHeld
<1> SUFFICES ASSUME IInv, NEW e \in asked PROVE Places(e) = 1
  BY DEF CallsHeld
<1>1. /\ Typed /\ Nested /\ Held /\ TypeOK
  BY Parts
<1>2. /\ buffer \in Seq(Calls \cup Casts) /\ map \in Seq(Entries) /\ stack \in Seq(Frames) /\ e \in Calls
      /\ Pairwise(buffer, EventsDiffer) /\ Pairwise(map, EntriesDiffer) /\ Pairwise(stack, Nesting)
  BY <1>1 DEF TypeOK, Nested, Held
<1> DEFINE B == {i \in DOMAIN buffer : buffer[i] = e}
           M == {i \in DOMAIN map : map[i].at = e}
           F == {i \in DOMAIN stack : stack[i].do = "fail" /\ stack[i].at = e}
<1>3. Cardinality(B) = IF InBuffer(e) THEN 1 ELSE 0
  <2>1. \A i, j \in B : i = j
    <3>1. \A i, j \in DOMAIN buffer : i < j => buffer[i] # buffer[j]
      <4>1. \A i, j \in DOMAIN buffer : i < j => <<buffer[i], buffer[j]>> \in EventsDiffer
        BY <1>2 DEF Pairwise
      <4> QED  BY <4>1 DEF EventsDiffer
    <3>2. \A i, j \in B : i \in Nat /\ j \in Nat /\ ~ (i < j) /\ ~ (j < i)
      BY <1>2, <3>1
    <3> QED  BY <3>2
  <2>2. B = {} <=> ~ InBuffer(e)
    BY DEF InBuffer, Elems
  <2> QED  BY <2>1, <2>2, AtMostOne
<1>4. Cardinality(M) = IF InMap(e) THEN 1 ELSE 0
  <2>1. \A i, j \in M : i = j
    <3>1. \A i, j \in DOMAIN map : i < j => ~ (map[i].at = e /\ map[j].at = e)
      <4>1. \A i, j \in DOMAIN map : i < j => <<map[i], map[j]>> \in EntriesDiffer
        BY <1>2 DEF Pairwise
      <4> QED  BY ZenonT(60), <1>2, <4>1 DEF EntriesDiffer
    <3>2. \A i, j \in M : i \in Nat /\ j \in Nat /\ ~ (i < j) /\ ~ (j < i)
      BY <1>2, <3>1
    <3> QED  BY <3>2
  <2>2. M = {} <=> ~ InMap(e)
    BY DEF InMap, Elems
  <2> QED  BY <2>1, <2>2, AtMostOne
<1>5. Cardinality(F) = IF InFails(e) THEN 1 ELSE 0
  <2>1. \A i, j \in F : i = j
    <3>1. \A i, j \in DOMAIN stack : i < j =>
            ~ (stack[i].do = "fail" /\ stack[i].at = e /\ stack[j].do = "fail" /\ stack[j].at = e)
      <4>1. \A i, j \in DOMAIN stack : i < j => <<stack[i], stack[j]>> \in Nesting
        BY <1>2 DEF Pairwise
      <4>2. \A i, j \in DOMAIN stack : i < j => FailsDiffer(stack[i], stack[j])
        BY <4>1 DEF Nesting, Fits
      <4> QED  BY <1>2, <4>2 DEF FailsDiffer
    <3>2. \A i, j \in F : i \in Nat /\ j \in Nat /\ ~ (i < j) /\ ~ (j < i)
      BY <1>2, <3>1
    <3> QED  BY <3>2
  <2>2. F = {} <=> ~ InFails(e)
    BY DEF InFails, Elems
  <2> QED  BY <2>1, <2>2, AtMostOne
<1>6. /\ InBuffer(e) \/ InMap(e) \/ InFails(e)
      /\ ~ (InBuffer(e) /\ InMap(e)) /\ ~ (InBuffer(e) /\ InFails(e)) /\ ~ (InMap(e) /\ InFails(e))
  BY <1>1 DEF Held
<1>7. Places(e) = Cardinality(B) + Cardinality(M) + Cardinality(F)
  BY DEF Places
<1> HIDE DEF B, M, F
<1> QED  BY <1>3, <1>4, <1>5, <1>6, <1>7

\* A call whose callback was not called yet is in the emit buffer, in the callback map or
\* in the loop that rejects pending calls, and in one of them: _flushEmitBuffer,
\* emitObject and both _abortAllPendingEventsDueToBadConnection neither lose nor double it.
THEOREM CallIsHeld == Spec => []CallsHeld
<1> QED  BY Inductive, InOnePlace, PTL

\* A callback is called once.
LEMMA OneAnswer == IInv => CalledOnce
<1> SUFFICES ASSUME IInv, NEW i \in DOMAIN stack, stack[i].do \in {"answered", "refused"}
             PROVE  /\ stack[i].at \notin asked
                    /\ \A j \in DOMAIN stack : j # i =>
                          ~ (stack[j].do \in {"answered", "refused"} /\ stack[j].at = stack[i].at)
  BY DEF CalledOnce
<1>1. stack \in Seq(Frames) /\ Pairwise(stack, Nesting) /\ Calling
  BY Parts DEF TypeOK, Nested
<1>2. stack[i].at \notin asked
  BY <1>1 DEF Calling, Callbacks, Elems
<1>3. \A k, l \in DOMAIN stack : k < l => CallsDiffer(stack[k], stack[l])
  <2>1. \A k, l \in DOMAIN stack : k < l => <<stack[k], stack[l]>> \in Nesting
    BY <1>1 DEF Pairwise
  <2> QED  BY <2>1 DEF Nesting, Fits
<1>4. ASSUME NEW j \in DOMAIN stack, j # i, stack[j].do \in {"answered", "refused"}, stack[j].at = stack[i].at
      PROVE  FALSE
  <2>1. i < j \/ j < i
    BY <1>1, <1>4
  <2> QED  BY <1>3, <1>4, <2>1 DEF CallsDiffer, Callbacks
<1> QED  BY <1>2, <1>4

\* While a callback runs its call is not held any more, and no other frame of the task
\* calls it too (delete eventObject.callback).
THEOREM CallIsAnsweredOnce == Spec => []CalledOnce
<1> QED  BY Inductive, OneAnswer, PTL

\* A client that lost its connection, and was not told to stay away, has its reconnect
\* timer armed between tasks (_onSCClose, _tryReconnect).
THEOREM ClientComesBack == Spec => []ComesBack
<1>1. IInv => ComesBack
  <2> SUFFICES ASSUME IInv, Idle, active, state = "closed" PROVE retry # "none" \/ code = 1000 \/ code >= 4500
    BY DEF ComesBack
  <2>1. Elems(stack) = {} /\ WillRetry
    BY Parts, Resting
  <2> QED  BY <2>1 DEF WillRetry, ForGood
<1> QED  BY <1>1, Inductive, PTL

\* A WebSocket the client gave up without closing it has carried a '#disconnect': the
\* exception that skips socket.close comes only from a call that timed out, and such a
\* call is rejected only by disconnect().
THEOREM ClientSaysFarewell == Spec => []Farewell
<1>1. IInv => Farewell
  <2> SUFFICES ASSUME IInv, Idle, state = "closed", ws = "open" PROVE \E m \in Elems(up) : m.ev = "disconnect"
    BY DEF Farewell
  <2>1. Elems(stack) = {} /\ Leaving
    BY Parts, Resting
  <2> QED  BY <2>1 DEF Leaving, SaidGoodbye, Doing
<1> QED  BY <1>1, Inductive, PTL

\* Between tasks the request a channel waits for is in the callback map, and an open
\* client has asked for every pending channel, but for a request torn by the send that
\* closed the transport (_trySubscribe, _suspendSubscriptions).
THEOREM RequestIsHeld == Spec => []RequestsHeld
<1>1. IInv => RequestsHeld
  <2> SUFFICES ASSUME IInv, Idle, NEW c \in Channels, ~ chan[c].torn
               PROVE  /\ chan[c].cid # 0 => [cid |-> chan[c].cid, at |-> c] \in Elems(map)
                      /\ state = "open" /\ chan[c].st = "pending" => chan[c].cid # 0
    BY DEF RequestsHeld
  <2>1. Elems(stack) = {} /\ Requested
    BY Parts, Resting
  <2> QED  BY <2>1 DEF Requested, Doing
<1> QED  BY <1>1, Inductive, PTL

\* A destroyed client never opens another connection: connect() refuses the reconnect
\* timer and the page alike, and a closed client has no transport left to open.
THEOREM DestroyedForGood == Spec => DestroyedStays
<1> DEFINE Stays == ~ active => ~ active' /\ (state = "closed" => state' = "closed")
<1>1. IInv /\ IInv' /\ [Next]_vars => [Stays]_vars
  <2> SUFFICES ASSUME IInv, IInv', Next PROVE Stays
    OBVIOUS
  <2>1. active' => active
    <3>1. CASE Library
      BY <3>1 DEF Library, AbortBuffered, TryReconnect, CloseWebSocket, FailPending, TrySubscribe, AssignCid,
                  Flush, FlushAll, Respond, Connected, CancelResponse, selfVars
    <3>2. CASE Browser
      <4>1. CASE WsOpen \/ ConnectTimeout \/ PingTimeout \/ WsClosing
        <5>1. UNCHANGED selfVars
          BY <4>1 DEF WsOpen, ConnectTimeout, PingTimeout, WsClosing
        <5> QED  BY <5>1 DEF selfVars
      <4>2. CASE WsError \/ WsClose
        <5>1. UNCHANGED selfVars
          BY <4>2 DEF WsError, WsClose, WsClosed
        <5> QED  BY <5>1 DEF selfVars
      <4>4. CASE ReconnectTimer \/ HandshakeTimeout
        <5>1. UNCHANGED selfVars
          BY <4>4 DEF ReconnectTimer, HandshakeTimeout
        <5> QED  BY <5>1 DEF selfVars
      <4>5. CASE ReceiveEvent
        BY <4>5 DEF ReceiveEvent
      <4>3. CASE ReceiveAnswer \/ \E e \in Calls : AckTimeout(e)
        BY <4>3 DEF ReceiveAnswer, AckTimeout
      <4> QED  BY <3>2, <4>1, <4>2, <4>3, <4>4, <4>5 DEF Browser
    <3>3. CASE Peer
      BY <3>3 DEF Peer, PeerHandshake, PeerLogin, PeerSubscribe, PeerUnsubscribe, PeerIgnores,
                  PeerDisconnect, PeerPublish, selfVars
    <3>4. CASE Page
      BY <3>4 DEF Page, PageEmits, PageSubscribes, PageUnsubscribes, PageDestroys, PageUnloads, PageReturns,
                  Emit, Subscribe, DestroyChannel, Destroy, Unload, selfVars
    <3> QED  BY <3>1, <3>2, <3>3, <3>4 DEF Next
  <2>2. Disciplined'
    BY DEF IInv
  <2> QED  BY <2>1, <2>2 DEF Disciplined
<1> QED  BY <1>1, Inductive, PTL DEF Spec, DestroyedStays

-----------------------------------------------------------------------------
(***************************************************************************)
(* The client's record of the channels and the server's.                   *)
(***************************************************************************)

\* What the server is yet to be told about c.
About(m, c) == m.ev \in {"subscribe", "unsubscribe"} /\ m.at = c
Untold(c)   == \A m \in Elems(up) : ~ About(m, c)
LastWord(i, c) ==
    /\ i \in DOMAIN up /\ About(up[i], c)
    /\ \A j \in DOMAIN up : j > i => ~ About(up[j], c)

\* The client awaits the answer to a subscribe: it is on its way, or the answer is.
Waiting(c) == chan[c].cid # 0 /\ ~ chan[c].torn
Asking(c) ==
    \E i \in DOMAIN up :
        /\ LastWord(i, c) /\ up[i].ev = "subscribe" /\ up[i].cid = chan[c].cid
        /\ \A j \in DOMAIN up : j # i => up[j].cid # chan[c].cid
        /\ \A m \in Elems(down) : m.cid # chan[c].cid
Told(c) ==
    /\ Untold(c)
    /\ \A m \in Elems(up) : m.cid # chan[c].cid
    /\ \E m \in Elems(down) : m.cid = chan[c].cid
    /\ \A m \in Elems(down) : m.cid = chan[c].cid => m.ev = "answer" /\ (m.ok <=> c \in peer.subs)

\* It awaits none: the server delivers c, or does not, or will not once it has read on.
Known(c)   == Untold(c) /\ c \in peer.subs
Unknown(c) == \/ Untold(c) /\ c \notin peer.subs
              \/ \E i \in DOMAIN up : LastWord(i, c) /\ up[i].ev = "unsubscribe"

Agreed(c) ==
    /\ Waiting(c) => chan[c].st = "pending" /\ (Asking(c) \/ Told(c))
    /\ ~ Waiting(c) /\ chan[c].st = "subscribed" => Known(c)
    /\ ~ Waiting(c) /\ chan[c].st # "subscribed" => Unknown(c)

\* An open client agrees with the server about each channel.
Agreeing == state = "open" /\ ws = "open" => \A c \in Channels : Agreed(c)

\* The channels a loop still has to ask for are pending, and nothing comes between.
Trying ==
    state = "open" =>
        /\ \A f \in Elems(stack) : f.do # "cid"
        /\ stack # <<>> => \A f \in Elems(Tail(stack)) : f.do # "tries"
        /\ Step("tries") => \A c \in Top.of : chan[c].st = "pending"

\* Before the answer to the handshake nothing is subscribed.
NotYet == active /\ state # "open" => \A c \in Channels : ~ Waiting(c) /\ chan[c].st # "subscribed"
Introduced ==
    /\ peer.subs # {} => peer.authed
    /\ \A i \in DOMAIN up : up[i].ev = "handshake" => i = 1 /\ peer.subs = {}
    /\ state = "connecting" => peer.subs = {} /\ \A c \in Channels : Untold(c)

\* The request in the callback map is the channel's own.
Current ==
    active => \A x \in Elems(map) : x.at \in Channels =>
                  chan[x.at].cid = x.cid /\ ~ chan[x.at].torn /\ chan[x.at].st = "pending"

\* A torn request has a call id.
Torn == \A c \in Channels : chan[c].torn => chan[c].cid # 0

\* The inductive invariant of Agreement, relative to IInv.
AInv == Agreeing /\ Trying /\ NotYet /\ Introduced /\ Current /\ Torn

\* A message that is not about c is appended.
LEMMA AgreedAppend ==
    ASSUME NEW c \in Channels, Agreed(c), up \in Seq(Messages), NEW m \in Messages, ~ About(m, c),
           Waiting(c) => m.cid # chan[c].cid, up' = Append(up, m), chan'[c] = chan[c],
           UNCHANGED <<down, peer>>
    PROVE  Agreed(c)'
<1>1. /\ Len(up') = Len(up) + 1 /\ Len(up) \in Nat /\ DOMAIN up = 1 .. Len(up) /\ DOMAIN up' = 1 .. Len(up')
      /\ \A i \in 1 .. Len(up) : up'[i] = up[i]
      /\ up'[Len(up) + 1] = m
  OBVIOUS
<1>2. Elems(up') = Elems(up) \cup {m}
  BY ElemsOfAppend
<1>3. \A i \in DOMAIN up : LastWord(i, c) => i \in DOMAIN up' /\ LastWord(i, c)' /\ up'[i] = up[i]
  BY <1>1 DEF LastWord
<1>4. Untold(c) => Untold(c)'
  BY <1>2 DEF Untold
<1>5. Waiting(c)' <=> Waiting(c)
  BY DEF Waiting
<1>6. Waiting(c) /\ Asking(c) => Asking(c)'
  BY <1>1, <1>3 DEF Asking
<1>7. Waiting(c) /\ Told(c) => Told(c)'
  BY <1>2, <1>4 DEF Told
<1>8. (Known(c) => Known(c)') /\ (Unknown(c) => Unknown(c)')
  BY <1>3, <1>4 DEF Known, Unknown
<1> QED  BY <1>5, <1>6, <1>7, <1>8 DEF Agreed

\* When the first message is read the others move up.
LEMMA LastWordTail ==
    ASSUME NEW c \in Channels, up \in Seq(Messages), up # <<>>, up' = Tail(up)
    PROVE  \A i \in DOMAIN up : LastWord(i, c) /\ i # 1 =>
              i - 1 \in DOMAIN up' /\ LastWord(i - 1, c)' /\ up'[i - 1] = up[i]
<1>1. /\ Len(up') = Len(up) - 1 /\ Len(up) \in Nat /\ Len(up) > 0 /\ DOMAIN up = 1 .. Len(up)
      /\ DOMAIN up' = 1 .. Len(up')
      /\ \A i \in 1 .. Len(up') : up'[i] = up[i + 1]
  BY HeadTailProperties
<1> SUFFICES ASSUME NEW i \in DOMAIN up, LastWord(i, c), i # 1
             PROVE  i - 1 \in DOMAIN up' /\ LastWord(i - 1, c)' /\ up'[i - 1] = up[i]
  OBVIOUS
<1>2. i - 1 \in 1 .. Len(up') /\ up'[i - 1] = up[i]
  BY <1>1
<1>3. \A j \in 1 .. Len(up') : j > i - 1 => j + 1 \in DOMAIN up /\ j + 1 > i /\ up'[j] = up[j + 1]
  BY <1>1, <1>2
<1> QED  BY <1>1, <1>2, <1>3 DEF LastWord

\* A message that is not about c is read, or none; what comes down names no request of c.
LEMMA AgreedTail ==
    ASSUME NEW c \in Channels, Agreed(c), up \in Seq(Messages), up # <<>>, ~ About(Head(up), c),
           up' = Tail(up), chan'[c] = chan[c], c \in peer'.subs <=> c \in peer.subs,
           \A x \in Elems(down') : x \in Elems(down) \/ x.cid \in {0, Head(up).cid},
           Elems(down) \subseteq Elems(down')
    PROVE  Agreed(c)'
<1>1. /\ Len(up') = Len(up) - 1 /\ Len(up) \in Nat /\ Len(up) > 0 /\ DOMAIN up = 1 .. Len(up)
      /\ DOMAIN up' = 1 .. Len(up')
      /\ \A i \in 1 .. Len(up') : up'[i] = up[i + 1]
      /\ Head(up) = up[1]
  BY HeadTailProperties
<1>2. Elems(up) = {Head(up)} \cup Elems(up')
  BY ElemsOfTail
<1>3. \A i \in DOMAIN up : LastWord(i, c) => i - 1 \in DOMAIN up' /\ LastWord(i - 1, c)' /\ up'[i - 1] = up[i]
  <2>1. \A i \in DOMAIN up : LastWord(i, c) => i # 1
    BY <1>1 DEF LastWord
  <2> QED  BY <2>1, LastWordTail
<1>4. Untold(c) => Untold(c)'
  BY <1>2 DEF Untold
<1>5. Waiting(c)' <=> Waiting(c)
  BY DEF Waiting
<1>6. Waiting(c) /\ Asking(c) => Asking(c)'
  <2> SUFFICES ASSUME Waiting(c), Asking(c) PROVE Asking(c)'
    OBVIOUS
  <2>1. PICK i \in DOMAIN up : /\ LastWord(i, c) /\ up[i].ev = "subscribe" /\ up[i].cid = chan[c].cid
                               /\ \A j \in DOMAIN up : j # i => up[j].cid # chan[c].cid
                               /\ \A m \in Elems(down) : m.cid # chan[c].cid
    BY DEF Asking
  <2>2. i - 1 \in DOMAIN up' /\ LastWord(i - 1, c)' /\ up'[i - 1] = up[i] /\ i # 1
    BY <1>1, <1>3, <2>1 DEF LastWord
  <2>3. \A j \in DOMAIN up' : j # i - 1 => up'[j].cid # chan'[c].cid
    <3>1. \A j \in 1 .. Len(up') : j # i - 1 => j + 1 \in DOMAIN up /\ j + 1 # i /\ up'[j] = up[j + 1]
      BY <1>1
    <3> QED  BY <1>1, <2>1, <3>1
  <2>4. Head(up).cid # chan[c].cid
    BY <1>1, <2>1, <2>2
  <2>5. \A m \in Elems(down') : m.cid # chan'[c].cid
    BY <2>1, <2>4 DEF Waiting
  <2> QED  BY <2>1, <2>2, <2>3, <2>5 DEF Asking
<1>7. Waiting(c) /\ Told(c) => Told(c)'
  BY <1>2, <1>4 DEF Told, Waiting
<1>8. (Known(c) => Known(c)') /\ (Unknown(c) => Unknown(c)')
  BY <1>3, <1>4 DEF Known, Unknown
<1> QED  BY <1>5, <1>6, <1>7, <1>8 DEF Agreed

\* Nothing is read or sent; what comes or goes names no request of c.
LEMMA AgreedSame ==
    ASSUME NEW c \in Channels, Agreed(c), chan'[c] = chan[c], UNCHANGED <<up, peer>>,
           Waiting(c) => \A x \in Elems(down) \cup Elems(down') :
                            x.cid = chan[c].cid => x \in Elems(down) /\ x \in Elems(down')
    PROVE  Agreed(c)'
<1>1. Waiting(c)' <=> Waiting(c)
  BY DEF Waiting
<1>2. (Untold(c)' <=> Untold(c)) /\ \A i \in DOMAIN up : LastWord(i, c) <=> LastWord(i, c)'
  BY DEF Untold, LastWord
<1>3. (Known(c)' <=> Known(c)) /\ (Unknown(c)' <=> Unknown(c))
  BY <1>2 DEF Known, Unknown
<1>4. Waiting(c) /\ Asking(c) => Asking(c)'
  BY <1>2 DEF Asking
<1>5. Waiting(c) /\ Told(c) => Told(c)'
  BY <1>2 DEF Told
<1> QED  BY <1>1, <1>3, <1>4, <1>5 DEF Agreed

\* A stack without channels to ask for.
LEMMA TryingPops ==
    ASSUME IInv, Trying, stack' \in Seq(Frames), state' = "open" => state = "open",
           \A f \in Elems(stack') : f.do \notin {"tries", "cid"} \/ (stack # <<>> /\ f \in Elems(Tail(stack)))
    PROVE  Trying'
<1> SUFFICES ASSUME state' = "open" PROVE Trying'
  BY DEF Trying
<1>1. \A f \in Elems(stack) : f.do # "cid"
  BY DEF Trying
<1>2. stack # <<>> => /\ \A f \in Elems(Tail(stack)) : f.do # "tries"
                      /\ Elems(Tail(stack)) \subseteq Elems(stack)
  BY Popped, Parts DEF Trying
<1>3. \A f \in Elems(stack') : f.do \notin {"tries", "cid"}
  BY <1>1, <1>2
<1>4. stack' # <<>> => Head(stack') \in Elems(stack') /\ Elems(Tail(stack')) \subseteq Elems(stack')
  BY ElemsOfTail
<1> QED  BY <1>3, <1>4 DEF Trying, Step

\* A step of the client that sends nothing and leaves the channels alone.
LEMMA ClientAgrees ==
    ASSUME AInv, Trying', UNCHANGED <<state, ws, up, down, peer, chan>>, active' => active,
           \A x \in Elems(map') : x \in Elems(map) \/ x.at \notin Channels
    PROVE  AInv'
<1>1. Agreeing'
  BY AgreedSame DEF AInv, Agreeing
<1>2. NotYet'
  BY DEF AInv, NotYet, Waiting
<1>3. Introduced'
  BY DEF AInv, Introduced, Untold
<1>4. Current'
  BY DEF AInv, Current
<1>5. Torn'
  BY DEF AInv, Torn
<1> QED  BY <1>1, <1>2, <1>3, <1>4, <1>5 DEF AInv

\* One that sends a message, but no subscribe, unsubscribe or handshake.
LEMMA SendAgrees ==
    ASSUME IInv, AInv, Trying', UNCHANGED <<state, ws, down, peer, chan>>, active' => active,
           NEW m \in Messages, m.ev \notin {"subscribe", "unsubscribe", "handshake"},
           up' = Append(up, m), m.cid = 0 \/ \A c \in Channels : chan[c].cid # m.cid,
           \A x \in Elems(map') : x \in Elems(map) \/ x.at \notin Channels
    PROVE  AInv'
<1>0. up \in Seq(Messages)
  BY Parts DEF TypeOK
<1>1. Agreeing'
  <2> SUFFICES ASSUME state = "open", ws = "open", NEW c \in Channels PROVE Agreed(c)'
    BY DEF Agreeing
  <2>1. Agreed(c) /\ ~ About(m, c) /\ (Waiting(c) => m.cid # chan[c].cid)
    BY DEF AInv, Agreeing, About, Waiting
  <2> QED  BY <1>0, <2>1, AgreedAppend
<1>2. NotYet'
  BY DEF AInv, NotYet, Waiting
<1>3. Introduced'
  <2>1. Elems(up') = Elems(up) \cup {m}
    BY <1>0, ElemsOfAppend
  <2>2. \A c \in Channels : Untold(c) => Untold(c)'
    BY <2>1 DEF Untold, About
  <2>3. \A i \in DOMAIN up' : up'[i].ev = "handshake" => i \in DOMAIN up /\ up'[i] = up[i]
    BY <1>0
  <2> QED  BY <2>2, <2>3 DEF AInv, Introduced
<1>4. Current'
  BY DEF AInv, Current
<1>5. Torn'
  BY DEF AInv, Torn
<1> QED  BY <1>1, <1>2, <1>3, <1>4, <1>5 DEF AInv

\* A transport that is closed.
LEMMA ClosingAgrees ==
    ASSUME AInv, state # "closed", NEW how, NEW buf, NEW mp, NEW ch, NEW rest,
           ShutDown(how, buf, mp, ch, rest), Introduced'
    PROVE  AInv'
<1>1. state' = "closed" /\ map' = <<>> /\ chan' = [c \in Channels |-> Suspended(ch[c])]
  BY DEF ShutDown
<1>2. \A c \in Channels : ~ Waiting(c)' /\ chan'[c].st # "subscribed" /\ ~ chan'[c].torn
  BY <1>1 DEF Suspended, NoChannel, Waiting
<1>3. Elems(map') = {}
  BY <1>1, ElemsOfFew
<1> QED  BY <1>1, <1>2, <1>3 DEF AInv, Agreeing, Trying, NotYet, Current, Torn

\* Its WebSocket is as it was, is gone, or has been sent the '#disconnect'.
LEMMA IntroducedStill ==
    ASSUME IInv, Introduced, state' = state \/ state' = "closed",
           \/ UNCHANGED <<up, peer>>
           \/ Gone
           \/ up' = Append(up, Message("disconnect", None, 0, TRUE)) /\ peer' = peer /\ state' = "closed"
    PROVE  Introduced'
<1>1. CASE UNCHANGED <<up, peer>>
  BY <1>1 DEF Introduced, Untold
<1>2. CASE Gone
  <2>1. DOMAIN up' = {} /\ Elems(up') = {} /\ peer'.subs = {}
    BY <1>2, ElemsOfFew DEF Gone, Stranger
  <2> QED  BY <2>1 DEF Introduced, Untold
<1>3. CASE up' = Append(up, Message("disconnect", None, 0, TRUE)) /\ peer' = peer /\ state' = "closed"
  <2>1. Message("disconnect", None, 0, TRUE) \in Messages /\ Message("disconnect", None, 0, TRUE).ev = "disconnect"
    <3>1. None \in Names /\ "disconnect" \in Evs /\ 0 \in 0 .. MaxCid
      BY NamesDiffer, SCClientAssumption DEF Evs
    <3> QED  BY <3>1, MessageIs
  <2> DEFINE m == Message("disconnect", None, 0, TRUE)
  <2> HIDE DEF m
  <2>2. m \in Messages /\ m.ev = "disconnect" /\ up' = Append(up, m) /\ up \in Seq(Messages)
    BY <1>3, <2>1, Parts DEF m, TypeOK
  <2>3. \A i \in DOMAIN up' : up'[i].ev = "handshake" => i \in DOMAIN up /\ up'[i] = up[i]
    BY <2>2
  <2> QED  BY <1>3, <2>3 DEF Introduced
<1> QED  BY <1>1, <1>2, <1>3

\* The library's calls that send nothing.
LEMMA QuietAgrees ==
    ASSUME IInv, AInv, IInv',
           AbortBuffered \/ TryReconnect \/ CloseWebSocket \/ FlushAll \/ CancelResponse \/ PageReturns
    PROVE  AInv'
<1>0. stack' \in Seq(Frames) /\ TypeOK /\ Disciplined
  BY Parts DEF TypeOK, IInv, Typed
<1>1. CASE AbortBuffered
  <2>1. stack # <<>> /\ Top.do = "abort" /\ UNCHANGED <<active, state, map, chan, wireVars>>
    BY <1>1 DEF AbortBuffered, Step, Top
  <2>2. state = "closed"
    BY <1>0, <2>1, Popped, Parts DEF Disciplined, Closers
  <2>3. Trying'
    BY <2>1, <2>2 DEF Trying
  <2> QED  BY <2>1, <2>3, ClientAgrees DEF wireVars
<1>2. CASE TryReconnect
  <2>1. stack # <<>> /\ Top.do = "retry" /\ UNCHANGED <<active, state, map, chan, wireVars>>
    BY <1>2 DEF TryReconnect, Step, Top
  <2>2. state = "closed"
    BY <1>0, <2>1, Popped, Parts DEF Disciplined, Closers
  <2>3. Trying'
    BY <2>1, <2>2 DEF Trying
  <2> QED  BY <2>1, <2>3, ClientAgrees DEF wireVars
<1>3. CASE CloseWebSocket
  <2>1. stack # <<>> /\ Top.do = "wsclose" /\ Gone /\ UNCHANGED <<active, state, map, chan>>
    BY <1>3 DEF CloseWebSocket, Step, Top, selfVars, linkVars
  <2>2. state = "closed"
    BY <1>0, <2>1, Popped, Parts DEF Disciplined, Closers
  <2>3. Introduced'
    BY <2>1, IntroducedStill DEF AInv
  <2> QED  BY <2>1, <2>2, <2>3 DEF AInv, Agreeing, Trying, NotYet, Waiting, Current, Torn
<1>4. CASE FlushAll
  <2>1. stack # <<>> /\ UNCHANGED <<active, state, map, chan, up, down, peer, ws>>
    BY <1>4 DEF FlushAll, Step, selfVars, linkVars, wireVars
  <2> DEFINE f1 == Frame("flush", First(buffer))
             t  == Tail(stack)
  <2>2. stack' = (IF state = "open" THEN <<f1>> ELSE <<>>) \o t
    BY <1>4 DEF FlushAll
  <2>3. f1 \in Frames /\ f1.do = "flush"
    <3>1. First(buffer) \in Names
      BY <1>0, FirstTyped, NamesDiffer DEF TypeOK
    <3> QED  BY <3>1, FrameIs, DosAre
  <2>4. t \in Seq(Frames)
    BY <2>1, Popped, Parts
  <2> HIDE DEF f1, t
  <2>5. \A f \in Elems(stack') : f.do \notin {"tries", "cid"} \/ f \in Elems(t)
    <3>1. <<f1>> \in Seq(Frames) /\ Elems(<<f1>>) = {f1}
      BY <2>3, Alone
    <3>2. Elems(<<f1>> \o t) = {f1} \cup Elems(t)
      <4> DEFINE s == <<f1>>
      <4> HIDE DEF s
      <4>1. s \in Seq(Frames) /\ Elems(s) = {f1}
        BY <3>1 DEF s
      <4>2. Elems(s \o t) = Elems(s) \cup Elems(t)
        BY <2>4, <4>1, ElemsOfConcat
      <4> QED  BY <4>1, <4>2 DEF s
    <3>3. <<>> \o t = t
      BY <2>4, Beside
    <3>4. stack' = t \/ stack' = <<f1>> \o t
      BY <2>2, <3>3, Zenon
    <3> QED  BY <2>3, <3>2, <3>4
  <2>6. Trying'
    <3>1. \A f \in Elems(stack') : f.do \notin {"tries", "cid"} \/ (stack # <<>> /\ f \in Elems(Tail(stack)))
      BY <2>1, <2>5 DEF t
    <3>2. Trying /\ (state' = "open" => state = "open")
      BY <2>1 DEF AInv
    <3> QED  BY <1>0, <3>1, <3>2, TryingPops, Zenon
  <2> QED  BY <2>1, <2>6, ClientAgrees
<1>5. CASE CancelResponse
  <2>1. stack # <<>> /\ stack' = Tail(stack) /\ UNCHANGED <<selfVars, state, chan, wireVars>>
        /\ map' = MinusName(map, Top.at)
    BY <1>5 DEF CancelResponse, Step, Top, MinusName
  <2>2. Trying'
    BY <1>0, <2>1, TryingPops DEF AInv
  <2>3. Elems(map') \subseteq Elems(map)
    BY <1>0, <2>1, WithoutName DEF TypeOK
  <2> QED  BY <2>1, <2>2, <2>3, ClientAgrees DEF selfVars, wireVars
<1>6. CASE PageReturns
  <2>1. stack # <<>> /\ stack' = Tail(stack) /\ UNCHANGED <<selfVars, linkVars, wireVars>>
    BY <1>6 DEF PageReturns, Step
  <2>2. Trying'
    BY <1>0, <2>1, TryingPops DEF AInv, linkVars
  <2> QED  BY <2>1, <2>2, ClientAgrees DEF selfVars, linkVars, wireVars
<1> QED  BY <1>1, <1>2, <1>3, <1>4, <1>5, <1>6

\* A loop over channels in front of the rest.
LEMMA TryingPushes ==
    ASSUME IInv, Trying, NEW f \in Frames, NEW s \in Seq(Frames), stack' = <<f>> \o s, f.do = "tries",
           \A g \in Elems(s) : g.do \notin {"tries", "cid"} \/ (stack # <<>> /\ g \in Elems(Tail(stack))),
           state' = "open" => state = "open" /\ \A c \in f.of : chan'[c].st = "pending"
    PROVE  Trying'
<1> SUFFICES ASSUME state' = "open" PROVE Trying'
  BY DEF Trying
<1>1. \A g \in Elems(stack) : g.do # "cid"
  BY DEF Trying
<1>2. stack # <<>> => /\ \A g \in Elems(Tail(stack)) : g.do # "tries"
                      /\ Elems(Tail(stack)) \subseteq Elems(stack)
  BY Popped, Parts DEF Trying
<1>3. \A g \in Elems(s) : g.do \notin {"tries", "cid"}
  BY <1>1, <1>2
<1>4. Head(stack') = f /\ Tail(stack') = s
  <2>1. Len(stack') = Len(s) + 1 /\ \A i \in 1 .. Len(s) : stack'[i + 1] = s[i]
    OBVIOUS
  <2>2. stack'[1] = f /\ stack' \in Seq(Frames)
    OBVIOUS
  <2>3. Len(Tail(stack')) = Len(s) /\ \A i \in 1 .. Len(s) : Tail(stack')[i] = s[i]
    BY <2>1, <2>2
  <2>4. Tail(stack') = s
    BY <2>2, <2>3
  <2> QED  BY <2>2, <2>4
<1>5. Elems(stack') = {f} \cup Elems(s)
  <2> DEFINE t == <<f>>
  <2>1. t \in Seq(Frames) /\ Elems(t) = {f} /\ stack' = t \o s
    BY Alone
  <2> HIDE DEF t
  <2>2. Elems(t \o s) = Elems(t) \cup Elems(s)
    BY <2>1, ElemsOfConcat
  <2> QED  BY <2>1, <2>2
<1> QED  BY <1>3, <1>4, <1>5 DEF Trying, Step, Top

\* SCTransport.send of a login, a publication or an answer.
LEMMA SendingAgrees ==
    ASSUME IInv, AInv, active' = active, stack # <<>>,
           NEW m \in Messages, m.ev \in {"login", "publish", "respond"},
           m.cid = 0 \/ \A c \in Channels : chan[c].cid # m.cid,
           NEW buf, NEW mp, \A x \in Elems(mp) : x \in Elems(map) \/ x.at \notin Channels,
           NEW rest \in Seq(Frames),
           \A f \in Elems(rest) : f.do \notin {"tries", "cid"} \/ f \in Elems(Tail(stack)),
           Send(m, buf, mp, chan, rest)
    PROVE  AInv'
<1>1. CASE ws = "open"
  <2>1. /\ up' = Append(up, m) /\ map' = mp /\ chan' = chan /\ stack' = rest
        /\ UNCHANGED <<state, ws, down, peer>>
    BY <1>1 DEF Send
  <2>2. Trying'
    BY <2>1, TryingPops DEF AInv
  <2>3. m.ev \notin {"subscribe", "unsubscribe", "handshake"} /\ UNCHANGED <<state, ws, down, peer, chan>>
    BY <2>1
  <2>4. \A x \in Elems(map') : x \in Elems(map) \/ x.at \notin Channels
    BY <2>1
  <2> QED  BY <2>1, <2>2, <2>3, <2>4, SendAgrees
<1>2. CASE ws # "open" /\ state = "closed"
  <2>1. map' = mp /\ chan' = chan /\ stack' = rest /\ UNCHANGED <<state, ws, up, down, peer>>
    BY <1>2 DEF Send, ShutDown, wireVars
  <2>2. Trying'
    BY <1>2, <2>1 DEF Trying
  <2>3. \A x \in Elems(map') : x \in Elems(map) \/ x.at \notin Channels
    BY <2>1
  <2> QED  BY <2>1, <2>2, <2>3, ClientAgrees
<1>3. CASE ws # "open" /\ state # "closed"
  <2>1. ShutDown(1005, buf, mp, chan, rest) /\ UNCHANGED <<up, peer>>
    BY <1>3 DEF Send, wireVars
  <2>2. state' = "closed"
    BY <1>3, <2>1 DEF ShutDown
  <2>3. Introduced'
    BY <2>1, <2>2, IntroducedStill DEF AInv
  <2> QED  BY <1>3, <2>1, <2>3, ClosingAgrees
<1> QED  BY <1>1, <1>2, <1>3

\* The answer to a '#setAuthToken'.
LEMMA RespondAgrees ==
    ASSUME IInv, AInv, Respond PROVE AInv'
<1> DEFINE m == Message("respond", None, 0, TRUE)
           t == Tail(stack)
<1>1. m \in Messages /\ m.ev = "respond" /\ m.cid = 0
  <2>1. None \in Names /\ "respond" \in Evs /\ 0 \in 0 .. MaxCid
    BY NamesDiffer, SCClientAssumption DEF Evs
  <2> QED  BY <2>1, MessageIs
<1>2. stack # <<>> /\ Send(m, buffer, map, chan, t) /\ active' = active
  BY DEF Respond, Step, selfVars
<1>3. t \in Seq(Frames)
  BY <1>2, Popped, Parts
<1> HIDE DEF m
<1> QED  BY <1>1, <1>2, <1>3, SendingAgrees

\* One event of the emit buffer.
LEMMA FlushAgrees ==
    ASSUME IInv, AInv, Flush PROVE AInv'
<1> DEFINE t    == Tail(stack)
           e    == Top.at
           buf  == Minus(buffer, e)
           next == Frame("flush", After(buffer, e))
           rest == <<next>> \o t
           m1(cid) == Message("login", e, cid, TRUE)
           x1(cid) == [cid |-> cid, at |-> e]
           m2 == Message("publish", e, 0, TRUE)
<1>1. /\ stack # <<>> /\ Top.do = "flush" /\ Top \in Frames /\ t \in Seq(Frames) /\ active' = active
  BY Popped, Parts DEF Step, Top, Flush, selfVars
<1>2. \/ e = None /\ stack' = t /\ UNCHANGED <<linkVars, wireVars>>
      \/ e \in asked /\ \E cid \in FreshCids : Send(m1(cid), buf, Append(map, x1(cid)), chan, rest)
      \/ e \notin asked \cup {None} /\ Send(m2, buf, map, chan, rest)
  BY DEF Flush, Minus
<1>3. e \in Names /\ asked \subseteq Calls /\ map \in Seq(Entries) /\ buffer \in Seq(Calls \cup Casts)
  BY <1>1, Parts DEF Frames, TypeOK
<1>4. next \in Frames /\ next.do = "flush"
  <2>1. After(buffer, e) \in Names
    BY <1>3, AfterTyped, NamesDiffer
  <2> QED  BY <2>1, FrameIs, DosAre
<1> HIDE DEF t, next
<1>5. rest \in Seq(Frames) /\ Elems(rest) = {next} \cup Elems(t)
  <2> DEFINE s == <<next>>
  <2>1. s \in Seq(Frames) /\ Elems(s) = {next} /\ rest = s \o t
    BY <1>4, Alone
  <2> HIDE DEF s, rest
  <2> QED  BY <1>1, <2>1, ElemsOfConcat
<1>6. \A f \in Elems(rest) : f.do \notin {"tries", "cid"} \/ f \in Elems(Tail(stack))
  BY <1>4, <1>5 DEF t
<1> HIDE DEF rest, buf
<1>7. CASE e = None /\ stack' = t /\ UNCHANGED <<linkVars, wireVars>>
  <2>1. UNCHANGED <<state, ws, up, down, peer, chan, map>>
    BY <1>7 DEF linkVars, wireVars
  <2>2. Trying'
    BY <1>1, <1>7, <2>1, TryingPops DEF AInv, t
  <2> QED  BY <1>1, <2>1, <2>2, ClientAgrees
<1>8. ASSUME e \in asked, NEW cid \in FreshCids, Send(m1(cid), buf, Append(map, x1(cid)), chan, rest)
      PROVE  AInv'
  <2> DEFINE m == m1(cid)
             x == x1(cid)
  <2>1. cid \in Cids /\ cid \in 0 .. MaxCid /\ \A c \in Channels : chan[c].cid # cid
    BY Fresh, SCClientAssumption DEF Cids
  <2>2. m \in Messages /\ m.ev = "login" /\ m.cid = cid
    <3>1. "login" \in Evs /\ TRUE \in BOOLEAN
      BY DEF Evs
    <3> HIDE DEF e
    <3> QED  BY <1>3, <2>1, <3>1, MessageIs, ZenonT(60)
  <2>3. x \in Entries /\ x.at = e /\ e \notin Channels
    BY <1>3, <1>8, <2>1, NamesDiffer DEF Entries
  <2>4. Send(m, buf, Append(map, x), chan, rest)
    BY <1>8
  <2> HIDE DEF m, x, e
  <2>5. Elems(Append(map, x)) = Elems(map) \cup {x}
    BY <1>3, <2>3, ElemsOfAppend
  <2> DEFINE mp == Append(map, x)
  <2>6. Send(m, buf, mp, chan, rest) /\ \A y \in Elems(mp) : y \in Elems(map) \/ y.at \notin Channels
    BY <2>3, <2>4, <2>5
  <2>7. m \in Messages /\ m.ev \in {"login", "publish", "respond"}
        /\ (m.cid = 0 \/ \A c \in Channels : chan[c].cid # m.cid)
    BY <2>1, <2>2
  <2> HIDE DEF mp
  <2> QED  BY <1>1, <1>5, <1>6, <2>6, <2>7, SendingAgrees
<1>9. CASE e \notin asked \cup {None} /\ Send(m2, buf, map, chan, rest)
  <2>1. m2 \in Messages /\ m2.ev = "publish" /\ m2.cid = 0
    <3>1. "publish" \in Evs /\ TRUE \in BOOLEAN /\ 0 \in 0 .. MaxCid
      BY SCClientAssumption DEF Evs
    <3> HIDE DEF e
    <3> QED  BY <1>3, <3>1, MessageIs, Zenon
  <2>2. Send(m2, buf, map, chan, rest)
    BY <1>9
  <2> HIDE DEF m2, e
  <2> QED  BY <1>1, <1>5, <1>6, <2>1, <2>2, SendingAgrees
<1> QED  BY <1>2, <1>7, <1>8, <1>9

\* The rejection of a pending call: the transport is closed.
LEMMA FailPendingAgrees ==
    ASSUME IInv, AInv, FailPending PROVE AInv'
<1> DEFINE e == Top.at
           left == FailsOf(Tail(stack))
<1>1. /\ stack # <<>> /\ Top.do = "fail" /\ Top \in Elems(stack)
  BY Popped, Parts DEF Step, Top, FailPending
<1>2. state = "closed" /\ Elems(map) = {}
  BY <1>1, Parts, ElemsOfFew DEF Disciplined, Closers, Failing, Doing
<1>3. /\ active' = active /\ state' = state
      /\ \/ e = Handshake /\ Gone /\ UNCHANGED <<map, chan>>
         \/ e \in asked /\ UNCHANGED <<map, chan, up, peer>>
         \/ /\ e \in Calls \ asked /\ UNCHANGED <<chan, up, peer>>
         \/ /\ e \in Channels /\ UNCHANGED <<map, up, peer>>
            /\ chan' = [chan EXCEPT ![e] = Settled(@, "unsubscribed")]
  BY DEF FailPending, selfVars, linkVars, wireVars
<1>4. Introduced'
  BY <1>3, IntroducedStill DEF AInv
<1>5. e \in Calls \ asked => ~ active
  BY <1>1, Parts DEF TimedOut
<1>6. \A c \in Channels : chan'[c] = chan[c] \/ (chan'[c].cid = 0 /\ ~ chan'[c].torn /\ chan'[c].st # "subscribed")
  <2>1. chan' = chan \/ (e \in Channels /\ chan' = [chan EXCEPT ![e] = Settled(chan[e], "unsubscribed")])
    BY <1>3
  <2>2. LET s == Settled(chan[e], "unsubscribed") IN s.cid = 0 /\ ~ s.torn /\ s.st # "subscribed"
    BY DEF Settled, NoChannel
  <2>3. chan \in [Channels -> [st : {"none", "unsubscribed", "pending", "subscribed"}, cid : 0 .. MaxCid, torn : BOOLEAN]]
    BY Parts DEF TypeOK
  <2> QED  BY <2>1, <2>2, <2>3
<1>7. NotYet' /\ Torn'
  BY <1>2, <1>3, <1>6 DEF AInv, NotYet, Torn, Waiting
<1>8. Current'
  <2> SUFFICES ASSUME active PROVE Elems(map') = {}
    BY <1>3 DEF Current
  <2> QED  BY <1>2, <1>3, <1>5, Elems(map') = Elems(map)
<1> QED  BY <1>2, <1>3, <1>4, <1>7, <1>8 DEF AInv, Agreeing, Trying

\* The assignment after a send that closed the transport.
LEMMA AssignCidAgrees ==
    ASSUME IInv, AInv, AssignCid PROVE AInv'
<1>1. /\ stack # <<>> /\ Top.do = "cid" /\ Top \in Elems(stack) /\ Top.at \in Channels /\ Top.n \in Cids
      /\ UNCHANGED <<active, state, map, up, peer>>
      /\ chan' = [chan EXCEPT ![Top.at].cid = Top.n, ![Top.at].torn = TRUE]
  BY Popped, Parts DEF AssignCid, Step, Top, selfVars, wireVars, Typed, FrameOK
<1>2. state # "open"
  BY <1>1 DEF AInv, Trying
<1>3. \A x \in Elems(map) : active => x.at \notin Channels
  <2>1. state = "closed" /\ active => Elems(map) = {}
    BY Parts, ElemsOfFew DEF Disciplined
  <2>2. state = "connecting" => \A x \in Elems(map) : x.at = Handshake
    BY Parts DEF Disciplined
  <2> QED  BY <1>2, <2>1, <2>2, Parts, NamesDiffer DEF TypeOK
<1>4. \A c \in Channels : chan'[c] = chan[c] \/ (chan'[c].torn /\ chan'[c].cid # 0 /\ chan'[c].st = chan[c].st)
  <2>1. chan \in [Channels -> [st : {"none", "unsubscribed", "pending", "subscribed"}, cid : 0 .. MaxCid, torn : BOOLEAN]]
    BY Parts DEF TypeOK
  <2>2. Top.n # 0
    BY <1>1, SCClientAssumption DEF Cids
  <2> QED  BY <1>1, <2>1, <2>2
<1>5. Introduced'
  BY <1>1, IntroducedStill DEF AInv
<1>6. NotYet' /\ Torn'
  BY <1>1, <1>2, <1>4 DEF AInv, NotYet, Torn, Waiting
<1>7. Current'
  BY <1>1, <1>3 DEF Current
<1> QED  BY <1>1, <1>2, <1>5, <1>6, <1>7 DEF AInv, Agreeing, Trying

\* _onSCOpen asks for every pending channel.
LEMMA ConnectedAgrees ==
    ASSUME IInv, AInv, Connected PROVE AInv'
<1> DEFINE t  == Tail(stack)
           f1 == ProcessPending
           f2 == [Frame("connect", None) EXCEPT !.n = Top.n]
           f3 == Frame("flushall", None)
           s  == <<f2>> \o (<<f3>> \o t)
<1>1. /\ stack # <<>> /\ Top \in Frames /\ t \in Seq(Frames)
      /\ UNCHANGED <<active, state, map, chan, up, down, peer, ws>>
      /\ stack' = <<f1, f2, f3>> \o t
  BY Popped, Parts DEF Connected, Step, linkVars, wireVars
<1>2. /\ f1 \in Frames /\ f1.do = "tries" /\ f1.of = Pending
      /\ f2 \in Frames /\ f2.do = "connect"
      /\ f3 \in Frames /\ f3.do = "flushall"
  <2>1. /\ None \in Names /\ Pending \in SUBSET Channels /\ Top.n \in Nat
    BY <1>1, NamesDiffer DEF Pending, Frames
  <2>2. Frame("tries", None) \in Frames /\ Frame("tries", None).do = "tries"
        /\ Frame("connect", None) \in Frames /\ Frame("connect", None).do = "connect"
        /\ f3 \in Frames /\ f3.do = "flushall"
    BY <2>1, FrameIs, DosAre
  <2>3. f1 \in Frames /\ f1.do = "tries" /\ f1.of = Pending
    BY <2>1, <2>2, FrameWithOf DEF ProcessPending
  <2>4. f2 \in Frames /\ f2.do = "connect"
    BY <2>1, <2>2, FrameWithN
  <2> QED  BY <2>2, <2>3, <2>4
<1> HIDE DEF t, f1, f2, f3
<1>3. stack' = <<f1>> \o s
  <2>0. t \in Seq(Frames) /\ f1 \in Frames /\ f2 \in Frames /\ f3 \in Frames
    BY <1>1, <1>2
  <2>1. <<f1, f2, f3>> \o t = <<f1>> \o (<<f2>> \o (<<f3>> \o t))
    BY <2>0, Beside
  <2>2. stack' = <<f1, f2, f3>> \o t
    BY <1>1
  <2> QED  BY <2>1, <2>2
<1>4. s \in Seq(Frames) /\ Elems(s) = {f2, f3} \cup Elems(t)
  <2> DEFINE a == <<f2>>
             b == <<f3>>
             u == b \o t
  <2>1. a \in Seq(Frames) /\ Elems(a) = {f2} /\ b \in Seq(Frames) /\ Elems(b) = {f3} /\ s = a \o u
    BY <1>2, Alone
  <2> HIDE DEF a, b
  <2>2. u \in Seq(Frames) /\ Elems(u) = Elems(b) \cup Elems(t)
    BY <1>1, <2>1, ElemsOfConcat
  <2> HIDE DEF u, s
  <2>3. s \in Seq(Frames) /\ Elems(s) = Elems(a) \cup Elems(u)
    BY <2>1, <2>2, ElemsOfConcat
  <2> QED  BY <2>1, <2>2, <2>3
<1> HIDE DEF s
<1>5. \A g \in Elems(s) : g.do \notin {"tries", "cid"} \/ (stack # <<>> /\ g \in Elems(Tail(stack)))
  BY <1>1, <1>2, <1>4 DEF t
<1>6. \A c \in f1.of : chan'[c].st = "pending"
  BY <1>1, <1>2 DEF Pending
<1>7. Trying'
  BY <1>1, <1>2, <1>3, <1>4, <1>5, <1>6, TryingPushes DEF AInv
<1> QED  BY <1>1, <1>7, ClientAgrees

\* _trySubscribe sends one request for a channel.
LEMMA TrySubscribeAgrees ==
    ASSUME IInv, AInv, TrySubscribe PROVE AInv'
<1> DEFINE t == Tail(stack)
<1>1. /\ stack # <<>> /\ Top.do = "tries" /\ Top \in Frames /\ t \in Seq(Frames) /\ active' = active
      /\ Top.of \in SUBSET Channels
  BY Popped, Parts DEF Step, Top, TrySubscribe, selfVars, Frames
<1>2. CASE Top.of = {} /\ stack' = Tail(stack) /\ UNCHANGED <<linkVars, wireVars>>
  <2>1. UNCHANGED <<state, ws, up, down, peer, chan, map>>
    BY <1>2 DEF linkVars, wireVars
  <2>2. Trying'
    BY <1>1, <1>2, <2>1, TryingPops DEF AInv
  <2> QED  BY <1>1, <2>1, <2>2, ClientAgrees
<1>3. ASSUME NEW c \in Top.of,
             stack' = <<[Top EXCEPT !.of = @ \ {c}]>> \o Tail(stack), UNCHANGED <<linkVars, wireVars>>
      PROVE  AInv'
  <2> DEFINE next == [Top EXCEPT !.of = @ \ {c}]
  <2>1. next \in Frames /\ next.do = "tries" /\ next.of = Top.of \ {c} /\ stack' = <<next>> \o t
    BY <1>1, <1>3 DEF Frames
  <2>2. UNCHANGED <<state, ws, up, down, peer, chan, map>>
    BY <1>3 DEF linkVars, wireVars
  <2>3. state = "open" => \A d \in Top.of : chan[d].st = "pending"
    BY <1>1 DEF AInv, Trying, Step, Top
  <2>4. \A g \in Elems(t) : g.do \notin {"tries", "cid"} \/ (stack # <<>> /\ g \in Elems(Tail(stack)))
    BY <1>1
  <2> HIDE DEF next, t
  <2>5. state' = "open" => state = "open" /\ \A d \in next.of : chan'[d].st = "pending"
    BY <2>1, <2>2, <2>3
  <2>6. Trying'
    BY <1>1, <2>1, <2>4, <2>5, TryingPushes DEF AInv
  <2> QED  BY <1>1, <2>2, <2>6, ClientAgrees
<1>4. ASSUME NEW c \in Top.of, state = "open", chan[c].cid = 0, NEW cid \in FreshCids, ws # "open",
             Send(Message("subscribe", c, cid, TRUE), buffer, Append(map, [cid |-> cid, at |-> c]), chan,
                  <<[Frame("cid", c) EXCEPT !.n = cid]>> \o (<<[Top EXCEPT !.of = @ \ {c}]>> \o Tail(stack)))
      PROVE  AInv'
  <2> DEFINE mp == Append(map, [cid |-> cid, at |-> c])
             rest == <<[Frame("cid", c) EXCEPT !.n = cid]>> \o (<<[Top EXCEPT !.of = @ \ {c}]>> \o Tail(stack))
  <2>1. ShutDown(1005, buffer, mp, chan, rest) /\ UNCHANGED <<up, peer>>
    BY <1>4 DEF Send, wireVars
  <2> HIDE DEF mp, rest
  <2>2. state' = "closed"
    BY <1>4, <2>1 DEF ShutDown
  <2>3. Introduced'
    BY <2>1, <2>2, IntroducedStill DEF AInv
  <2> QED  BY <1>4, <2>1, <2>3, ClosingAgrees
<1>5. ASSUME NEW c \in Top.of, state = "open", chan[c].cid = 0, NEW cid \in FreshCids, ws = "open",
             Send(Message("subscribe", c, cid, TRUE), buffer, Append(map, [cid |-> cid, at |-> c]),
                  [chan EXCEPT ![c].cid = cid], <<[Top EXCEPT !.of = @ \ {c}]>> \o Tail(stack))
      PROVE  AInv'
  <2> DEFINE m == Message("subscribe", c, cid, TRUE)
             x == [cid |-> cid, at |-> c]
             next == [Top EXCEPT !.of = @ \ {c}]
  <2>1. next \in Frames /\ next.do = "tries" /\ next.of = Top.of \ {c}
    BY <1>1 DEF Frames
  <2>2. /\ UNCHANGED <<state, ws, down, peer>> /\ up' = Append(up, m) /\ map' = Append(map, x)
        /\ chan' = [chan EXCEPT ![c].cid = cid] /\ stack' = <<next>> \o t
    BY <1>5 DEF Send
  <2>3. /\ c \in Channels /\ c \in Names /\ cid \in Cids /\ cid \in 0 .. MaxCid /\ cid # 0
        /\ \A d \in Channels : chan[d].cid # cid
        /\ \A y \in Elems(up) \cup Elems(down) : y.cid # cid
    BY <1>1, Fresh, NamesDiffer, SCClientAssumption DEF Cids
  <2>4. m \in Messages /\ m.ev = "subscribe" /\ m.at = c /\ m.cid = cid
    <3>1. "subscribe" \in Evs /\ TRUE \in BOOLEAN
      BY DEF Evs
    <3> QED  BY <2>3, <3>1, MessageIs, ZenonT(40)
  <2>5. x \in Entries /\ x.at = c /\ x.cid = cid
    BY <2>3 DEF Entries
  <2> HIDE DEF m, x, next, t
  <2>6. /\ up \in Seq(Messages) /\ map \in Seq(Entries)
        /\ chan \in [Channels -> [st : {"none", "unsubscribed", "pending", "subscribed"}, cid : 0 .. MaxCid, torn : BOOLEAN]]
    BY Parts DEF TypeOK
  <2>7. /\ Elems(up') = Elems(up) \cup {m} /\ Elems(map') = Elems(map) \cup {x}
        /\ \A d \in Channels \ {c} : chan'[d] = chan[d]
        /\ chan'[c].cid = cid /\ chan'[c].st = chan[c].st /\ chan'[c].torn = chan[c].torn
    BY <2>2, <2>3, <2>4, <2>5, <2>6, ElemsOfAppend
  <2>8. \A d \in Top.of : chan[d].st = "pending"
    BY <1>1, <1>5 DEF AInv, Trying, Step, Top
  <2>9. ~ chan[c].torn /\ chan[c].st = "pending"
    BY <1>5, <2>3, <2>8 DEF AInv, Torn
  <2>10. Trying'
    <3>1. \A g \in Elems(t) : g.do \notin {"tries", "cid"} \/ (stack # <<>> /\ g \in Elems(Tail(stack)))
      BY <1>1 DEF t
    <3>2. state = "open" /\ \A d \in next.of : chan'[d].st = "pending"
      BY <1>1, <1>5, <2>1, <2>7, <2>8
    <3> QED  BY <1>1, <2>1, <2>2, <3>1, <3>2, TryingPushes DEF AInv
  <2>11. Asking(c)'
    <3>0. PICK n \in Nat : n = Len(up)
      BY <2>6
    <3>1. /\ DOMAIN up = 1 .. n /\ DOMAIN up' = 1 .. n + 1
          /\ up'[n + 1] = m /\ \A j \in 1 .. n : up'[j] = up[j] /\ up[j] \in Elems(up)
      BY <2>2, <2>4, <2>6, <3>0, ElemsTyped
    <3>2. LastWord(n + 1, c)'
      BY <2>4, <3>1 DEF LastWord, About
    <3>3. \A j \in DOMAIN up' : j # n + 1 => up'[j].cid # chan'[c].cid
      BY <2>3, <2>7, <3>1
    <3>4. \A y \in Elems(down') : y.cid # chan'[c].cid
      BY <2>2, <2>3, <2>7
    <3>5. n + 1 \in DOMAIN up' /\ up'[n + 1].ev = "subscribe" /\ up'[n + 1].cid = chan'[c].cid
      BY <2>4, <2>7, <3>1
    <3> QED  BY <3>2, <3>3, <3>4, <3>5 DEF Asking
  <2>12. Agreeing'
    <3> SUFFICES ASSUME NEW d \in Channels PROVE Agreed(d)'
      BY DEF Agreeing
    <3>1. CASE d = c
      BY <2>3, <2>7, <2>9, <2>11, <3>1 DEF Agreed, Waiting
    <3>2. CASE d # c
      <4>1. Agreed(d) /\ ~ About(m, d) /\ m.cid # chan[d].cid /\ chan'[d] = chan[d]
        BY <1>5, <2>3, <2>4, <2>7, <3>2 DEF AInv, Agreeing, About
      <4> QED  BY <2>2, <2>4, <2>6, <4>1, AgreedAppend
    <3> QED  BY <3>1, <3>2
  <2>13. NotYet' /\ Torn'
    BY <1>5, <2>2, <2>3, <2>7 DEF AInv, NotYet, Torn
  <2>14. Introduced'
    <3>1. \A i \in DOMAIN up' : up'[i].ev = "handshake" => i \in DOMAIN up /\ up'[i] = up[i]
      BY <2>2, <2>4, <2>6
    <3> QED  BY <1>5, <2>2, <3>1 DEF AInv, Introduced
  <2>15. Current'
    <3>1. \A y \in Elems(map) : y.at # c \/ ~ active
      <4>1. \A y \in Elems(map) : y.cid \in Cids
        <5>1. Elems(map) \subseteq Entries
          BY <2>6, ElemsTyped
        <5> QED  BY <5>1 DEF Entries
      <4>2. 0 \notin Cids
        BY SCClientAssumption DEF Cids
      <4>3. \A y \in Elems(map) : active /\ y.at = c => chan[c].cid = y.cid
        BY <2>3 DEF AInv, Current
      <4> QED  BY <1>5, <4>1, <4>2, <4>3
    <3> QED  BY <1>1, <2>3, <2>5, <2>7, <2>9, <3>1 DEF AInv, Current
  <2> QED  BY <2>10, <2>12, <2>13, <2>14, <2>15 DEF AInv
<1> QED
  <2>1. \/ Top.of = {} /\ stack' = Tail(stack) /\ UNCHANGED <<linkVars, wireVars>>
        \/ \E c \in Top.of :
             LET rest == <<[Top EXCEPT !.of = @ \ {c}]>> \o Tail(stack) IN
             IF state = "open" /\ ~ preparing /\ chan[c].cid = 0
             THEN \E cid \in FreshCids :
                    LET m  == Message("subscribe", c, cid, TRUE)
                        mp == Append(map, [cid |-> cid, at |-> c])
                    IN  IF ws = "open"
                        THEN Send(m, buffer, mp, [chan EXCEPT ![c].cid = cid], rest)
                        ELSE Send(m, buffer, mp, chan, <<[Frame("cid", c) EXCEPT !.n = cid]>> \o rest)
             ELSE stack' = rest /\ UNCHANGED <<linkVars, wireVars>>
    BY DEF TrySubscribe
  <2>2. CASE Top.of = {} /\ stack' = Tail(stack) /\ UNCHANGED <<linkVars, wireVars>>
    BY <1>2, <2>2
  <2>3. ASSUME NEW c \in Top.of,
               LET rest == <<[Top EXCEPT !.of = @ \ {c}]>> \o Tail(stack) IN
               IF state = "open" /\ ~ preparing /\ chan[c].cid = 0
               THEN \E cid \in FreshCids :
                      LET m  == Message("subscribe", c, cid, TRUE)
                          mp == Append(map, [cid |-> cid, at |-> c])
                      IN  IF ws = "open"
                          THEN Send(m, buffer, mp, [chan EXCEPT ![c].cid = cid], rest)
                          ELSE Send(m, buffer, mp, chan, <<[Frame("cid", c) EXCEPT !.n = cid]>> \o rest)
               ELSE stack' = rest /\ UNCHANGED <<linkVars, wireVars>>
        PROVE  AInv'
    BY <1>3, <1>4, <1>5, <2>3, Zenon
  <2> QED  BY <2>1, <2>2, <2>3, Zenon

\* disconnect, whatever is left of the task.
LEMMA DisconnectAgrees ==
    ASSUME IInv, AInv, NEW rest, Disconnect(rest), active' => active
    PROVE  AInv'
<1>1. CASE state = "closed"
  <2>1. UNCHANGED <<state, ws, up, down, peer, chan, map>>
    BY <1>1 DEF Disconnect, wireVars
  <2>2. Trying'
    BY <1>1, <2>1 DEF Trying
  <2> QED  BY <2>1, <2>2, ClientAgrees
<1>2. CASE state # "closed"
  <2> DEFINE how == IF state = "open" /\ ws # "open" THEN 1005 ELSE 1000
             calls == <<Frame("wsclose", None)>> \o rest
  <2>1. ShutDown(how, buffer, map, chan, calls) /\ peer' = peer
        /\ (up' = up \/ up' = Append(up, Message("disconnect", None, 0, TRUE)))
    BY <1>2, ZenonT(60) DEF Disconnect, Closing
  <2> HIDE DEF how, calls
  <2>2. state' = "closed"
    BY <2>1 DEF ShutDown
  <2>3. Introduced'
    BY <2>1, <2>2, IntroducedStill DEF AInv
  <2> QED  BY <1>2, <2>1, <2>3, ClosingAgrees
<1> QED  BY <1>1, <1>2

\* The connection ends, or is given up.
LEMMA BrokenAgrees ==
    ASSUME IInv, AInv,
           WsError \/ ConnectTimeout \/ PingTimeout \/ WsClose \/ HandshakeTimeout \/ PageDestroys \/ PageUnloads
    PROVE  AInv'
<1>1. ASSUME state # "closed",
             NEW how, NEW mp, NEW rest, ShutDown(how, buffer, mp, chan, rest),
             \/ UNCHANGED <<up, peer>>
             \/ Gone
             \/ up' = Append(up, Message("disconnect", None, 0, TRUE)) /\ peer' = peer
      PROVE  AInv'
  <2>1. state' = "closed"
    BY <1>1 DEF ShutDown
  <2>2. Introduced'
    BY <1>1, <2>1, IntroducedStill DEF AInv
  <2> QED  BY <1>1, <2>2, ClosingAgrees
<1>2. CASE WsError
  <2>1. state # "closed" /\ Gone
        /\ ShutDown(1006, buffer, map, chan, <<>>)
    BY <1>2 DEF WsError, WsClosed, Closing
  <2> QED  BY <1>1, <2>1
<1>3. CASE ConnectTimeout
  <2>1. state # "closed" /\ UNCHANGED <<up, peer>>
        /\ ShutDown(4007, buffer, map, chan, <<Frame("wsclose", None)>>)
    BY <1>3 DEF ConnectTimeout, Closing, wireVars
  <2> QED  BY <1>1, <2>1
<1>4. CASE PingTimeout
  <2>1. state # "closed" /\ UNCHANGED <<up, peer>>
        /\ ShutDown(4000, buffer, map, chan, <<Frame("wsclose", None)>>)
    BY <1>4 DEF PingTimeout, Closing, wireVars
  <2> QED  BY <1>1, <2>1
<1>5. CASE WsClose
  <2>1. PICK how \in CloseCodes : ShutDown(how, buffer, map, chan, <<>>) /\ Gone /\ UNCHANGED selfVars
    BY <1>5 DEF WsClose, WsClosed, Closing
  <2>2. CASE state # "closed"
    BY <1>1, <2>1, <2>2
  <2>3. CASE state = "closed"
    <3>1. UNCHANGED <<state, active, map, chan>>
      BY <2>1, <2>3 DEF ShutDown, selfVars
    <3>2. Introduced'
      BY <2>1, <3>1, IntroducedStill DEF AInv
    <3> QED  BY <2>3, <3>1, <3>2 DEF AInv, Agreeing, Trying, NotYet, Waiting, Current, Torn
  <2> QED  BY <2>2, <2>3
<1>6. CASE HandshakeTimeout
  <2> DEFINE mp == Without(map, LAMBDA e : e.at = Handshake)
  <2>1. state # "closed" /\ UNCHANGED <<up, peer>>
        /\ ShutDown(4003, buffer, mp, chan, <<Frame("wsclose", None)>>)
    BY <1>6 DEF HandshakeTimeout, wireVars
  <2> HIDE DEF mp
  <2> QED  BY <1>1, <2>1
<1>7. CASE PageDestroys \/ PageUnloads
  <2>1. Disconnect(stack) /\ (active' => active)
    BY <1>7 DEF PageDestroys, PageUnloads, Destroy, Unload, selfVars
  <2> QED  BY <2>1, DisconnectAgrees
<1> QED  BY <1>2, <1>3, <1>4, <1>5, <1>6, <1>7

\* A new transport.
LEMMA NewTransportAgrees ==
    ASSUME AInv, state = "closed", active, NewTransport, chan' = chan
    PROVE  AInv'
<1>1. state' = "connecting" /\ ws' = "connecting" /\ up' = <<>> /\ map' = <<>> /\ peer'.subs = {}
  BY DEF NewTransport, Stranger
<1>2. Elems(up') = {} /\ Elems(map') = {} /\ DOMAIN up' = {}
  BY <1>1, ElemsOfFew
<1>3. NotYet' /\ Torn'
  BY DEF AInv, NotYet, Waiting, Torn
<1>4. Introduced'
  BY <1>1, <1>2 DEF Introduced, Untold
<1>5. Current'
  BY <1>2 DEF Current
<1> QED  BY <1>1, <1>3, <1>4, <1>5 DEF AInv, Agreeing, Trying

\* The browser's events that receive nothing.
LEMMA BrowserAgrees ==
    ASSUME IInv, AInv, WsClosing \/ ReconnectTimer \/ WsOpen \/ \E e \in Calls : AckTimeout(e)
    PROVE  AInv'
<1>0. stack = <<>> /\ Elems(stack) = {}
  <2>1. Idle
    BY DEF WsClosing, ReconnectTimer, WsOpen, AckTimeout
  <2> QED  BY <2>1, Resting
<1>1. CASE WsClosing
  <2>1. ws' = "closing" /\ UNCHANGED <<active, state, map, chan, up, down, peer, stack>>
    BY <1>1 DEF WsClosing, selfVars, linkVars
  <2>2. Trying'
    BY <2>1, <1>0 DEF AInv, Trying, Step
  <2>3. Introduced'
    BY <2>1, IntroducedStill DEF AInv
  <2>4. NotYet' /\ Torn' /\ Current'
    BY <2>1 DEF AInv, NotYet, Waiting, Torn, Current
  <2> QED  BY <2>1, <2>2, <2>3, <2>4 DEF AInv, Agreeing
<1>2. CASE ReconnectTimer
  <2>0. state = "closed" /\ chan' = chan /\ active' = active /\ stack' = stack
    BY <1>2, Parts DEF ReconnectTimer, selfVars, Disciplined
  <2>1. CASE active
    BY <1>2, <2>0, <2>1, NewTransportAgrees DEF ReconnectTimer
  <2>2. CASE ~ active
    <3>1. UNCHANGED <<state, map, ws, up, down, peer>>
      BY <1>2, <2>2 DEF ReconnectTimer, wireVars
    <3>2. Trying'
      BY <2>0, <3>1 DEF Trying
    <3> QED  BY <2>0, <3>1, <3>2, ClientAgrees
  <2> QED  BY <2>1, <2>2
<1>3. CASE WsOpen
  <2>1. /\ state = "connecting" /\ UNCHANGED <<active, state, chan, peer, stack>>
        /\ \E cid \in FreshCids :
             /\ map' = <<[cid |-> cid, at |-> Handshake]>>
             /\ up' = <<Message("handshake", Handshake, cid, token)>>
    BY <1>3 DEF WsOpen, selfVars
  <2>2. PICK cid : /\ map' = <<[cid |-> cid, at |-> Handshake]>>
                   /\ up' = <<Message("handshake", Handshake, cid, token)>>
    BY <2>1
  <2> DEFINE x == [cid |-> cid, at |-> Handshake]
             m == Message("handshake", Handshake, cid, token)
  <2>3. x.at = Handshake /\ m.ev = "handshake"
    BY DEF Message
  <2>4. map' = <<x>> /\ up' = <<m>>
    BY <2>2
  <2> HIDE DEF x, m
  <2>5. Elems(map') = {x} /\ Elems(up') = {m} /\ DOMAIN up' = {1}
    <3>1. \A a : Elems(<<a>>) = {a}
      BY ElemsOfFew, Zenon
    <3>2. Elems(map') = {x}
      BY <2>4, <3>1
    <3>3. Elems(up') = {m}
      BY <2>4, <3>1
    <3>4. DOMAIN up' = {1}
      BY <2>4
    <3> QED  BY <3>2, <3>3, <3>4
  <2>6. Introduced'
    BY <2>1, <2>3, <2>5 DEF AInv, Introduced, Untold, About
  <2>7. Current'
    BY <2>3, <2>5, NamesDiffer DEF Current
  <2>8. NotYet' /\ Torn'
    BY <2>1 DEF AInv, NotYet, Waiting, Torn
  <2> QED  BY <2>1, <2>6, <2>7, <2>8 DEF AInv, Agreeing, Trying
<1>4. ASSUME NEW e \in Calls, AckTimeout(e) PROVE AInv'
  <2> DEFINE f1 == Frame("refused", e)
             f2 == Frame("cancel", e)
  <2>1. UNCHANGED <<active, state, map, chan, ws, up, down, peer>> /\ stack' = <<f1, f2>>
    BY <1>4 DEF AckTimeout, wireVars
  <2>2. f1 \in Frames /\ f1.do = "refused" /\ f2 \in Frames /\ f2.do = "cancel"
    BY FrameIs, DosAre, NamesDiffer
  <2> HIDE DEF f1, f2
  <2>3. stack' \in Seq(Frames) /\ Elems(stack') = {f1, f2}
    BY <2>1, <2>2, ElemsOfFew
  <2>4. Trying'
    BY <2>1, <2>2, <2>3, TryingPops DEF AInv
  <2> QED  BY <2>1, <2>4, ClientAgrees
<1> QED  BY <1>1, <1>2, <1>3, <1>4

\* The server reads a message that is not about channels, or publishes.
LEMMA PeerOtherAgrees ==
    ASSUME IInv, AInv, PeerHandshake \/ PeerLogin \/ PeerIgnores \/ PeerDisconnect \/ PeerPublish
    PROVE  AInv'
<1>0. /\ UNCHANGED <<active, state, chan, map, stack>> /\ up \in Seq(Messages) /\ down \in Seq(Messages)
      /\ peer \in [authed : BOOLEAN, subs : SUBSET Channels]
  BY Parts DEF PeerHandshake, PeerLogin, PeerIgnores, PeerDisconnect, PeerPublish, selfVars, linkVars, TypeOK
<1>1. Trying' /\ NotYet' /\ Current' /\ Torn'
  BY <1>0 DEF AInv, Trying, Step, Top, NotYet, Waiting, Current, Torn
<1>2. ASSUME NEW ev, ev \notin {"subscribe", "unsubscribe"}, PeerTakes(ev), peer'.subs = peer.subs,
             peer.authed => peer'.authed \/ peer.subs = {},
             \A x \in Elems(down') : x \in Elems(down) \/ x.cid \in {0, Head(up).cid},
             Elems(down) \subseteq Elems(down')
      PROVE  AInv'
  <2>1. /\ ws = "open" /\ Head(up) \in Messages /\ Head(up).ev = ev
        /\ Elems(up) = {Head(up)} \cup Elems(up') /\ up' = Tail(up) /\ up # <<>>
    BY <1>2, Taken DEF PeerTakes
  <2>2. Agreeing'
    <3> SUFFICES ASSUME state = "open", NEW c \in Channels PROVE Agreed(c)'
      BY <1>0 DEF Agreeing
    <3>1. Agreed(c) /\ ~ About(Head(up), c) /\ chan'[c] = chan[c] /\ (c \in peer'.subs <=> c \in peer.subs)
      BY <1>0, <1>2, <2>1 DEF AInv, Agreeing, About
    <3> QED  BY <1>0, <1>2, <2>1, <3>1, AgreedTail
  <2>3. Introduced'
    <3>1. \A c \in Channels : Untold(c) => Untold(c)'
      BY <2>1 DEF Untold
    <3>2. \A i \in DOMAIN up' : i + 1 \in DOMAIN up /\ up'[i] = up[i + 1] /\ i + 1 # 1
      BY <1>0, <2>1
    <3> QED  BY <1>0, <1>2, <3>1, <3>2 DEF AInv, Introduced
  <2> QED  BY <1>1, <2>2, <2>3 DEF AInv
<1>3. CASE PeerHandshake
  <2>0. PICK valid \in BOOLEAN : peer' = [peer EXCEPT !.authed = valid] /\ down' = Append(down, Answer(Head(up), valid))
    BY <1>3 DEF PeerHandshake
  <2>1. PeerTakes("handshake") /\ Head(up) \in Messages /\ Head(up).ev = "handshake"
    BY <1>3, Taken DEF PeerHandshake
  <2> DEFINE a == Answer(Head(up), valid)
  <2>2. a \in Messages /\ a.cid = Head(up).cid
    BY <2>1, AnswerIs DEF Answer, Message
  <2> HIDE DEF a
  <2>3. Elems(down') = Elems(down) \cup {a}
    BY <1>0, <2>0, <2>2, ElemsOfAppend DEF a
  <2>4. peer.subs = {}
    <3>1. 1 \in DOMAIN up /\ Head(up) = up[1]
      BY <1>0, <2>1 DEF PeerTakes
    <3> QED  BY <2>1, <3>1 DEF AInv, Introduced
  <2>5. peer'.subs = peer.subs
    BY <1>0, <2>0
  <2> QED  BY <1>2, <2>1, <2>2, <2>3, <2>4, <2>5
<1>4. CASE PeerLogin
  <2>1. PeerTakes("login") /\ Head(up) \in Messages
    BY <1>4, Taken DEF PeerLogin
  <2> DEFINE yes == Answer(Head(up), TRUE)
             no  == Answer(Head(up), FALSE)
             set == Message("setAuthToken", None, 0, TRUE)
  <2>2. yes \in Messages /\ yes.cid = Head(up).cid /\ no \in Messages /\ no.cid = Head(up).cid
    BY <2>1, AnswerIs DEF Answer, Message
  <2>3. set \in Messages /\ set.cid = 0
    <3>1. None \in Names /\ "setAuthToken" \in Evs /\ 0 \in 0 .. MaxCid
      BY NamesDiffer, SCClientAssumption DEF Evs
    <3> QED  BY <3>1, MessageIs
  <2>4. \/ peer' = [peer EXCEPT !.authed = TRUE] /\ down' = down \o <<yes, set>>
        \/ peer' = peer /\ down' = Append(down, no)
    BY <1>4 DEF PeerLogin
  <2> HIDE DEF yes, no, set
  <2>5. (\A x \in Elems(down') : x \in Elems(down) \/ x.cid \in {0, Head(up).cid}) /\ Elems(down) \subseteq Elems(down')
    <3>1. CASE down' = down \o <<yes, set>>
      <4> DEFINE s == <<yes, set>>
      <4>1. s \in Seq(Messages) /\ Elems(s) = {yes, set} /\ down' = down \o s
        BY <2>2, <2>3, <3>1, ElemsOfFew
      <4> HIDE DEF s
      <4>2. Elems(down \o s) = Elems(down) \cup Elems(s)
        BY <1>0, <4>1, ElemsOfConcat
      <4> QED  BY <2>2, <2>3, <4>1, <4>2
    <3>2. CASE down' = Append(down, no)
      <4>1. Elems(down') = Elems(down) \cup {no}
        BY <1>0, <2>2, <3>2, ElemsOfAppend
      <4> QED  BY <2>2, <4>1
    <3> QED  BY <2>4, <3>1, <3>2
  <2>6. peer'.subs = peer.subs /\ (peer.authed => peer'.authed)
    BY <1>0, <2>4
  <2> QED  BY <1>2, <2>1, <2>5, <2>6
<1>5. CASE PeerIgnores
  <2>1. PICK ev \in {"publish", "respond"} : PeerTakes(ev)
    BY <1>5 DEF PeerIgnores
  <2>2. UNCHANGED <<down, peer>>
    BY <1>5 DEF PeerIgnores
  <2> QED  BY <1>2, <2>1, <2>2
<1>6. CASE PeerDisconnect
  <2>1. PeerTakes("disconnect") /\ ws' = "closing" /\ UNCHANGED <<down, peer>>
    BY <1>6 DEF PeerDisconnect
  <2>2. up' = Tail(up) /\ up # <<>> /\ Elems(up) = {Head(up)} \cup Elems(up')
    BY <2>1, Taken DEF PeerTakes
  <2>3. Introduced'
    <3>1. \A c \in Channels : Untold(c) => Untold(c)'
      BY <2>2 DEF Untold
    <3>2. \A i \in DOMAIN up' : i + 1 \in DOMAIN up /\ up'[i] = up[i + 1] /\ i + 1 # 1
      BY <1>0, <2>2
    <3> QED  BY <1>0, <2>1, <3>1, <3>2 DEF AInv, Introduced
  <2> QED  BY <1>1, <2>1, <2>3 DEF AInv, Agreeing
<1>7. CASE PeerPublish
  <2>1. UNCHANGED <<ws, up, peer>>
    BY <1>7 DEF PeerPublish
  <2>2. PICK c \in peer.subs : down' = Append(down, Message("publish", c, 0, TRUE))
    BY <1>7 DEF PeerPublish
  <2> DEFINE m == Message("publish", c, 0, TRUE)
  <2>3. m \in Messages /\ m.cid = 0
    <3>1. c \in Names /\ "publish" \in Evs /\ 0 \in 0 .. MaxCid
      BY <1>0, NamesDiffer, SCClientAssumption DEF Evs
    <3> QED  BY <3>1, MessageIs
  <2>9. down' = Append(down, m)
    BY <2>2
  <2> HIDE DEF m
  <2>4. Elems(down') = Elems(down) \cup {m}
    BY <1>0, <2>3, <2>9, ElemsOfAppend
  <2>5. Agreeing'
    <3> SUFFICES ASSUME state = "open", ws = "open", NEW d \in Channels PROVE Agreed(d)'
      BY <1>0, <2>1 DEF Agreeing
    <3>1. Agreed(d) /\ chan'[d] = chan[d]
      BY <1>0 DEF AInv, Agreeing
    <3>2. Waiting(d) => \A x \in Elems(down) \cup Elems(down') :
                            x.cid = chan[d].cid => x \in Elems(down) /\ x \in Elems(down')
      BY <2>3, <2>4 DEF Waiting
    <3> QED  BY <2>1, <3>1, <3>2, AgreedSame
  <2>6. Introduced'
    BY <1>0, <2>1, IntroducedStill DEF AInv
  <2> QED  BY <1>1, <2>5, <2>6 DEF AInv
<1> QED  BY <1>3, <1>4, <1>5, <1>6, <1>7

\* The server answers a subscribe.
LEMMA PeerSubscribeAgrees ==
    ASSUME IInv, AInv, PeerSubscribe PROVE AInv'
<1> DEFINE m == Head(up)
           a == Answer(m, peer.authed)
<1>0. /\ UNCHANGED <<active, state, chan, map, stack, ws>> /\ up \in Seq(Messages) /\ down \in Seq(Messages)
      /\ peer \in [authed : BOOLEAN, subs : SUBSET Channels]
      /\ peer' = [peer EXCEPT !.subs = IF peer.authed THEN @ \cup {m.at} ELSE @]
      /\ down' = Append(down, a)
  BY Parts DEF PeerSubscribe, selfVars, linkVars, TypeOK
<1>1. Trying' /\ NotYet' /\ Current' /\ Torn'
  BY <1>0 DEF AInv, Trying, Step, Top, NotYet, Waiting, Current, Torn
<1>2. /\ ws = "open" /\ m \in Messages /\ m.ev = "subscribe" /\ m.at \in Channels /\ m = up[1] /\ 1 \in DOMAIN up
      /\ Elems(up) = {m} \cup Elems(up') /\ up' = Tail(up) /\ up # <<>>
  <2>1. PeerTakes("subscribe")
    BY DEF PeerSubscribe
  <2>2. m \in Elems(up) /\ Elems(up) = {m} \cup Elems(up') /\ m \in Messages /\ m.ev = "subscribe"
    BY <2>1, Taken
  <2>3. m.at \in Channels
    BY <2>2, Parts DEF Typed, WireOK
  <2>4. ws = "open" /\ up' = Tail(up) /\ up # <<>>
    BY <2>1 DEF PeerTakes
  <2>5. m = up[1] /\ 1 \in DOMAIN up
    BY <1>0, <2>4
  <2> QED  BY <2>2, <2>3, <2>4, <2>5
<1>3. a \in Messages /\ a.ev = "answer" /\ a.cid = m.cid /\ a.ok = peer.authed
  <2>1. peer.authed \in BOOLEAN
    BY <1>0
  <2>2. a \in Messages /\ a.ev = "answer"
    BY <1>2, <2>1, AnswerIs
  <2> QED  BY <2>2 DEF Answer, Message
<1> HIDE DEF m, a
<1>4. Elems(down') = Elems(down) \cup {a}
  BY <1>0, <1>3, ElemsOfAppend
<1>5. /\ peer.authed => peer'.subs = peer.subs \cup {m.at}
      /\ ~ peer.authed => peer'.subs = peer.subs /\ peer.subs = {}
      /\ peer'.authed = peer.authed
  BY <1>0 DEF AInv, Introduced
<1>6. About(m, m.at)
  BY <1>2 DEF About
<1>7. \A i \in DOMAIN up' : i + 1 \in DOMAIN up /\ i + 1 # 1 /\ up'[i] = up[i + 1] /\ i \in Nat
  BY <1>0, <1>2
<1>8. \A c \in Channels : Untold(c) => Untold(c)'
  BY <1>2 DEF Untold
<1>9. Introduced'
  <2>1. state # "connecting"
    BY <1>2, <1>6 DEF AInv, Introduced, Untold
  <2>2. \A i \in DOMAIN up' : up'[i].ev # "handshake"
    BY <1>7 DEF AInv, Introduced
  <2> QED  BY <1>0, <1>5, <2>1, <2>2 DEF Introduced
<1>10. Agreeing'
  <2> SUFFICES ASSUME state = "open", NEW c \in Channels PROVE Agreed(c)'
    BY <1>0 DEF Agreeing
  <2>1. Agreed(c) /\ chan'[c] = chan[c]
    BY <1>0, <1>2 DEF AInv, Agreeing
  <2>2. CASE m.at # c
    <3>1. ~ About(Head(up), c) /\ (c \in peer'.subs <=> c \in peer.subs)
      BY <1>5, <2>2 DEF About, m
    <3>2. (\A x \in Elems(down') : x \in Elems(down) \/ x.cid \in {0, Head(up).cid}) /\ Elems(down) \subseteq Elems(down')
      BY <1>3, <1>4 DEF m
    <3> QED  BY <1>0, <1>2, <2>1, <3>1, <3>2, AgreedTail
  <2>3. CASE m.at = c
    <3>0. ~ Untold(c)
      BY <1>2, <1>6, <2>3 DEF Untold
    <3>1. \A i \in DOMAIN up : LastWord(i, c) /\ i # 1 => i - 1 \in DOMAIN up' /\ LastWord(i - 1, c)' /\ up'[i - 1] = up[i]
      BY <1>0, <1>2, LastWordTail
    <3>2. Waiting(c)' <=> Waiting(c)
      BY <2>1 DEF Waiting
    <3>3. CASE Waiting(c)
      <4>1. chan[c].st = "pending" /\ Asking(c)
        BY <2>1, <3>0, <3>3 DEF Agreed, Told
      <4>2. PICK i \in DOMAIN up : /\ LastWord(i, c) /\ up[i].ev = "subscribe" /\ up[i].cid = chan[c].cid
                                   /\ \A j \in DOMAIN up : j # i => up[j].cid # chan[c].cid
                                   /\ \A x \in Elems(down) : x.cid # chan[c].cid
        BY <4>1 DEF Asking
      <4>3. CASE i = 1
        <5>1. m.cid = chan[c].cid
          BY <1>2, <4>2, <4>3
        <5>2. \A x \in Elems(up') : \E j \in DOMAIN up : j > 1 /\ x = up[j]
          <6>1. \A x \in Elems(up') : \E j \in DOMAIN up' : x = up'[j]
            BY DEF Elems
          <6> QED  BY <1>7, <6>1
        <5>3. Untold(c)' /\ \A x \in Elems(up') : x.cid # chan'[c].cid
          BY <2>1, <4>2, <4>3, <5>2 DEF LastWord, Untold
        <5>4. /\ \E x \in Elems(down') : x.cid = chan'[c].cid
              /\ \A x \in Elems(down') : x.cid = chan'[c].cid => x = a
          BY <1>3, <1>4, <2>1, <4>2, <5>1
        <5>5. a.ok <=> c \in peer'.subs
          BY <1>3, <1>5, <2>3
        <5>6. Told(c)'
          BY <1>3, <5>3, <5>4, <5>5 DEF Told
        <5> QED  BY <2>1, <3>2, <3>3, <4>1, <5>6 DEF Agreed
      <4>4. CASE i # 1
        <5>1. i - 1 \in DOMAIN up' /\ LastWord(i - 1, c)' /\ up'[i - 1] = up[i]
          BY <3>1, <4>2, <4>4
        <5>2. \A j \in DOMAIN up' : j # i - 1 => up'[j].cid # chan'[c].cid
          <6>1. i \in Nat
            BY <1>0
          <6>2. \A j \in DOMAIN up' : j # i - 1 => j + 1 # i
            BY <1>7, <6>1
          <6> QED  BY <1>7, <2>1, <4>2, <6>2
        <5>3. \A x \in Elems(down') : x.cid # chan'[c].cid
          BY <1>2, <1>3, <1>4, <2>1, <4>2, <4>4
        <5>4. Asking(c)'
          BY <2>1, <4>2, <5>1, <5>2, <5>3 DEF Asking
        <5> QED  BY <2>1, <3>2, <3>3, <4>1, <5>4 DEF Agreed
      <4> QED  BY <4>3, <4>4
    <3>4. CASE ~ Waiting(c)
      <4>1. chan[c].st # "subscribed" /\ \E i \in DOMAIN up : LastWord(i, c) /\ up[i].ev = "unsubscribe"
        BY <2>1, <3>0, <3>4 DEF Agreed, Known, Unknown
      <4>2. PICK i \in DOMAIN up : LastWord(i, c) /\ up[i].ev = "unsubscribe"
        BY <4>1
      <4>3. i # 1
        BY <1>2, <4>2
      <4>4. i - 1 \in DOMAIN up' /\ LastWord(i - 1, c)' /\ up'[i - 1] = up[i]
        BY <3>1, <4>2, <4>3
      <4>5. Unknown(c)'
        BY <4>2, <4>4 DEF Unknown
      <4> QED  BY <2>1, <3>2, <3>4, <4>1, <4>5 DEF Agreed
    <3> QED  BY <3>3, <3>4
  <2> QED  BY <2>2, <2>3
<1> QED  BY <1>1, <1>9, <1>10 DEF AInv

\* It reads an unsubscribe.
LEMMA PeerUnsubscribeAgrees ==
    ASSUME IInv, AInv, PeerUnsubscribe PROVE AInv'
<1> DEFINE m == Head(up)
<1>0. /\ UNCHANGED <<active, state, chan, map, stack, ws, down>> /\ up \in Seq(Messages)
      /\ peer \in [authed : BOOLEAN, subs : SUBSET Channels]
      /\ peer' = [peer EXCEPT !.subs = @ \ {m.at}]
  BY Parts DEF PeerUnsubscribe, selfVars, linkVars, TypeOK
<1>1. Trying' /\ NotYet' /\ Current' /\ Torn'
  BY <1>0 DEF AInv, Trying, Step, Top, NotYet, Waiting, Current, Torn
<1>2. /\ ws = "open" /\ m.ev = "unsubscribe" /\ m = up[1] /\ 1 \in DOMAIN up
      /\ Elems(up) = {m} \cup Elems(up') /\ up' = Tail(up) /\ up # <<>>
  <2>1. PeerTakes("unsubscribe")
    BY DEF PeerUnsubscribe
  <2>2. Elems(up) = {m} \cup Elems(up') /\ m.ev = "unsubscribe"
    BY <2>1, Taken
  <2>4. ws = "open" /\ up' = Tail(up) /\ up # <<>>
    BY <2>1 DEF PeerTakes
  <2>5. m = up[1] /\ 1 \in DOMAIN up
    BY <1>0, <2>4
  <2> QED  BY <2>2, <2>4, <2>5
<1> HIDE DEF m
<1>5. peer'.subs = peer.subs \ {m.at} /\ peer'.authed = peer.authed
  BY <1>0
<1>7. \A i \in DOMAIN up' : i + 1 \in DOMAIN up /\ i + 1 # 1 /\ up'[i] = up[i + 1] /\ i \in Nat
  BY <1>0, <1>2
<1>8. \A c \in Channels : Untold(c) => Untold(c)'
  BY <1>2 DEF Untold
<1>9. Introduced'
  <2>2. \A i \in DOMAIN up' : up'[i].ev # "handshake"
    BY <1>7 DEF AInv, Introduced
  <2> QED  BY <1>0, <1>5, <1>8, <2>2 DEF AInv, Introduced
<1>10. Agreeing'
  <2> SUFFICES ASSUME state = "open", NEW c \in Channels PROVE Agreed(c)'
    BY <1>0 DEF Agreeing
  <2>1. Agreed(c) /\ chan'[c] = chan[c]
    BY <1>0, <1>2 DEF AInv, Agreeing
  <2>2. CASE m.at # c
    <3>1. ~ About(Head(up), c) /\ (c \in peer'.subs <=> c \in peer.subs)
      BY <1>5, <2>2 DEF About, m
    <3>2. (\A x \in Elems(down') : x \in Elems(down) \/ x.cid \in {0, Head(up).cid}) /\ Elems(down) \subseteq Elems(down')
      BY <1>0
    <3> QED  BY <1>0, <1>2, <2>1, <3>1, <3>2, AgreedTail
  <2>3. CASE m.at = c
    <3>0. ~ Untold(c)
      BY <1>2, <2>3 DEF Untold, About
    <3>1. \A i \in DOMAIN up : LastWord(i, c) /\ i # 1 => i - 1 \in DOMAIN up' /\ LastWord(i - 1, c)' /\ up'[i - 1] = up[i]
      BY <1>0, <1>2, LastWordTail
    <3>2. Waiting(c)' <=> Waiting(c)
      BY <2>1 DEF Waiting
    <3>3. CASE Waiting(c)
      <4>1. chan[c].st = "pending" /\ Asking(c)
        BY <2>1, <3>0, <3>3 DEF Agreed, Told
      <4>2. PICK i \in DOMAIN up : /\ LastWord(i, c) /\ up[i].ev = "subscribe" /\ up[i].cid = chan[c].cid
                                   /\ \A j \in DOMAIN up : j # i => up[j].cid # chan[c].cid
                                   /\ \A x \in Elems(down) : x.cid # chan[c].cid
        BY <4>1 DEF Asking
      <4>3. i # 1
        BY <1>2, <4>2
      <4>4. i - 1 \in DOMAIN up' /\ LastWord(i - 1, c)' /\ up'[i - 1] = up[i]
        BY <3>1, <4>2, <4>3
      <4>5. \A j \in DOMAIN up' : j # i - 1 => up'[j].cid # chan'[c].cid
        <5>1. i \in Nat
          BY <1>0
        <5>2. \A j \in DOMAIN up' : j # i - 1 => j + 1 # i
          BY <1>7, <5>1
        <5> QED  BY <1>7, <2>1, <4>2, <5>2
      <4>6. Asking(c)'
        BY <1>0, <2>1, <4>2, <4>4, <4>5 DEF Asking
      <4> QED  BY <2>1, <3>2, <3>3, <4>1, <4>6 DEF Agreed
    <3>4. CASE ~ Waiting(c)
      <4>1. chan[c].st # "subscribed" /\ \E i \in DOMAIN up : LastWord(i, c) /\ up[i].ev = "unsubscribe"
        BY <2>1, <3>0, <3>4 DEF Agreed, Known, Unknown
      <4>2. PICK i \in DOMAIN up : LastWord(i, c) /\ up[i].ev = "unsubscribe"
        BY <4>1
      <4>3. CASE i = 1
        <5>1. \A x \in Elems(up') : \E j \in DOMAIN up : j > 1 /\ x = up[j]
          <6>1. \A x \in Elems(up') : \E j \in DOMAIN up' : x = up'[j]
            BY DEF Elems
          <6> QED  BY <1>7, <6>1
        <5>2. Untold(c)'
          BY <4>2, <4>3, <5>1 DEF LastWord, Untold
        <5>3. Unknown(c)'
          BY <1>5, <2>3, <5>2 DEF Unknown
        <5> QED  BY <2>1, <3>2, <3>4, <4>1, <5>3 DEF Agreed
      <4>4. CASE i # 1
        <5>1. i - 1 \in DOMAIN up' /\ LastWord(i - 1, c)' /\ up'[i - 1] = up[i]
          BY <3>1, <4>2, <4>4
        <5>2. Unknown(c)'
          BY <4>2, <5>1 DEF Unknown
        <5> QED  BY <2>1, <3>2, <3>4, <4>1, <5>2 DEF Agreed
      <4> QED  BY <4>3, <4>4
    <3> QED  BY <3>3, <3>4
  <2> QED  BY <2>2, <2>3
<1> QED  BY <1>1, <1>9, <1>10 DEF AInv

\* A stack without channels to ask for, whatever was on it before.
LEMMA TryingNone ==
    ASSUME stack' \in Seq(Frames), \A f \in Elems(stack') : f.do \notin {"tries", "cid"}
    PROVE  Trying'
<1>1. stack' # <<>> => Head(stack') \in Elems(stack') /\ Elems(Tail(stack')) \subseteq Elems(stack')
  BY ElemsOfTail
<1> QED  BY <1>1 DEF Trying, Step

\* A task of one call, or none.
LEMMA CallOrNone ==
    ASSUME NEW f \in Frames, stack' = <<f>> \/ stack' = <<>>
    PROVE  stack' \in Seq(Frames) /\ Elems(stack') \subseteq {f}
<1>1. CASE stack' = <<f>>
  BY <1>1, Alone
<1>2. CASE stack' = <<>>
  <2>1. Elems(stack') = {}
    BY <1>2, ElemsOfFew
  <2>2. stack' \in Seq(Frames)
    BY <1>2
  <2> QED  BY <2>1, <2>2
<1> QED  BY <1>1, <1>2

\* An event arrives.
LEMMA ReceiveEventAgrees ==
    ASSUME IInv, AInv, ReceiveEvent PROVE AInv'
<1> DEFINE m  == Head(down)
           f1 == ProcessPending
           f2 == Frame("respond", None)
           f3 == Frame("message", m.at)
<1>0. /\ UNCHANGED <<active, state, chan, map, up, peer, ws>> /\ down \in Seq(Messages) /\ down # <<>>
      /\ m.ev # "answer" /\ down' = Tail(down) /\ stack = <<>> /\ Elems(stack) = {}
  BY Parts, Resting DEF ReceiveEvent, linkVars, TypeOK
<1>1. m \in Messages /\ m \in Elems(down) /\ Elems(down) = {m} \cup Elems(down')
  BY <1>0, ElemsOfTail
<1>2. Introduced' /\ NotYet' /\ Current' /\ Torn'
  BY <1>0 DEF AInv, Introduced, Untold, NotYet, Waiting, Current, Torn
<1>3. Agreeing'
  <2> SUFFICES ASSUME state = "open", ws = "open", NEW c \in Channels PROVE Agreed(c)'
    BY <1>0 DEF Agreeing
  <2>1. Agreed(c) /\ chan'[c] = chan[c]
    BY <1>0 DEF AInv, Agreeing
  <2>2. Waiting(c) => m.cid # chan[c].cid
    BY <1>0, <1>1, <2>1 DEF Agreed, Asking, Told
  <2>3. Waiting(c) => \A x \in Elems(down) \cup Elems(down') :
                          x.cid = chan[c].cid => x \in Elems(down) /\ x \in Elems(down')
    BY <1>1, <2>2
  <2> QED  BY <1>0, <2>1, <2>3, AgreedSame
<1>4. f1 \in Frames /\ f1.do = "tries" /\ f1.of = Pending /\ f2 \in Frames /\ f2.do = "respond"
  <2>1. None \in Names /\ Pending \in SUBSET Channels
    BY NamesDiffer DEF Pending
  <2>2. Frame("tries", None) \in Frames /\ Frame("tries", None).do = "tries"
        /\ f2 \in Frames /\ f2.do = "respond"
    BY <2>1, FrameIs, DosAre
  <2>3. f1 \in Frames /\ f1.do = "tries" /\ f1.of = Pending
    BY <2>1, <2>2, FrameWithOf DEF ProcessPending
  <2> QED  BY <2>2, <2>3
<1>5. f3 \in Frames /\ f3.do = "message"
  <2>1. m.at \in Names
    BY <1>1 DEF Messages
  <2> QED  BY <2>1, FrameIs, DosAre
<1>6. \/ state = "closed"
      \/ stack' = (IF auth THEN <<>> ELSE <<f1>>) \o <<f2>>
      \/ stack' = IF chan[m.at].st \in {"subscribed", "pending"} THEN <<f3>> ELSE <<>>
  BY DEF ReceiveEvent
<1> HIDE DEF m, f1, f2, f3
<1>7. CASE state = "closed"
  BY <1>0, <1>2, <1>3, <1>7 DEF AInv, Trying
<1>8. CASE stack' = (IF auth THEN <<>> ELSE <<f1>>) \o <<f2>>
  <2> DEFINE s == <<f2>>
  <2>1. s \in Seq(Frames) /\ Elems(s) = {f2}
    BY <1>4, Alone
  <2>2. <<>> \o s = s
    BY <2>1, Beside
  <2>3. stack' = s \/ stack' = <<f1>> \o s
    BY <1>8, <2>2, Zenon
  <2> HIDE DEF s
  <2>4. CASE stack' = s
    BY <1>2, <1>3, <1>4, <2>1, <2>4, TryingNone DEF AInv
  <2>5. CASE stack' = <<f1>> \o s
    <3>1. \A g \in Elems(s) : g.do \notin {"tries", "cid"} \/ (stack # <<>> /\ g \in Elems(Tail(stack)))
      BY <1>4, <2>1
    <3>2. \A c \in f1.of : chan'[c].st = "pending"
      BY <1>0, <1>4 DEF Pending
    <3>3. Trying'
      BY <1>0, <1>4, <2>1, <2>5, <3>1, <3>2, TryingPushes DEF AInv
    <3> QED  BY <1>2, <1>3, <3>3 DEF AInv
  <2> QED  BY <2>3, <2>4, <2>5
<1>9. CASE stack' = IF chan[m.at].st \in {"subscribed", "pending"} THEN <<f3>> ELSE <<>>
  <2>1. stack' = <<f3>> \/ stack' = <<>>
    BY <1>9
  <2>2. stack' \in Seq(Frames) /\ Elems(stack') \subseteq {f3}
    BY <1>5, <2>1, CallOrNone
  <2> QED  BY <1>2, <1>3, <1>5, <2>2, TryingNone DEF AInv
<1> QED  BY <1>6, <1>7, <1>8, <1>9

\* An answer arrives.
LEMMA ReceiveAnswerAgrees ==
    ASSUME IInv, AInv, ReceiveAnswer PROVE AInv'
<1> DEFINE m == Head(down)
           g(e) == IF m.ok THEN Frame("answered", e) ELSE Denied(e)
           f1 == Frame("deauthenticate", None)
           f2 == [Frame("open", None) EXCEPT !.n = IF m.ok THEN 1 ELSE 0]
           f3(e) == Frame("subscribe", e)
<1>0. /\ UNCHANGED <<active, up, peer, ws>> /\ down \in Seq(Messages) /\ down # <<>> /\ ws = "open"
      /\ m.ev = "answer" /\ down' = Tail(down) /\ stack = <<>> /\ Elems(stack) = {} /\ map' = MinusCid(map, m.cid)
      /\ map \in Seq(Entries)
      /\ chan \in [Channels -> [st : {"none", "unsubscribed", "pending", "subscribed"}, cid : 0 .. MaxCid, torn : BOOLEAN]]
  BY Parts, Resting DEF ReceiveAnswer, MinusCid, TypeOK
<1>1. m \in Messages /\ m \in Elems(down) /\ Elems(down) = {m} \cup Elems(down')
  BY <1>0, ElemsOfTail
<1>2. Elems(map') = {x \in Elems(map) : x.cid # m.cid} /\ Elems(map) \subseteq Entries
  <2>1. map \in Seq(Entries) /\ Pairwise(map, EntriesDiffer) /\ map' = MinusCid(map, m.cid)
    BY <1>0, Parts DEF Held
  <2> HIDE DEF m
  <2>2. Elems(map') = {x \in Elems(map) : x.cid # m.cid}
    BY <2>1, WithoutCid
  <2>3. Elems(map) \subseteq Entries
    BY <2>1, ElemsTyped
  <2> QED  BY <2>2, <2>3
<1>3. \/ /\ \A e \in Elems(map) : e.cid # m.cid
         /\ UNCHANGED <<state, chan, stack>>
      \/ \E e \in Elems(map) :
               /\ e.cid = m.cid
               /\ \/ /\ e.at = Handshake
                     /\ Opened(m.ok)
                     /\ UNCHANGED chan
                  \/ /\ e.at \in Calls
                     /\ stack' = IF e.at \in asked THEN <<g(e.at)>> ELSE <<>>
                     /\ UNCHANGED <<state, chan>>
                  \/ /\ e.at \in Channels
                     /\ chan' = [chan EXCEPT ![e.at] =
                                   Settled(@, IF m.ok THEN "subscribed" ELSE "unsubscribed")]
                     /\ stack' = IF m.ok /\ chan[e.at].st \notin {"none", "subscribed"}
                                 THEN <<f3(e.at)>> ELSE <<>>
                     /\ state' = state
  BY DEF ReceiveAnswer
<1> HIDE DEF m
<1>4. ASSUME NEW c \in Channels, Agreed(c), chan'[c] = chan[c], Waiting(c) => m.cid # chan[c].cid
      PROVE  Agreed(c)'
  <2>1. Waiting(c) => \A x \in Elems(down) \cup Elems(down') :
                          x.cid = chan[c].cid => x \in Elems(down) /\ x \in Elems(down')
    BY <1>1, <1>4
  <2> QED  BY <1>0, <1>4, <2>1, AgreedSame
<1>5. \A x \in Elems(map), c \in Channels : x.cid = chan[c].cid => x.at = c
  BY Parts DEF Owned
<1>6. ASSUME UNCHANGED <<state, chan>>, \A c \in Channels : Waiting(c) => m.cid # chan[c].cid, Trying'
      PROVE  AInv'
  <2>1. Agreeing'
    BY <1>0, <1>4, <1>6 DEF AInv, Agreeing
  <2>2. NotYet' /\ Introduced' /\ Torn' /\ Current'
    BY <1>0, <1>2, <1>6 DEF AInv, Introduced, Untold, NotYet, Waiting, Current, Torn
  <2> QED  BY <1>6, <2>1, <2>2 DEF AInv
<1>7. CASE /\ \A e \in Elems(map) : e.cid # m.cid
           /\ UNCHANGED <<state, chan, stack>>
  <2>1. ASSUME NEW c \in Channels, Waiting(c) PROVE m.cid # chan[c].cid
    <3>1. [cid |-> chan[c].cid, at |-> c] \in Elems(map)
      BY <2>1, Parts DEF Waiting, Requested
    <3> QED  BY <1>7, <3>1
  <2>2. Trying'
    <3>1. stack' = <<>> /\ Elems(stack') = {}
      BY <1>0, <1>7
    <3>2. stack' \in Seq(Frames)
      BY <3>1
    <3> QED  BY <3>1, <3>2, TryingNone
  <2> QED  BY <1>6, <1>7, <2>1, <2>2
<1>8. ASSUME NEW e \in Elems(map), e.cid = m.cid, e.at = Handshake, Opened(m.ok), UNCHANGED chan
      PROVE  AInv'
  <2>1. state = "connecting" /\ active /\ state' = "open"
    BY <1>8, Parts DEF Disciplined, Opened, TypeOK
  <2>2. \A c \in Channels : ~ Waiting(c) /\ chan[c].st # "subscribed" /\ Untold(c) /\ peer.subs = {}
    BY <2>1 DEF AInv, NotYet, Introduced
  <2>3. Agreeing'
    BY <1>0, <1>8, <2>2 DEF Agreeing, Agreed, Waiting, Unknown, Untold
  <2>4. NotYet' /\ Introduced' /\ Torn' /\ Current'
    BY <1>0, <1>2, <1>8, <2>1 DEF AInv, Introduced, Untold, NotYet, Current, Torn
  <2>5. m.ok \in BOOLEAN
    BY <1>1 DEF Messages
  <2>6. f1 \in Frames /\ f1.do = "deauthenticate" /\ f2 \in Frames /\ f2.do = "open"
    <3>1. None \in Names /\ (IF m.ok THEN 1 ELSE 0) \in Nat
      BY NamesDiffer
    <3>2. f1 \in Frames /\ f1.do = "deauthenticate" /\ Frame("open", None) \in Frames /\ Frame("open", None).do = "open"
      BY <3>1, FrameIs, DosAre
    <3> QED  BY <3>1, <3>2, FrameWithN
  <2>7. stack' = (IF auth /\ ~ m.ok THEN <<f1>> ELSE <<>>) \o <<f2>>
    BY <1>8 DEF Opened
  <2> HIDE DEF f1, f2
  <2> DEFINE s == <<f2>>
             r == <<f1>>
  <2>8. s \in Seq(Frames) /\ Elems(s) = {f2} /\ r \in Seq(Frames) /\ Elems(r) = {f1}
    BY <2>6, Alone
  <2>9. <<>> \o s = s
    BY <2>8, Beside
  <2>10. stack' = s \/ stack' = r \o s
    BY <2>7, <2>9, Zenon
  <2> HIDE DEF s, r
  <2>11. r \o s \in Seq(Frames) /\ Elems(r \o s) = {f1, f2}
    BY <2>8, ElemsOfConcat
  <2>12. Trying'
    BY <2>6, <2>8, <2>10, <2>11, TryingNone
  <2> QED  BY <2>3, <2>4, <2>12 DEF AInv
<1>9. ASSUME NEW e \in Elems(map), e.cid = m.cid, e.at \in Calls,
             stack' = IF e.at \in asked THEN <<g(e.at)>> ELSE <<>>, UNCHANGED <<state, chan>>
      PROVE  AInv'
  <2>1. \A c \in Channels : m.cid # chan[c].cid
    BY <1>5, <1>9, NamesDiffer
  <2>2. g(e.at) \in Frames /\ g(e.at).do \in {"answered", "refused"}
    <3>1. e.at \in Names /\ 1 \in Nat
      BY <1>9, NamesDiffer
    <3>2. Frame("answered", e.at) \in Frames /\ Frame("answered", e.at).do = "answered"
          /\ Frame("refused", e.at) \in Frames /\ Frame("refused", e.at).do = "refused"
      BY <3>1, FrameIs, DosAre
    <3>3. Denied(e.at) \in Frames /\ Denied(e.at).do = "refused"
      BY <3>1, <3>2, FrameWithN DEF Denied
    <3> QED  BY <3>2, <3>3
  <2> DEFINE f == g(e.at)
  <2>3. stack' = <<f>> \/ stack' = <<>>
    BY <1>9
  <2>4. f \in Frames /\ f.do \in {"answered", "refused"}
    BY <2>2
  <2> HIDE DEF f
  <2>5. stack' \in Seq(Frames) /\ Elems(stack') \subseteq {f}
    BY <2>3, <2>4, CallOrNone
  <2>6. Trying'
    BY <2>4, <2>5, TryingNone
  <2> QED  BY <1>6, <1>9, <2>1, <2>6
<1>10. ASSUME NEW e \in Elems(map), e.cid = m.cid, e.at \in Channels,
              chan' = [chan EXCEPT ![e.at] = Settled(@, IF m.ok THEN "subscribed" ELSE "unsubscribed")],
              stack' = IF m.ok /\ chan[e.at].st \notin {"none", "subscribed"} THEN <<f3(e.at)>> ELSE <<>>,
              state' = state
       PROVE  AInv'
  <2> DEFINE c == e.at
             f == f3(e.at)
  <2>1. active => state = "open"
    <3>1. c # Handshake /\ map # <<>>
      BY <1>10, NamesDiffer, ElemsOfFew
    <3> QED  BY <1>10, <3>1, Parts DEF Disciplined, TypeOK
  <2>2. state = "open" => active
    BY Parts DEF Disciplined
  <2>3. f \in Frames /\ f.do = "subscribe"
    <3>1. e.at \in Names
      BY <1>10, NamesDiffer
    <3> QED  BY <3>1, FrameIs, DosAre
  <2>4. stack' = <<f>> \/ stack' = <<>>
    BY <1>10
  <2> HIDE DEF f
  <2>5. stack' \in Seq(Frames) /\ Elems(stack') \subseteq {f}
    BY <2>3, <2>4, CallOrNone
  <2>6. Trying'
    BY <2>3, <2>5, TryingNone
  <2>7. /\ \A d \in Channels \ {c} : chan'[d] = chan[d]
        /\ chan'[c].cid = 0 /\ ~ chan'[c].torn
        /\ chan[c].st = "pending" => chan'[c].st = IF m.ok THEN "subscribed" ELSE "unsubscribed"
    BY <1>0, <1>10 DEF Settled, NoChannel
  <2>8. active => chan[c].cid = m.cid /\ ~ chan[c].torn /\ chan[c].st = "pending" /\ m.cid # 0
    <3>1. e.cid # 0
      BY <1>2, SCClientAssumption DEF Entries, Cids
    <3> QED  BY <1>10, <3>1 DEF AInv, Current
  <2>9. Agreeing'
    <3> SUFFICES ASSUME state = "open", NEW d \in Channels PROVE Agreed(d)'
      BY <1>10 DEF Agreeing
    <3>1. Agreed(d)
      BY <1>0 DEF AInv, Agreeing
    <3>2. CASE d # c
      <4>1. m.cid # chan[d].cid
        BY <1>5, <1>10, <3>2
      <4> QED  BY <1>4, <2>7, <3>1, <3>2, <4>1
    <3>3. CASE d = c
      <4>1. Waiting(c) /\ ~ Waiting(c)'
        BY <2>2, <2>7, <2>8 DEF Waiting
      <4>2. Told(c)
        BY <1>1, <2>2, <2>8, <3>1, <3>3, <4>1 DEF Agreed, Asking
      <4>3. Untold(c)' /\ (m.ok <=> c \in peer'.subs)
        BY <1>0, <1>1, <2>2, <2>8, <4>2 DEF Told, Untold
      <4>4. m.ok \in BOOLEAN
        BY <1>1 DEF Messages
      <4>5. chan'[c].st = IF m.ok THEN "subscribed" ELSE "unsubscribed"
        BY <2>2, <2>7, <2>8
      <4>6. CASE m.ok
        BY <3>3, <4>1, <4>3, <4>5, <4>6 DEF Agreed, Known
      <4>7. CASE ~ m.ok
        BY <3>3, <4>1, <4>3, <4>5, <4>7 DEF Agreed, Unknown
      <4> QED  BY <4>6, <4>7
    <3> QED  BY <3>2, <3>3
  <2>10. NotYet' /\ Introduced' /\ Torn'
    BY <1>0, <1>10, <2>1, <2>7 DEF AInv, Introduced, Untold, NotYet, Torn
  <2>11. Current'
    <3> SUFFICES ASSUME active, NEW x \in Elems(map'), x.at \in Channels
                 PROVE  chan'[x.at].cid = x.cid /\ ~ chan'[x.at].torn /\ chan'[x.at].st = "pending"
      BY <1>0 DEF Current
    <3>1. x \in Elems(map) /\ x.cid # m.cid
      BY <1>2
    <3>2. chan[x.at].cid = x.cid /\ ~ chan[x.at].torn /\ chan[x.at].st = "pending"
      BY <3>1 DEF AInv, Current
    <3>3. x.at # c
      BY <2>8, <3>1, <3>2
    <3> QED  BY <2>7, <3>2, <3>3
  <2> QED  BY <2>6, <2>9, <2>10, <2>11 DEF AInv
<1> QED  BY <1>3, <1>7, <1>8, <1>9, <1>10

\* A page calls from one of its callbacks, or in a task of its own.
LEMMA HookOnTop ==
    ASSUME IInv, NEW hooks, hooks \subseteq Hooks, From(hooks)
    PROVE  \A g \in Elems(stack) : g.do \notin {"tries", "cid"} \/ (stack # <<>> /\ g \in Elems(Tail(stack)))
<1>1. CASE Idle
  BY <1>1, ElemsOfFew DEF Idle
<1>2. CASE ~ Idle
  <2>1. stack # <<>> /\ Top.do \in Hooks
    BY <1>2 DEF From, Step, Top, Idle
  <2>2. Elems(stack) = {Top} \cup Elems(Tail(stack))
    BY <2>1, Popped, Parts
  <2> QED  BY <2>1, <2>2 DEF Hooks
<1> QED  BY <1>1, <1>2

\* A page emits an event.
LEMMA EmitAgrees ==
    ASSUME IInv, AInv, IInv', NEW rest, Remains(rest), NEW e \in Calls \cup Casts, Emit(e, rest)
    PROVE  AInv'
<1> DEFINE f == Frame("flush", First(buffer'))
<1>2. rest \in Seq(Frames) /\ stack' \in Seq(Frames)
  BY DEF Remains, IInv, Typed, TypeOK
<1>3. /\ UNCHANGED <<active, chan>>
      /\ state = "closed" /\ active => NewTransport
      /\ ~ (state = "closed" /\ active) => UNCHANGED <<state, map, wireVars>>
      /\ stack' = (IF state = "open" THEN <<f>> ELSE <<>>) \o rest
  BY DEF Emit
<1>4. f \in Frames /\ f.do = "flush"
  <2>1. First(buffer') \in Names
    <3>1. buffer' \in Seq(Calls \cup Casts)
      BY DEF IInv, Typed, TypeOK
    <3> QED  BY <3>1, FirstTyped, NamesDiffer
  <2> QED  BY <2>1, FrameIs, DosAre
<1>5. CASE state = "closed" /\ active
  BY <1>3, <1>5, NewTransportAgrees
<1>6. CASE ~ (state = "closed" /\ active)
  <2>1. UNCHANGED <<state, map, ws, up, down, peer>>
    BY <1>3, <1>6 DEF wireVars
  <2> HIDE DEF f
  <2>2. \A g \in Elems(stack') : g \in Elems(rest) \/ g = f
    <3> DEFINE s == <<f>>
    <3>1. s \in Seq(Frames) /\ Elems(s) = {f}
      BY <1>4, Alone
    <3>2. <<>> \o rest = rest
      BY <1>2, Beside
    <3>3. stack' = rest \/ stack' = s \o rest
      BY <1>3, <3>2, Zenon
    <3> HIDE DEF s
    <3>4. Elems(s \o rest) = Elems(s) \cup Elems(rest)
      BY <1>2, <3>1, ElemsOfConcat
    <3> QED  BY <3>1, <3>3, <3>4
  <2>3. \A g \in Elems(rest) : g.do \notin {"tries", "cid"} \/ (stack # <<>> /\ g \in Elems(Tail(stack)))
    BY DEF Remains
  <2>4. Trying'
    BY <1>2, <1>4, <2>1, <2>2, <2>3, TryingPops DEF AInv
  <2> QED  BY <1>3, <2>1, <2>4, ClientAgrees
<1> QED  BY <1>5, <1>6

\* The page's callback emits and still has to return.
LEMMA PageEmitsAgrees ==
    ASSUME IInv, AInv, IInv', PageEmits PROVE AInv'
  BY QuietCallbacks, EmitAgrees DEF PageEmits

\* A page subscribes.
LEMMA SubscribeAgrees ==
    ASSUME IInv, AInv, IInv', NEW rest, Remains(rest), NEW c \in Channels, Subscribe({c}, rest)
    PROVE  AInv'
<1> DEFINE fresh == {d \in {c} : chan[d].st \in {"none", "unsubscribed"}}
           f == [Frame("tries", None) EXCEPT !.of = fresh]
<1>2. /\ rest \in Seq(Frames)
      /\ chan \in [Channels -> [st : {"none", "unsubscribed", "pending", "subscribed"}, cid : 0 .. MaxCid, torn : BOOLEAN]]
  BY Parts DEF Remains, TypeOK
<1>3. /\ chan' = [d \in Channels |-> IF d \in fresh THEN [chan[d] EXCEPT !.st = "pending"] ELSE chan[d]]
      /\ UNCHANGED <<active, state, map, ws, up, down, peer>>
      /\ fresh = {} => stack' = rest
      /\ fresh # {} => stack' = <<f>> \o rest
  BY <1>2, Beside DEF Subscribe, selfVars, wireVars
<1>4. fresh \in SUBSET Channels /\ \A d \in fresh : chan[d].st \in {"none", "unsubscribed"}
  OBVIOUS
<1> HIDE DEF fresh
<1>5. f \in Frames /\ f.do = "tries" /\ f.of = fresh
  <2>1. Frame("tries", None) \in Frames /\ Frame("tries", None).do = "tries"
    BY NamesDiffer, FrameIs, DosAre
  <2> QED  BY <1>4, <2>1, FrameWithOf
<1> HIDE DEF f
<1>6. \A d \in Channels : /\ chan'[d].cid = chan[d].cid /\ chan'[d].torn = chan[d].torn
                          /\ d \in fresh => chan'[d].st = "pending"
                          /\ d \notin fresh => chan'[d] = chan[d]
  BY <1>2, <1>3
<1>7. Trying'
  <2>1. /\ \A g \in Elems(rest) : g.do \notin {"tries", "cid"} \/ (stack # <<>> /\ g \in Elems(Tail(stack)))
        /\ stack' \in Seq(Frames)
    BY DEF Remains, IInv, Typed, TypeOK
  <2>2. CASE fresh = {}
    BY <1>2, <1>3, <2>1, <2>2, TryingPops DEF AInv
  <2>3. CASE fresh # {}
    <3>1. stack' = <<f>> \o rest /\ state' = state /\ \A d \in f.of : chan'[d].st = "pending"
      BY <1>3, <1>4, <1>5, <1>6, <2>3
    <3> QED  BY <1>2, <1>5, <2>1, <3>1, TryingPushes DEF AInv
  <2> QED  BY <2>2, <2>3
<1>8. Agreeing'
  <2> SUFFICES ASSUME state = "open", ws = "open", NEW d \in Channels PROVE Agreed(d)'
    BY <1>3 DEF Agreeing
  <2>1. Agreed(d)
    BY DEF AInv, Agreeing
  <2>2. CASE d \notin fresh
    BY <1>3, <1>6, <2>1, <2>2, AgreedSame
  <2>3. CASE d \in fresh
    <3>1. ~ Waiting(d) /\ Unknown(d) /\ ~ Waiting(d)'
      BY <1>4, <1>6, <2>1, <2>3 DEF Agreed, Waiting
    <3>2. Unknown(d)'
      BY <1>3, <3>1 DEF Unknown, Untold, LastWord
    <3> QED  BY <1>6, <2>3, <3>1, <3>2 DEF Agreed
  <2> QED  BY <2>2, <2>3
<1>9. NotYet' /\ Torn'
  BY <1>3, <1>6 DEF AInv, NotYet, Waiting, Torn
<1>10. Introduced'
  BY <1>3 DEF AInv, Introduced, Untold
<1>11. Current'
  BY <1>3, <1>4, <1>6 DEF AInv, Current
<1> QED  BY <1>7, <1>8, <1>9, <1>10, <1>11 DEF AInv

\* The page's callback subscribes and still has to return.
LEMMA PageSubscribesAgrees ==
    ASSUME IInv, AInv, IInv', PageSubscribes PROVE AInv'
<1>1. From({"connect", "answered", "subscribe", "message"})
  BY DEF PageSubscribes, From
<1> QED  BY <1>1, QuietCallbacks, SubscribeAgrees DEF PageSubscribes

\* A page unsubscribes.
LEMMA UnsubscribeAgrees ==
    ASSUME IInv, AInv, From({"close"}), NEW rest, Remainder(rest), NEW c \in Channels, DestroyChannel(c, rest)
    PROVE  AInv'
<1> DEFINE mp == MinusCid(map, chan[c].cid)
           dropped == MinusChannel(rest, c)
           left == [chan EXCEPT ![c] = NoChannel]
           m == Message("unsubscribe", c, 0, TRUE)
<1>1. /\ active' = active
      /\ \/ /\ chan[c].st \in {"none", "unsubscribed"} \/ state # "open"
            /\ map' = mp \/ (map' = map /\ chan[c].st = "none")
            /\ chan' = left /\ stack' = dropped /\ UNCHANGED <<state, ws, up, down, peer>>
         \/ /\ state = "open" /\ ws = "open" /\ up' = Append(up, m) /\ map' = mp
            /\ chan' = left /\ stack' = dropped /\ UNCHANGED <<state, ws, down, peer>>
         \/ /\ state = "open" /\ ShutDown(1005, buffer, mp, left, dropped) /\ UNCHANGED <<up, peer>>
  <2>1. /\ UNCHANGED selfVars
        /\ IF chan[c].st \notin {"none", "unsubscribed"} /\ state = "open"
           THEN Send(m, buffer, mp, left, dropped)
           ELSE /\ chan' = left /\ stack' = dropped
                /\ map' = IF chan[c].st = "none" THEN map ELSE mp
                /\ UNCHANGED <<state, retry, code, buffer, wireVars>>
    BY DEF DestroyChannel, MinusCid, MinusChannel
  <2> HIDE DEF mp, dropped, left, m
  <2> QED  BY <2>1 DEF Send, selfVars, wireVars
<1>2. /\ Elems(mp) \subseteq Elems(map)
      /\ dropped \in Seq(Frames) /\ Elems(dropped) \subseteq Elems(stack)
      /\ left[c].cid = 0 /\ left[c].st = "none"
      /\ \A d \in Channels \ {c} : left[d] = chan[d]
  <2>1. /\ Elems(mp) \subseteq Elems(map)
        /\ dropped \in Seq(Frames)
        /\ Elems(dropped) = {f \in Elems(rest) : ~ (f.at = c /\ f.do \in {"cid", "fail"})}
        /\ left[c].cid = 0 /\ left[c].st = "none"
        /\ \A d \in Channels \ {c} : left[d] = chan[d]
    BY OfChannel
  <2>2. \A f \in Elems(dropped) : f \in Elems(stack)
    BY <2>1, RemainderIs
  <2> QED  BY <2>1, <2>2
<1>3. \A x \in Elems(mp) : x \in Elems(map) /\ x.cid # chan[c].cid
  <2>1. map \in Seq(Entries) /\ Pairwise(map, EntriesDiffer)
    BY Parts DEF TypeOK, Held
  <2>2. Elems(mp) = {x \in Elems(map) : x.cid # chan[c].cid}
    BY <2>1, WithoutCid
  <2> QED  BY <2>2
<1>4. m \in Messages /\ m.ev = "unsubscribe" /\ m.at = c /\ m.cid = 0
  <2>1. "unsubscribe" \in Evs /\ TRUE \in BOOLEAN /\ 0 \in 0 .. MaxCid /\ c \in Names
    BY NamesDiffer, SCClientAssumption DEF Evs
  <2> QED  BY <2>1, MessageIs, ZenonT(60)
<1>5. ~ left[c].torn
  <2>1. chan \in [Channels -> [st : {"none", "unsubscribed", "pending", "subscribed"}, cid : 0 .. MaxCid, torn : BOOLEAN]]
    BY Parts DEF TypeOK
  <2> QED  BY <2>1 DEF NoChannel
<1> HIDE DEF mp, dropped, left, m
<1>6. ASSUME stack' = dropped, state' = state PROVE Trying'
  <2>1. \A g \in Elems(stack) : g.do \notin {"tries", "cid"} \/ (stack # <<>> /\ g \in Elems(Tail(stack)))
    BY HookOnTop DEF Hooks
  <2> QED  BY <1>2, <1>6, <2>1, TryingPops DEF AInv
<1>7. ASSUME chan' = left, state' = state, map' = mp \/ (map' = map /\ chan[c].st = "none")
      PROVE  NotYet' /\ Torn' /\ Current'
  <2>1. NotYet' /\ Torn'
    BY <1>1, <1>2, <1>5, <1>7 DEF AInv, NotYet, Waiting, Torn
  <2>2. Current'
    <3> SUFFICES ASSUME active, NEW x \in Elems(map'), x.at \in Channels
                 PROVE  chan'[x.at].cid = x.cid /\ ~ chan'[x.at].torn /\ chan'[x.at].st = "pending"
      BY <1>1 DEF Current
    <3>1. x \in Elems(map) /\ (x.cid # chan[c].cid \/ chan[c].st = "none")
      BY <1>3, <1>7
    <3>2. chan[x.at].cid = x.cid /\ ~ chan[x.at].torn /\ chan[x.at].st = "pending"
      BY <3>1 DEF AInv, Current
    <3>3. x.at # c
      BY <3>1, <3>2
    <3> QED  BY <1>2, <1>7, <3>2, <3>3
  <2> QED  BY <2>1, <2>2
<1>8. CASE /\ chan[c].st \in {"none", "unsubscribed"} \/ state # "open"
           /\ map' = mp \/ (map' = map /\ chan[c].st = "none")
           /\ chan' = left /\ stack' = dropped /\ UNCHANGED <<state, ws, up, down, peer>>
  <2>1. Trying' /\ NotYet' /\ Torn' /\ Current'
    BY <1>6, <1>7, <1>8
  <2>2. Introduced'
    BY <1>8 DEF AInv, Introduced, Untold
  <2>3. Agreeing'
    <3> SUFFICES ASSUME state = "open", ws = "open", NEW d \in Channels PROVE Agreed(d)'
      BY <1>8 DEF Agreeing
    <3>1. Agreed(d)
      BY DEF AInv, Agreeing
    <3>2. CASE d # c
      <4>1. chan'[d] = chan[d]
        BY <1>2, <1>8, <3>2
      <4> QED  BY <1>8, <3>1, <4>1, AgreedSame
    <3>3. CASE d = c
      <4>1. Unknown(c) /\ ~ Waiting(c)' /\ chan'[c].st = "none"
        BY <1>2, <1>8, <3>1, <3>3 DEF Agreed, Waiting
      <4>2. Unknown(c)'
        BY <1>8, <4>1 DEF Unknown, Untold, LastWord
      <4> QED  BY <3>3, <4>1, <4>2 DEF Agreed
    <3> QED  BY <3>2, <3>3
  <2> QED  BY <2>1, <2>2, <2>3 DEF AInv
<1>9. CASE /\ state = "open" /\ ws = "open" /\ up' = Append(up, m) /\ map' = mp
           /\ chan' = left /\ stack' = dropped /\ UNCHANGED <<state, ws, down, peer>>
  <2>0. PICK n \in Nat : n = Len(up)
    BY Parts DEF TypeOK
  <2>1. /\ up \in Seq(Messages) /\ DOMAIN up = 1 .. n /\ DOMAIN up' = 1 .. n + 1
        /\ up'[n + 1] = m /\ \A j \in 1 .. n : up'[j] = up[j]
    BY <1>4, <1>9, <2>0, Parts DEF TypeOK
  <2>2. Trying' /\ NotYet' /\ Torn' /\ Current'
    BY <1>6, <1>7, <1>9
  <2>3. Introduced'
    <3>1. \A i \in DOMAIN up' : up'[i].ev = "handshake" => i \in DOMAIN up /\ up'[i] = up[i]
      BY <1>4, <2>1
    <3> QED  BY <1>9, <3>1 DEF AInv, Introduced
  <2>4. Agreeing'
    <3> SUFFICES ASSUME NEW d \in Channels PROVE Agreed(d)'
      BY DEF Agreeing
    <3>1. Agreed(d)
      BY <1>9 DEF AInv, Agreeing
    <3>2. CASE d # c
      <4>1. chan'[d] = chan[d] /\ ~ About(m, d) /\ (Waiting(d) => m.cid # chan[d].cid)
        BY <1>2, <1>4, <1>9, <3>2 DEF About, Waiting
      <4> QED  BY <1>4, <1>9, <2>1, <3>1, <4>1, AgreedAppend
    <3>3. CASE d = c
      <4>1. ~ Waiting(c)' /\ chan'[c].st = "none"
        BY <1>2, <1>9 DEF Waiting
      <4>2. LastWord(n + 1, c)' /\ n + 1 \in DOMAIN up' /\ up'[n + 1].ev = "unsubscribe"
        BY <1>4, <2>1 DEF LastWord, About
      <4>3. Unknown(c)'
        BY <4>2 DEF Unknown
      <4> QED  BY <3>3, <4>1, <4>3 DEF Agreed
    <3> QED  BY <3>2, <3>3
  <2> QED  BY <2>2, <2>3, <2>4 DEF AInv
<1>10. CASE state = "open" /\ ShutDown(1005, buffer, mp, left, dropped) /\ UNCHANGED <<up, peer>>
  <2>1. state' = "closed"
    BY <1>10 DEF ShutDown
  <2>2. Introduced'
    BY <1>10, <2>1, IntroducedStill DEF AInv
  <2> QED  BY <1>10, <2>2, ClosingAgrees
<1> QED  BY <1>1, <1>8, <1>9, <1>10

\* So it is while the page's handler runs.
LEMMA PageUnsubscribesAgrees ==
    ASSUME IInv, AInv, PageUnsubscribes PROVE AInv'
  BY UnsubscribeAgrees DEF PageUnsubscribes, Remainder

\* The client that is constructed agrees.
LEMMA InitAInv == Init => AInv
<1> SUFFICES ASSUME Init PROVE AInv
  OBVIOUS
<1>1. /\ state = "connecting" /\ up = <<>> /\ map = <<>> /\ peer.subs = {}
      /\ \A c \in Channels : chan[c].cid = 0 /\ chan[c].st = "none" /\ ~ chan[c].torn
  BY DEF Init, Stranger, NoChannel
<1>2. Elems(up) = {} /\ Elems(map) = {} /\ DOMAIN up = {}
  BY <1>1, ElemsOfFew
<1> QED  BY <1>1, <1>2 DEF AInv, Agreeing, Trying, NotYet, Introduced, Untold, Current, Torn, Waiting

\* Every step keeps it so.
LEMMA StepAgrees == IInv /\ AInv /\ IInv' /\ [Next]_vars => AInv'
<1> SUFFICES ASSUME IInv, AInv, IInv', [Next]_vars PROVE AInv'
  OBVIOUS
<1>1. CASE AbortBuffered \/ TryReconnect \/ CloseWebSocket \/ FlushAll \/ CancelResponse \/ PageReturns
  BY <1>1, QuietAgrees
<1>2. CASE FailPending \/ TrySubscribe \/ AssignCid \/ Flush \/ Respond \/ Connected
  BY <1>2, FailPendingAgrees, TrySubscribeAgrees, AssignCidAgrees, FlushAgrees, RespondAgrees, ConnectedAgrees
<1>3. CASE WsClosing \/ ReconnectTimer \/ WsOpen \/ \E e \in Calls : AckTimeout(e)
  BY <1>3, BrowserAgrees
<1>4. CASE WsError \/ ConnectTimeout \/ PingTimeout \/ WsClose \/ HandshakeTimeout \/ PageDestroys \/ PageUnloads
  BY <1>4, BrokenAgrees
<1>5. CASE ReceiveAnswer \/ ReceiveEvent
  BY <1>5, ReceiveAnswerAgrees, ReceiveEventAgrees
<1>6. CASE Peer
  BY <1>6, PeerOtherAgrees, PeerSubscribeAgrees, PeerUnsubscribeAgrees DEF Peer
<1>7. CASE PageEmits \/ PageSubscribes \/ PageUnsubscribes
  BY <1>7, PageEmitsAgrees, PageSubscribesAgrees, PageUnsubscribesAgrees
<1>8. CASE UNCHANGED vars
  BY <1>8 DEF vars, AInv, Agreeing, Agreed, Trying, Step, Top, NotYet, Introduced, Untold, LastWord,
              Waiting, Asking, Told, Known, Unknown, Current, Torn
<1> QED  BY <1>1, <1>2, <1>3, <1>4, <1>5, <1>6, <1>7, <1>8 DEF Next, Library, Browser, Page

\* With nothing under way a client that is open and the server have the same record.
LEMMA SameRecord == IInv /\ AInv => Agreement
<1> SUFFICES ASSUME IInv, AInv, state = "open", ws = "open", up = <<>>, down = <<>>
             PROVE  peer.subs = {c \in Channels : chan[c].st = "subscribed"}
  BY DEF Agreement
<1>1. Elems(up) = {} /\ Elems(down) = {} /\ DOMAIN up = {}
  BY ElemsOfFew
<1>2. peer.subs \subseteq Channels
  BY Parts DEF TypeOK
<1>3. \A c \in Channels : Agreed(c) /\ ~ Asking(c) /\ ~ Told(c)
  BY <1>1 DEF AInv, Agreeing, Asking, Told
<1>4. \A c \in Channels : chan[c].st = "subscribed" <=> c \in peer.subs
  BY <1>1, <1>3 DEF Agreed, Known, Unknown
<1> QED  BY <1>2, <1>4

\* With nothing under way the server delivers exactly the channels an open client counts
\* as subscribed: whatever requests, answers, rejections, reconnections and calls of the
\* page came before, in any order (_trySubscribe, destroyChannel, _suspendSubscriptions,
\* handleSubscribe, handleUnsubscribe).
THEOREM RecordsAgree == Spec => []Agreement
<1>1. Init => AInv
  BY InitAInv
<1>2. IInv /\ AInv /\ IInv' /\ [Next]_vars => AInv'
  BY StepAgrees
<1>3. IInv /\ AInv => Agreement
  BY SameRecord
<1> QED  BY <1>1, <1>2, <1>3, Inductive, PTL DEF Spec

-----------------------------------------------------------------------------
(***************************************************************************)
(* For the pages: the task that opens a connection, and the one that       *)
(* closes it.                                                              *)
(***************************************************************************)

\* _onSCOpen is running up to its 'connect': it calls 'deauthenticate' before, and
\* processPendingSubscriptions in between, and has only the flush left after it.
Starts  == {"open", "connect"}
Opening == Doing("open") \/ Doing("connect")
Opens == {p \in Frames \X Frames :
            /\ p[1].do \in Starts => p[2].do = "flushall"
            /\ p[2].do \in Starts => p[1].do \in {"deauthenticate", "tries"}}
OpeningTask == (Opening => state = "open") /\ Pairwise(stack, Opens)

\* No call of a task opens.
LEMMA NoneOpens ==
    ASSUME NEW s \in Seq(Frames), \A f \in Elems(s) : f.do \notin Starts
    PROVE  Pairwise(s, Opens)
<1>1. \A i \in DOMAIN s : s[i] \in Frames /\ s[i] \in Elems(s)
  BY ElemsTyped
<1>2. ASSUME NEW i \in DOMAIN s, NEW j \in DOMAIN s PROVE <<s[i], s[j]>> \in Opens
  BY <1>1 DEF Opens
<1> QED  BY <1>2 DEF Pairwise

\* The rest of the task that opens, once 'connect' has been called; and while anything but
\* the calls before it is made, nothing opens.
LEMMA Opened1 ==
    ASSUME IInv, OpeningTask, stack # <<>>
    PROVE  /\ Pairwise(Tail(stack), Opens)
           /\ Top.do \in Starts => \A g \in Elems(Tail(stack)) : g.do = "flushall"
           /\ Top.do \notin Starts \cup {"deauthenticate", "tries"} => ~ Opening
<1>1. /\ stack \in Seq(Frames) /\ Top \in Frames /\ Elems(Tail(stack)) \subseteq Frames
      /\ Elems(stack) = {Top} \cup Elems(Tail(stack))
  BY Popped, Parts DEF TypeOK
<1>2. Pairwise(Tail(stack), Opens) /\ \A g \in Elems(Tail(stack)) : <<Top, g>> \in Opens
  BY <1>1, PairwiseTail DEF OpeningTask, Top
<1>3. \A g \in Elems(Tail(stack)) : /\ Top.do \in Starts => g.do = "flushall"
                                    /\ g.do \in Starts => Top.do \in {"deauthenticate", "tries"}
  BY <1>2 DEF Opens
<1>4. Top.do \notin Starts \cup {"deauthenticate", "tries"} => ~ Opening
  BY <1>1, <1>3 DEF Opening, Doing, Starts
<1> QED  BY <1>2, <1>3, <1>4

\* A call before others, when only what they are is of interest.
LEMMA Under ==
    ASSUME NEW f \in Frames, NEW t \in Seq(Frames)
    PROVE  /\ <<f>> \o t \in Seq(Frames) /\ Elems(<<f>> \o t) = {f} \cup Elems(t)
           /\ Pairwise(t, Opens) /\ (\A g \in Elems(t) : <<f, g>> \in Opens) => Pairwise(<<f>> \o t, Opens)
<1> DEFINE s == <<f>>
<1>1. s \in Seq(Frames) /\ Elems(s) = {f} /\ Pairwise(s, Opens)
  <2>1. s \in Seq(Frames) /\ Elems(s) = {f}
    BY Alone
  <2>2. Pairwise(s, Opens)
    BY PairwiseFew
  <2> QED  BY <2>1, <2>2
<1> HIDE DEF s
<1>2. s \o t \in Seq(Frames) /\ Elems(s \o t) = {f} \cup Elems(t)
  BY <1>1, ElemsOfConcat
<1>3. ASSUME Pairwise(t, Opens), \A g \in Elems(t) : <<f, g>> \in Opens PROVE Pairwise(s \o t, Opens)
  <2>1. \A x \in Elems(s), y \in Elems(t) : <<x, y>> \in Opens
    BY <1>1, <1>3
  <2> QED  BY <1>1, <1>3, <2>1, PairwiseConcat
<1> QED  BY <1>2, <1>3 DEF s

\* The calls a close leaves behind.
LEMMA ShutCalls ==
    ASSUME state # "closed", NEW how \in Nat, NEW buf, NEW mp, NEW ch, NEW rest,
           ShutDown(how, buf, mp, ch, rest), MayClose(buf, mp, rest)
    PROVE  /\ state' = "closed" /\ chan' = [c \in Channels |-> Suspended(ch[c])]
           /\ map' = <<>> /\ buffer' = buf
           /\ \A f \in Elems(stack') : f \in Elems(rest) \/ f.do \in Closers
           /\ Elems(rest) \subseteq Elems(stack') /\ Doing("close")'
           /\ \A f \in Elems(stack') : f \in Elems(rest) \/ f.at \notin Calls \/ f.at \in Elems(buf)
                                        \/ \E x \in Elems(mp) : x.at = f.at
<1> DEFINE left == MinusRequests(mp, ch)
           fails == Fails(left)
           f1 == Frame("abort", First(buf))
           f2 == [Frame("retry", None) EXCEPT !.n = how]
           f3 == Frame("close", None)
<1>1. /\ left \in Seq(Entries) /\ Pairwise(left, EntriesDiffer)
      /\ \A x \in Elems(left) : x.at \in Channels \cup Calls \cup {Handshake} /\ x \in Elems(mp)
  <2>1. left \in Seq(Entries) /\ Pairwise(left, EntriesDiffer)
        /\ Elems(left) = {x \in Elems(mp) : ~ (x.at \in Channels /\ ch[x.at].cid = x.cid)}
    BY WithoutRequests DEF MayClose
  <2> QED  BY <2>1 DEF MayClose
<1>2. /\ state' = "closed" /\ chan' = [c \in Channels |-> Suspended(ch[c])]
      /\ stack' = <<f1, f2, f3>> \o fails \o rest
      /\ map' = <<>> /\ buffer' = buf
  BY DEF ShutDown, MinusRequests
<1> HIDE DEF left
<1>3. /\ fails \in Seq(Frames)
      /\ \A f \in Elems(fails) : f.do = "fail" /\ \E x \in Elems(mp) : x.at = f.at
  BY <1>1, FailsAre
<1>4. /\ f1 \in Frames /\ f1.do = "abort" /\ (f1.at \notin Calls \/ f1.at \in Elems(buf))
      /\ f2 \in Frames /\ f2.do = "retry" /\ f2.at \notin Calls
      /\ f3 \in Frames /\ f3.do = "close" /\ f3.at \notin Calls
  <2>1. First(buf) \in Names /\ None \in Names /\ None \notin Calls /\ (First(buf) = None \/ First(buf) \in Elems(buf))
    BY FirstTyped, NamesDiffer DEF MayClose
  <2>2. f1 \in Frames /\ f1.do = "abort" /\ f1.at = First(buf) /\ f3 \in Frames /\ f3.do = "close" /\ f3.at = None
        /\ Frame("retry", None) \in Frames /\ Frame("retry", None).do = "retry" /\ Frame("retry", None).at = None
    BY <2>1, FrameIs, DosAre
  <2>3. f2 \in Frames /\ f2.do = "retry" /\ f2.at = None
    BY <2>2, FrameWithN
  <2> QED  BY <2>1, <2>2, <2>3
<1> HIDE DEF fails, f1, f2, f3
<1> DEFINE s == <<f1, f2, f3>>
<1>5. s \in Seq(Frames) /\ Elems(s) = {f1, f2, f3} /\ rest \in Seq(Frames)
  BY <1>4, ElemsOfFew DEF MayClose
<1>6. stack' = s \o fails \o rest
  BY <1>2
<1> HIDE DEF s
<1> DEFINE sf == s \o fails
<1>7. sf \in Seq(Frames) /\ Elems(sf) = Elems(s) \cup Elems(fails)
  BY <1>3, <1>5, ElemsOfConcat
<1>8. stack' = sf \o rest
  BY <1>6
<1> HIDE DEF sf
<1>9. Elems(stack') = Elems(sf) \cup Elems(rest)
  BY <1>5, <1>7, <1>8, ElemsOfConcat
<1>10. Doing("close")'
  BY <1>4, <1>5, <1>7, <1>9 DEF Doing
<1> QED  BY <1>2, <1>3, <1>4, <1>5, <1>7, <1>9, <1>10 DEF Closers

=============================================================================

---------------------------- MODULE CoreTheorems ----------------------------
(***************************************************************************)
(* Facts that the proofs of several modules rest on.                       *)
(* Lists: a list stays a list, and its elements are the old ones with the  *)
(* new one added or the old one gone; sorted lists; concatenations.        *)
(* The reader-writer lock: its word counts the readers.                    *)
(***************************************************************************)
EXTENDS List1, SequenceTheorems, FiniteSetTheorems, WellFoundedInduction, TLAPS

\* Removing one place of a sequence shifts what is behind it.
LEMMA RemoveAtFacts ==
    ASSUME NEW S, NEW l \in Seq(S), NEW i \in 1 .. Len(l)
    PROVE  /\ RemoveAt(l, i) \in Seq(S)
           /\ Len(RemoveAt(l, i)) = Len(l) - 1
           /\ \A j \in 1 .. Len(l) - 1 :
                 RemoveAt(l, i)[j] = IF j < i THEN l[j] ELSE l[j + 1]
<1> DEFINE a == SubSeq(l, 1, i - 1)
           b == SubSeq(l, i + 1, Len(l))
<1>1. Len(l) \in Nat
  BY LenProperties
<1>2. a \in Seq(S) /\ Len(a) = i - 1 /\ \A j \in 1 .. i - 1 : a[j] = l[j]
  BY <1>1, SubSeqProperties
<1>3. /\ b \in Seq(S)
      /\ Len(b) = Len(l) - i
      /\ \A j \in 1 .. Len(l) - i : b[j] = l[i + j]
  BY <1>1, SubSeqProperties
<1>4. RemoveAt(l, i) = a \o b
  BY DEF RemoveAt
<1> HIDE DEF a, b
<1>5. /\ a \o b \in Seq(S)
      /\ Len(a \o b) = Len(a) + Len(b)
      /\ \A j \in 1 .. Len(a) + Len(b) :
            (a \o b)[j] = IF j <= Len(a) THEN a[j] ELSE b[j - Len(a)]
  BY <1>2, <1>3, ConcatProperties
<1> QED
  BY <1>1, <1>2, <1>3, <1>4, <1>5

\* An element of the list has a place in it.
LEMMA IndexOfFacts ==
    ASSUME NEW S, NEW l \in Seq(S), NEW d \in Elems(l)
    PROVE  IndexOf(l, d) \in 1 .. Len(l) /\ l[IndexOf(l, d)] = d
  BY LenProperties DEF Elems, Range, IndexOf

\* LIST1_DEL of an element: what is left is a list of all the others.
LEMMA DelFacts ==
    ASSUME NEW S, NEW l \in Seq(S), NEW d \in Elems(l), IsList(l)
    PROVE  /\ LIST1_DEL(l, d) \in Seq(S)
           /\ IsList(LIST1_DEL(l, d))
           /\ Elems(LIST1_DEL(l, d)) = Elems(l) \ {d}
<1> DEFINE i == IndexOf(l, d)
           r == RemoveAt(l, i)
<1>1. Len(l) \in Nat /\ DOMAIN l = 1 .. Len(l)
  BY LenProperties
<1>2. i \in 1 .. Len(l) /\ l[i] = d
  BY IndexOfFacts
<1>3. LIST1_DEL(l, d) = r
  BY DEF LIST1_DEL
<1> HIDE DEF i
<1>4. /\ r \in Seq(S)
      /\ Len(r) = Len(l) - 1
      /\ DOMAIN r = 1 .. Len(l) - 1
      /\ \A j \in 1 .. Len(l) - 1 : r[j] = IF j < i THEN l[j] ELSE l[j + 1]
  BY <1>2, RemoveAtFacts, LenProperties
<1> HIDE DEF r
<1>5. IsInjective(l)
  BY DEF IsList
<1>6. IsInjective(r)
  <2>1. SUFFICES ASSUME NEW j \in 1 .. Len(l) - 1, NEW k \in 1 .. Len(l) - 1,
                        r[j] = r[k]
                 PROVE  j = k
    BY <1>4 DEF IsInjective
  <2> DEFINE old(x) == IF x < i THEN x ELSE x + 1
  <2>2. /\ old(j) \in 1 .. Len(l) /\ l[old(j)] = r[j]
        /\ old(k) \in 1 .. Len(l) /\ l[old(k)] = r[k]
    BY <1>1, <1>2, <1>4
  <2>3. old(j) = old(k)
    BY <1>1, <1>5, <2>1, <2>2 DEF IsInjective
  <2> QED
    BY <1>1, <1>2, <2>3
<1>7. ASSUME NEW x \in Range(r)
      PROVE  x \in Range(l) \ {d}
  <2>1. PICK j \in 1 .. Len(l) - 1 : r[j] = x
    BY <1>4 DEF Range
  <2>2. CASE j < i
    <3>1. j \in 1 .. Len(l) /\ j # i /\ l[j] = x
      BY <1>1, <1>2, <1>4, <2>1, <2>2
    <3> QED
      BY <1>1, <1>2, <1>5, <3>1 DEF Range, IsInjective
  <2>3. CASE ~(j < i)
    <3>1. j + 1 \in 1 .. Len(l) /\ j + 1 # i /\ l[j + 1] = x
      BY <1>1, <1>2, <1>4, <2>1, <2>3
    <3> QED
      BY <1>1, <1>2, <1>5, <3>1 DEF Range, IsInjective
  <2> QED
    BY <2>2, <2>3
<1>8. ASSUME NEW x \in Range(l) \ {d}
      PROVE  x \in Range(r)
  <2>1. PICK k \in 1 .. Len(l) : l[k] = x
    BY <1>1 DEF Range
  <2>2. k # i
    BY <1>2, <2>1
  <2>3. CASE k < i
    BY <1>1, <1>2, <1>4, <2>1, <2>3 DEF Range
  <2>4. CASE k > i
    <3>1. r[k - 1] = x /\ k - 1 \in 1 .. Len(l) - 1
      BY <1>1, <1>2, <1>4, <2>1, <2>4
    <3> QED
      BY <1>4, <3>1 DEF Range
  <2> QED
    BY <1>1, <1>2, <2>2, <2>3, <2>4
<1> QED
  BY <1>3, <1>4, <1>6, <1>7, <1>8 DEF Elems, IsList

\* LIST1_ADD of an element that is not in the list.
LEMMA AddFacts ==
    ASSUME NEW S, NEW l \in Seq(S), NEW d \in S, d \notin Elems(l), IsList(l)
    PROVE  /\ LIST1_ADD(l, d) \in Seq(S)
           /\ IsList(LIST1_ADD(l, d))
           /\ Elems(LIST1_ADD(l, d)) = Elems(l) \cup {d}
<1>1. IsInjective(l) /\ d \notin Range(l)
  BY DEF IsList, Elems
<1>2. /\ Append(l, d) \in Seq(S)
      /\ IsInjective(Append(l, d))
      /\ Range(Append(l, d)) = Range(l) \cup {d}
  BY <1>1 DEF IsInjective, Range
<1> QED
  BY <1>2 DEF LIST1_ADD, Elems, IsList

\* The elements of a list of S are in S.
LEMMA ElemsFacts ==
    ASSUME NEW S, NEW l \in Seq(S)
    PROVE  /\ Elems(l) \subseteq S
           /\ \A i \in DOMAIN l : l[i] \in Elems(l)
  BY LenProperties, ElementOfSeq DEF Elems, Range

\* LIST1_POP of a list that is not empty.
LEMMA PopFacts ==
    ASSUME NEW S, NEW l \in Seq(S), l # <<>>, IsList(l)
    PROVE  /\ Head(l) \in Elems(l)
           /\ LIST1_POP(l) \in Seq(S)
           /\ IsList(LIST1_POP(l))
           /\ Elems(LIST1_POP(l)) = Elems(l) \ {Head(l)}
<1>1. Len(l) \in Nat /\ DOMAIN l = 1 .. Len(l) /\ Len(l) > 0
  BY LenProperties, EmptySeq
<1>2. Head(l) = l[1]
  BY <1>1
<1>3. Head(l) \in Elems(l)
  BY <1>1, <1>2 DEF Elems, Range
<1> QED
  BY <1>3, DelFacts DEF LIST1_POP

\* Two lists without a common element make one list.
LEMMA ConcatFacts ==
    ASSUME NEW S, NEW s \in Seq(S), NEW t \in Seq(S),
           IsList(s), IsList(t), Elems(s) \cap Elems(t) = {}
    PROVE  /\ s \o t \in Seq(S)
           /\ IsList(s \o t)
           /\ Elems(s \o t) = Elems(s) \cup Elems(t)
<1> DEFINE r == s \o t
<1>1. /\ Len(s) \in Nat /\ DOMAIN s = 1 .. Len(s)
      /\ Len(t) \in Nat /\ DOMAIN t = 1 .. Len(t)
  BY LenProperties
<1>2. /\ r \in Seq(S) /\ DOMAIN r = 1 .. Len(s) + Len(t)
      /\ \A i \in 1 .. Len(s) + Len(t) : r[i] = IF i <= Len(s) THEN s[i] ELSE t[i - Len(s)]
  BY ConcatProperties, LenProperties
<1>3. Range(r) = Range(s) \cup Range(t)
  BY RangeConcatenation
<1> HIDE DEF r
<1>4. /\ \A i, j \in 1 .. Len(s) : s[i] = s[j] => i = j
      /\ \A i, j \in 1 .. Len(t) : t[i] = t[j] => i = j
      /\ \A i \in 1 .. Len(s), j \in 1 .. Len(t) : s[i] # t[j]
  <2>1. /\ \A i \in 1 .. Len(s) : s[i] \in Elems(s)
        /\ \A j \in 1 .. Len(t) : t[j] \in Elems(t)
    BY <1>1, ElemsFacts
  <2>2. \A i \in 1 .. Len(s), j \in 1 .. Len(t) : s[i] # t[j]
    BY <2>1
  <2> QED
    BY <1>1, <2>2 DEF IsList, IsInjective
<1>5. \A i, j \in 1 .. Len(s) + Len(t) : r[i] = r[j] => i = j
  <2> SUFFICES ASSUME NEW i \in 1 .. Len(s) + Len(t), NEW j \in 1 .. Len(s) + Len(t),
                      r[i] = r[j]
               PROVE  i = j
    OBVIOUS
  <2>1. ASSUME NEW x \in 1 .. Len(s) + Len(t)
        PROVE  \/ x \in 1 .. Len(s) /\ r[x] = s[x]
               \/ x - Len(s) \in 1 .. Len(t) /\ r[x] = t[x - Len(s)]
    BY <1>1, <1>2
  <2>2. \/ i \in 1 .. Len(s) /\ j \in 1 .. Len(s) /\ s[i] = s[j]
        \/ /\ i - Len(s) \in 1 .. Len(t) /\ j - Len(s) \in 1 .. Len(t)
           /\ t[i - Len(s)] = t[j - Len(s)]
    BY <1>4, <2>1
  <2>3. CASE i \in 1 .. Len(s) /\ j \in 1 .. Len(s) /\ s[i] = s[j]
    BY <1>4, <2>3
  <2>4. CASE /\ i - Len(s) \in 1 .. Len(t) /\ j - Len(s) \in 1 .. Len(t)
             /\ t[i - Len(s)] = t[j - Len(s)]
    <3>1. i - Len(s) = j - Len(s)
      BY <1>4, <2>4
    <3> QED
      BY <1>1, <3>1
  <2> QED
    BY <2>2, <2>3, <2>4
<1> QED
  BY <1>2, <1>3, <1>5 DEF IsList, IsInjective, Elems, r
----------------------------------------------------------------------------
\* A set of numbers that is not empty has a least element.
LEMMA LeastExists ==
    ASSUME NEW T, T \subseteq Nat, T # {}
    PROVE  \E x \in T : \A y \in T : x <= y
<1>1. PICK x \in T : \A y \in T : ~(<<y, x>> \in OpToRel(<, Nat))
  BY WFMin, NatLessThanWellFounded
<1>2. \A y \in T : ~(y < x)
  BY <1>1 DEF OpToRel
<1> QED
  BY <1>2

\* Inserting at a place shifts what is at it and behind it.
LEMMA InsertAtFacts ==
    ASSUME NEW S, NEW l \in Seq(S), NEW i \in 1 .. Len(l) + 1, NEW d \in S
    PROVE  /\ LIST1_INSERT(l, i, d) \in Seq(S)
           /\ Len(LIST1_INSERT(l, i, d)) = Len(l) + 1
           /\ \A j \in 1 .. Len(l) + 1 :
                 LIST1_INSERT(l, i, d)[j] = IF j < i THEN l[j] ELSE IF j = i THEN d ELSE l[j - 1]
<1> DEFINE a == SubSeq(l, 1, i - 1)
           b == SubSeq(l, i, Len(l))
           o == <<d>>
<1>1. Len(l) \in Nat
  BY LenProperties
<1>2. a \in Seq(S) /\ Len(a) = i - 1 /\ \A j \in 1 .. i - 1 : a[j] = l[j]
  BY <1>1, SubSeqProperties
<1>3. /\ b \in Seq(S)
      /\ Len(b) = Len(l) - i + 1
      /\ \A j \in 1 .. Len(l) - i + 1 : b[j] = l[i + j - 1]
  BY <1>1, SubSeqProperties
<1>4. o \in Seq(S) /\ Len(o) = 1 /\ o[1] = d
  OBVIOUS
<1>5. LIST1_INSERT(l, i, d) = (a \o o) \o b
  BY DEF LIST1_INSERT, InsertAt
<1> HIDE DEF a, b, o
<1>6. /\ a \o o \in Seq(S)
      /\ Len(a \o o) = i
      /\ \A j \in 1 .. i : (a \o o)[j] = IF j < i THEN l[j] ELSE d
  <2>1. /\ a \o o \in Seq(S)
        /\ Len(a \o o) = Len(a) + Len(o)
        /\ \A j \in 1 .. Len(a) + Len(o) :
              (a \o o)[j] = IF j <= Len(a) THEN a[j] ELSE o[j - Len(a)]
    BY <1>2, <1>4, ConcatProperties
  <2> QED
    BY <1>1, <1>2, <1>4, <2>1
<1> DEFINE ao == a \o o
<1>7. ao \in Seq(S)
  BY <1>6
<1> HIDE DEF ao
<1>8. /\ ao \o b \in Seq(S)
      /\ Len(ao \o b) = Len(ao) + Len(b)
      /\ \A j \in 1 .. Len(ao) + Len(b) :
            (ao \o b)[j] = IF j <= Len(ao) THEN ao[j] ELSE b[j - Len(ao)]
  BY <1>3, <1>7, ConcatProperties
<1> QED
  BY <1>1, <1>3, <1>5, <1>6, <1>8 DEF ao

\* LIST1_INSERT of an element that is not in the list.
LEMMA InsertFacts ==
    ASSUME NEW S, NEW l \in Seq(S), NEW i \in 1 .. Len(l) + 1, NEW d \in S,
           d \notin Elems(l), IsList(l)
    PROVE  /\ LIST1_INSERT(l, i, d) \in Seq(S)
           /\ IsList(LIST1_INSERT(l, i, d))
           /\ Elems(LIST1_INSERT(l, i, d)) = Elems(l) \cup {d}
<1> DEFINE r == LIST1_INSERT(l, i, d)
<1>1. Len(l) \in Nat /\ DOMAIN l = 1 .. Len(l)
  BY LenProperties
<1>2. /\ r \in Seq(S)
      /\ Len(r) = Len(l) + 1
      /\ DOMAIN r = 1 .. Len(l) + 1
      /\ \A j \in 1 .. Len(l) + 1 :
            r[j] = IF j < i THEN l[j] ELSE IF j = i THEN d ELSE l[j - 1]
  BY InsertAtFacts, LenProperties
<1> HIDE DEF r
<1>3. /\ \A j, k \in 1 .. Len(l) : l[j] = l[k] => j = k
      /\ \A j \in 1 .. Len(l) : l[j] # d
  BY <1>1 DEF IsList, IsInjective, Elems, Range
<1>4. \A j, k \in 1 .. Len(l) + 1 : r[j] = r[k] => j = k
  <2> SUFFICES ASSUME NEW j \in 1 .. Len(l) + 1, NEW k \in 1 .. Len(l) + 1, r[j] = r[k]
               PROVE  j = k
    OBVIOUS
  <2> DEFINE old(x) == IF x < i THEN x ELSE x - 1
  <2>1. ASSUME NEW x \in 1 .. Len(l) + 1, x # i
        PROVE  old(x) \in 1 .. Len(l) /\ r[x] = l[old(x)]
    BY <1>1, <1>2, <2>1
  <2>2. r[i] = d
    BY <1>2
  <2>3. j = i <=> k = i
    BY <1>3, <2>1, <2>2
  <2>4. j # i => old(j) = old(k)
    BY <1>3, <2>1, <2>3
  <2> QED
    BY <1>1, <2>3, <2>4
<1>5. ASSUME NEW x \in Range(r) PROVE x \in Range(l) \cup {d}
  <2>1. PICK j \in 1 .. Len(l) + 1 : r[j] = x
    BY <1>2 DEF Range
  <2>2. CASE j < i
    BY <1>1, <1>2, <2>1, <2>2 DEF Range
  <2>3. CASE j > i
    <3>1. j - 1 \in 1 .. Len(l) /\ l[j - 1] = x
      BY <1>1, <1>2, <2>1, <2>3
    <3> QED
      BY <1>1, <3>1 DEF Range
  <2> QED
    BY <1>1, <1>2, <2>1, <2>2, <2>3
<1>6. ASSUME NEW x \in Range(l) \cup {d} PROVE x \in Range(r)
  <2>1. CASE x = d
    BY <1>1, <1>2, <2>1 DEF Range
  <2>2. CASE x \in Range(l)
    <3>1. PICK k \in 1 .. Len(l) : l[k] = x
      BY <1>1, <2>2 DEF Range
    <3>2. CASE k < i
      BY <1>1, <1>2, <3>1, <3>2 DEF Range
    <3>3. CASE k >= i
      <4>1. k + 1 \in 1 .. Len(l) + 1 /\ r[k + 1] = x
        BY <1>1, <1>2, <3>1, <3>3
      <4> QED
        BY <1>2, <4>1 DEF Range
    <3> QED
      BY <1>1, <3>2, <3>3
  <2> QED
    BY <2>1, <2>2
<1> QED
  BY <1>2, <1>4, <1>5, <1>6 DEF IsList, IsInjective, Elems, r
----------------------------------------------------------------------------
\* The elements of l come in the order of their keys k; those of B may be
\* further back than their key says.
SortedBut(l, k, B) == \A i, j \in 1 .. Len(l) : i < j => k[l[i]] <= k[l[j]] \/ l[j] \in B

SortedBy(l, k) == \A i, j \in 1 .. Len(l) : i < j => k[l[i]] <= k[l[j]]

\* Nobody may be further back.
LEMMA SortedAll == ASSUME NEW l, NEW k PROVE SortedBy(l, k) <=> SortedBut(l, k, {})
  BY DEF SortedBy, SortedBut

\* LIST1_DEL keeps the order.
LEMMA DelSortedBut ==
    ASSUME NEW S, NEW l \in Seq(S), NEW d \in Elems(l), NEW k, NEW B, SortedBut(l, k, B)
    PROVE  SortedBut(LIST1_DEL(l, d), k, B)
<1> DEFINE i == IndexOf(l, d)
           r == RemoveAt(l, i)
<1>1. Len(l) \in Nat
  BY LenProperties
<1>2. i \in 1 .. Len(l)
  BY IndexOfFacts
<1> HIDE DEF i
<1>3. /\ Len(r) = Len(l) - 1
      /\ \A j \in 1 .. Len(l) - 1 : r[j] = IF j < i THEN l[j] ELSE l[j + 1]
  BY <1>2, RemoveAtFacts
<1>4. LIST1_DEL(l, d) = r
  BY DEF LIST1_DEL, i
<1> HIDE DEF r
<1>5. SUFFICES ASSUME NEW a \in 1 .. Len(l) - 1, NEW b \in 1 .. Len(l) - 1, a < b
               PROVE  k[r[a]] <= k[r[b]] \/ r[b] \in B
  BY <1>3, <1>4 DEF SortedBut
<1> DEFINE old(x) == IF x < i THEN x ELSE x + 1
<1>6. /\ old(a) \in 1 .. Len(l) /\ r[a] = l[old(a)]
      /\ old(b) \in 1 .. Len(l) /\ r[b] = l[old(b)]
      /\ old(a) < old(b)
  BY <1>1, <1>2, <1>3, <1>5
<1> QED
  BY <1>6 DEF SortedBut

\* LIST1_DEL keeps a list sorted.
LEMMA DelSorted ==
    ASSUME NEW S, NEW l \in Seq(S), NEW d \in Elems(l), NEW k, SortedBy(l, k)
    PROVE  SortedBy(LIST1_DEL(l, d), k)
  BY SortedAll, DelSortedBut

\* LIST1_INSERT at a place where the key fits keeps the order.
LEMMA InsertSortedBut ==
    ASSUME NEW S, NEW l \in Seq(S), NEW i \in 1 .. Len(l) + 1, NEW d \in S,
           NEW k \in [S -> Int], NEW B, SortedBut(l, k, B),
           \A j \in 1 .. i - 1 : k[l[j]] <= k[d] \/ d \in B,
           i \in 1 .. Len(l) => k[d] <= k[l[i]]
    PROVE  SortedBut(LIST1_INSERT(l, i, d), k, B)
<1> DEFINE r == LIST1_INSERT(l, i, d)
<1>1. Len(l) \in Nat
  BY LenProperties
<1>2. /\ Len(r) = Len(l) + 1
      /\ \A j \in 1 .. Len(l) + 1 :
            r[j] = IF j < i THEN l[j] ELSE IF j = i THEN d ELSE l[j - 1]
  BY InsertAtFacts
<1> HIDE DEF r
<1>3. SUFFICES ASSUME NEW a \in 1 .. Len(l) + 1, NEW b \in 1 .. Len(l) + 1, a < b
               PROVE  k[r[a]] <= k[r[b]] \/ r[b] \in B
  BY <1>2 DEF SortedBut, r
<1>4. \A j \in 1 .. Len(l) : k[l[j]] \in Int
  BY ElementOfSeq
<1>5. \A j \in 1 .. Len(l) : j >= i => k[d] <= k[l[j]] \/ l[j] \in B
  <2> SUFFICES ASSUME NEW j \in 1 .. Len(l), j >= i PROVE k[d] <= k[l[j]] \/ l[j] \in B
    OBVIOUS
  <2>1. i \in 1 .. Len(l) /\ (i = j \/ k[l[i]] <= k[l[j]] \/ l[j] \in B)
    BY <1>1 DEF SortedBut
  <2> QED
    BY <1>4, <2>1
<1>6. CASE a = i
  <2>1. r[a] = d /\ r[b] = l[b - 1] /\ b - 1 \in 1 .. Len(l) /\ b - 1 >= i
    BY <1>1, <1>2, <1>3, <1>6
  <2> QED
    BY <1>5, <2>1
<1>7. CASE b = i
  <2>1. r[b] = d /\ r[a] = l[a] /\ a \in 1 .. i - 1
    BY <1>1, <1>2, <1>3, <1>7
  <2> QED
    BY <2>1
<1>8. CASE a # i /\ b # i
  <2> DEFINE old(x) == IF x < i THEN x ELSE x - 1
  <2>1. \A x \in 1 .. Len(l) + 1 : x # i => old(x) \in 1 .. Len(l) /\ r[x] = l[old(x)]
    BY <1>1, <1>2
  <2>2. old(a) < old(b)
    BY <1>1, <1>3, <1>8
  <2> HIDE DEF old
  <2> QED
    BY <1>3, <1>8, <2>1, <2>2 DEF SortedBut
<1> QED
  BY <1>6, <1>7, <1>8

\* LIST1_INSERT at a place where the key fits keeps a list sorted.
LEMMA InsertSorted ==
    ASSUME NEW S, NEW l \in Seq(S), NEW i \in 1 .. Len(l) + 1, NEW d \in S,
           NEW k \in [S -> Int], SortedBy(l, k),
           \A j \in 1 .. i - 1 : k[l[j]] <= k[d],
           i \in 1 .. Len(l) => k[d] <= k[l[i]]
    PROVE  SortedBy(LIST1_INSERT(l, i, d), k)
  BY SortedAll, InsertSortedBut
----------------------------------------------------------------------------
\* Induction along 1 .. n, over a set.
LEMMA Upward ==
    ASSUME NEW n \in Nat, NEW T, 1 \in T, \A k \in 1 .. n : k \in T /\ k + 1 <= n => k + 1 \in T
    PROVE  1 .. n \subseteq T
<1> SUFFICES ASSUME ~(1 .. n \subseteq T) PROVE FALSE
  OBVIOUS
<1> DEFINE U == {k \in 1 .. n : k \notin T}
<1>1. U \subseteq Nat /\ U # {}
  OBVIOUS
<1> HIDE DEF U
<1>2. PICK x \in U : \A y \in U : x <= y
  BY <1>1, LeastExists
<1>3. x \in 1 .. n /\ x \notin T /\ x # 1
  BY <1>2 DEF U
<1>4. x - 1 \in 1 .. n /\ x - 1 \notin U
  BY <1>1, <1>2, <1>3
<1>5. x - 1 \in T
  BY <1>4 DEF U
<1>6. (x - 1) + 1 = x
  BY <1>3
<1> QED
  BY <1>3, <1>4, <1>5, <1>6

\* The recursion of FlattenSeq has a solution, and FlattenSeq is its value.
LEMMA FlattenRecursion ==
    ASSUME NEW S, NEW q \in Seq(Seq(S)), Len(q) # 0
    PROVE  \E f \in [1 .. Len(q) -> Seq(S)] :
              /\ f[1] = q[1]
              /\ \A i \in 2 .. Len(q) : f[i] = f[i - 1] \o q[i]
              /\ FlattenSeq(q) = f[Len(q)]
<1> DEFINE n == Len(q)
           Solves(f, k) == f[1] = q[1] /\ \A i \in 2 .. k : f[i] = f[i - 1] \o q[i]
           T == {k \in 1 .. n : \E f \in [1 .. k -> Seq(S)] : Solves(f, k)}
           eq(f) == f = [i \in 1 .. n |-> IF i = 1 THEN q[i] ELSE f[i - 1] \o q[i]]
           flatten == CHOOSE f : eq(f)
<1>1. n \in Nat /\ 1 \in 1 .. n /\ \A i \in 1 .. n : q[i] \in Seq(S)
  BY LenProperties, ElementOfSeq
<1>2. FlattenSeq(q) = flatten[n]
  BY DEF FlattenSeq
<1>3. 1 \in T
  <2> DEFINE f == [i \in 1 .. 1 |-> q[1]]
  <2>1. f \in [1 .. 1 -> Seq(S)] /\ Solves(f, 1)
    BY <1>1
  <2> QED
    BY <1>1, <2>1
<1>4. ASSUME NEW k \in 1 .. n, k \in T, k + 1 <= n PROVE k + 1 \in T
  <2>1. PICK f \in [1 .. k -> Seq(S)] : Solves(f, k)
    BY <1>4
  <2> DEFINE g == [i \in 1 .. k + 1 |-> IF i = k + 1 THEN f[k] \o q[k + 1] ELSE f[i]]
  <2>2. k + 1 \in 1 .. n
    BY <1>1, <1>4
  <2>3. f[k] \o q[k + 1] \in Seq(S)
    BY <1>1, <2>1, <2>2, ConcatProperties
  <2>4. g \in [1 .. k + 1 -> Seq(S)]
    BY <2>1, <2>3
  <2>5. Solves(g, k + 1)
    <3>1. g[1] = q[1]
      BY <1>1, <1>4, <2>1
    <3>2. ASSUME NEW i \in 2 .. k + 1 PROVE g[i] = g[i - 1] \o q[i]
      <4>1. i - 1 \in 1 .. k + 1 /\ i - 1 # k + 1 /\ g[i - 1] = f[i - 1]
        BY <1>1, <1>4
      <4>2. CASE i = k + 1
        BY <1>1, <1>4, <4>1, <4>2
      <4>3. CASE i # k + 1
        <5>1. i \in 2 .. k /\ g[i] = f[i]
          BY <1>1, <1>4, <4>3
        <5> QED
          BY <2>1, <4>1, <5>1
      <4> QED
        BY <4>2, <4>3
    <3> QED
      BY <3>1, <3>2
  <2> QED
    BY <2>2, <2>4, <2>5
<1>5. n \in T
  <2> HIDE DEF T, n
  <2>1. 1 .. n \subseteq T
    BY <1>1, <1>3, <1>4, Upward
  <2> QED
    BY <1>1, <2>1
<1>6. PICK f \in [1 .. n -> Seq(S)] : Solves(f, n)
  BY <1>5
<1>7. eq(f)
  <2>1. ASSUME NEW i \in 1 .. n PROVE f[i] = IF i = 1 THEN q[i] ELSE f[i - 1] \o q[i]
    <3>1. i # 1 => i \in 2 .. n
      BY <1>1
    <3> QED
      BY <1>6, <3>1
  <2>2. f = [i \in 1 .. n |-> f[i]]
    BY <1>6
  <2> QED
    BY <2>1, <2>2
<1>8. eq(flatten)
  BY <1>7
<1>9. flatten[1] = q[1] /\ \A i \in 2 .. n : flatten[i] = flatten[i - 1] \o q[i]
  <2> HIDE DEF flatten
  <2>1. \A i \in 1 .. n : flatten[i] = IF i = 1 THEN q[i] ELSE flatten[i - 1] \o q[i]
    BY <1>8
  <2>2. \A i \in 2 .. n : i \in 1 .. n /\ i # 1
    BY <1>1
  <2> QED
    BY <1>1, <2>1, <2>2
<1>10. DOMAIN flatten = 1 .. n /\ flatten = [i \in 1 .. n |-> flatten[i]]
  BY <1>8
<1> HIDE DEF flatten, eq
<1> DEFINE V == {k \in 1 .. n : flatten[k] \in Seq(S)}
<1>11. 1 \in V /\ \A k \in 1 .. n : k \in V /\ k + 1 <= n => k + 1 \in V
  <2>1. 1 \in V
    BY <1>1, <1>9
  <2>2. ASSUME NEW k \in 1 .. n, k \in V, k + 1 <= n PROVE k + 1 \in V
    <3>1. k + 1 \in 2 .. n /\ k + 1 \in 1 .. n /\ (k + 1) - 1 = k
      BY <1>1, <2>2
    <3>2. flatten[k + 1] = flatten[k] \o q[k + 1]
      BY <1>9, <3>1
    <3>3. flatten[k] \in Seq(S) /\ q[k + 1] \in Seq(S)
      BY <1>1, <2>2, <3>1
    <3>4. flatten[k + 1] \in Seq(S)
      BY <3>2, <3>3, ConcatProperties
    <3> QED
      BY <3>1, <3>4
  <2> QED
    BY <2>1, <2>2
<1>12. 1 .. n \subseteq V
  <2> HIDE DEF V, n
  <2> QED
    BY <1>1, <1>11, Upward
<1>13. flatten \in [1 .. n -> Seq(S)]
  BY <1>10, <1>12
<1> QED
  BY <1>2, <1>9, <1>13

\* F lists the elements of the sequences in q, those of an earlier sequence
\* and those at an earlier place of the same one before the others.
InOrder(q, F) ==
    /\ \A i \in 1 .. Len(q) : \A m \in 1 .. Len(q[i]) : q[i][m] \in Elems(F)
    /\ \A j \in 1 .. Len(F) :
          \E i \in 1 .. Len(q) : \E m \in 1 .. Len(q[i]) :
             /\ F[j] = q[i][m]
             /\ \A x \in 1 .. Len(q) : \A y \in 1 .. Len(q[x]) :
                   x < i \/ (x = i /\ y < m) => \E z \in 1 .. j - 1 : F[z] = q[x][y]

\* FlattenSeq does.
LEMMA FlattenOrder ==
    ASSUME NEW S, NEW q \in Seq(Seq(S)), Len(q) # 0
    PROVE  FlattenSeq(q) \in Seq(S) /\ InOrder(q, FlattenSeq(q))
<1> DEFINE n == Len(q)
<1>1. n \in Nat /\ 1 \in 1 .. n /\ \A i \in 1 .. n : q[i] \in Seq(S) /\ Len(q[i]) \in Nat
  BY LenProperties, ElementOfSeq
<1>2. PICK f \in [1 .. n -> Seq(S)] :
          f[1] = q[1] /\ (\A i \in 2 .. n : f[i] = f[i - 1] \o q[i]) /\ FlattenSeq(q) = f[n]
  BY FlattenRecursion
<1> DEFINE Has(k) == \A i \in 1 .. k : \A m \in 1 .. Len(q[i]) :
                        \E z \in 1 .. Len(f[k]) : f[k][z] = q[i][m]
           Ord(k) == \A j \in 1 .. Len(f[k]) : \E i \in 1 .. k : \E m \in 1 .. Len(q[i]) :
                        /\ f[k][j] = q[i][m]
                        /\ \A x \in 1 .. k : \A y \in 1 .. Len(q[x]) :
                              x < i \/ (x = i /\ y < m) => \E z \in 1 .. j - 1 : f[k][z] = q[x][y]
           T == {k \in 1 .. n : Has(k) /\ Ord(k)}
<1>3. 1 \in T
  <2>1. Has(1)
    BY <1>1, <1>2
  <2>2. ASSUME NEW j \in 1 .. Len(f[1])
        PROVE  \E i \in 1 .. 1 : \E m \in 1 .. Len(q[i]) :
                        /\ f[1][j] = q[i][m]
                        /\ \A x \in 1 .. 1 : \A y \in 1 .. Len(q[x]) :
                              x < i \/ (x = i /\ y < m) => \E z \in 1 .. j - 1 : f[1][z] = q[x][y]
    <3>1. j \in 1 .. Len(q[1]) /\ f[1][j] = q[1][j]
      BY <1>2, <2>2
    <3>2. \A x \in 1 .. 1 : \A y \in 1 .. Len(q[x]) :
             x < 1 \/ (x = 1 /\ y < j) => \E z \in 1 .. j - 1 : f[1][z] = q[x][y]
      BY <1>1, <1>2, <3>1
    <3>3. 1 \in 1 .. 1
      OBVIOUS
    <3> WITNESS 1 \in 1 .. 1
    <3> QED
      BY <3>1, <3>2
  <2> QED
    BY <1>1, <2>1, <2>2
<1>4. ASSUME NEW k \in 1 .. n, k \in T, k + 1 <= n PROVE k + 1 \in T
  <2> DEFINE a == f[k]
             b == q[k + 1]
             g == f[k + 1]
  <2>1. k + 1 \in 1 .. n /\ k + 1 \in 2 .. n /\ (k + 1) - 1 = k
    BY <1>1, <1>4
  <2>2. g = a \o b /\ a \in Seq(S) /\ b \in Seq(S) /\ Len(a) \in Nat /\ Len(b) \in Nat
    BY <1>1, <1>2, <2>1, LenProperties
  <2>3. /\ Len(g) = Len(a) + Len(b)
        /\ \A i \in 1 .. Len(a) + Len(b) : g[i] = IF i <= Len(a) THEN a[i] ELSE b[i - Len(a)]
    BY <2>2, ConcatProperties
  <2>4. Has(k) /\ Ord(k)
    BY <1>4
  <2>5. ASSUME NEW i \in 1 .. k, NEW m \in 1 .. Len(q[i])
        PROVE  \E z \in 1 .. Len(a) : g[z] = q[i][m]
    <3>1. PICK z \in 1 .. Len(a) : a[z] = q[i][m]
      BY <2>4
    <3>2. g[z] = a[z]
      BY <2>2, <2>3
    <3> QED
      BY <3>1, <3>2
  <2>6. ASSUME NEW m \in 1 .. Len(b) PROVE Len(a) + m \in 1 .. Len(g) /\ g[Len(a) + m] = b[m]
    BY <2>2, <2>3
  <2> HIDE DEF a, b, g
  <2>7. ASSUME NEW i \in 1 .. k + 1, NEW m \in 1 .. Len(q[i])
        PROVE  \E z \in 1 .. Len(g) : g[z] = q[i][m]
    <3>1. CASE i \in 1 .. k
      <4>1. PICK z \in 1 .. Len(a) : g[z] = q[i][m]
        BY <2>5, <3>1
      <4> QED
        BY <2>2, <2>3, <4>1
    <3>2. CASE i = k + 1
      BY <2>6, <3>2 DEF b
    <3> QED
      BY <1>1, <3>1, <3>2
  <2>8. ASSUME NEW j \in 1 .. Len(g)
        PROVE  \E i \in 1 .. k + 1 : \E m \in 1 .. Len(q[i]) :
                  /\ g[j] = q[i][m]
                  /\ \A x \in 1 .. k + 1 : \A y \in 1 .. Len(q[x]) :
                        x < i \/ (x = i /\ y < m) => \E z \in 1 .. j - 1 : g[z] = q[x][y]
    <3>1. CASE j <= Len(a)
      <4>1. j \in 1 .. Len(a) /\ g[j] = a[j]
        BY <2>2, <2>3, <3>1
      <4>2. PICK i \in 1 .. k : \E m \in 1 .. Len(q[i]) :
               /\ a[j] = q[i][m]
               /\ \A x \in 1 .. k : \A y \in 1 .. Len(q[x]) :
                     x < i \/ (x = i /\ y < m) => \E z \in 1 .. j - 1 : a[z] = q[x][y]
        BY <2>4, <4>1 DEF a
      <4>5. PICK m \in 1 .. Len(q[i]) :
               /\ a[j] = q[i][m]
               /\ \A x \in 1 .. k : \A y \in 1 .. Len(q[x]) :
                     x < i \/ (x = i /\ y < m) => \E z \in 1 .. j - 1 : a[z] = q[x][y]
        BY <4>2
      <4>3. i \in 1 .. k + 1
        BY <1>1
      <4>4. ASSUME NEW x \in 1 .. k + 1, NEW y \in 1 .. Len(q[x]), x < i \/ (x = i /\ y < m)
            PROVE  \E z \in 1 .. j - 1 : g[z] = q[x][y]
        <5>1. x \in 1 .. k
          BY <1>1, <4>4
        <5>2. PICK z \in 1 .. j - 1 : a[z] = q[x][y]
          BY <4>4, <4>5, <5>1
        <5>3. g[z] = a[z]
          BY <2>2, <2>3, <4>1
        <5> QED
          BY <5>2, <5>3
      <4> QED
        BY <4>1, <4>3, <4>4, <4>5
    <3>2. CASE j > Len(a)
      <4>1. j - Len(a) \in 1 .. Len(b) /\ g[j] = b[j - Len(a)]
        BY <2>2, <2>3, <3>2
      <4>2. k + 1 \in 1 .. k + 1
        BY <1>1
      <4>3. ASSUME NEW x \in 1 .. k + 1, NEW y \in 1 .. Len(q[x]),
                   x < k + 1 \/ (x = k + 1 /\ y < j - Len(a))
            PROVE  \E z \in 1 .. j - 1 : g[z] = q[x][y]
        <5>1. CASE x < k + 1
          <6>1. x \in 1 .. k
            BY <1>1, <5>1
          <6>2. PICK z \in 1 .. Len(a) : g[z] = q[x][y]
            BY <2>5, <6>1
          <6>3. z \in 1 .. j - 1
            BY <2>2, <3>2
          <6> QED
            BY <6>2, <6>3
        <5>2. CASE x = k + 1 /\ y < j - Len(a)
          <6>1. y \in 1 .. Len(b) /\ b[y] = q[x][y]
            BY <5>2 DEF b
          <6>2. g[Len(a) + y] = b[y]
            BY <2>6, <6>1
          <6>3. Len(a) + y \in 1 .. j - 1
            BY <2>2, <2>3, <5>2, <6>1
          <6> QED
            BY <6>1, <6>2, <6>3
        <5> QED
          BY <4>3, <5>1, <5>2
      <4>4. j - Len(a) \in 1 .. Len(q[k + 1]) /\ g[j] = q[k + 1][j - Len(a)]
        BY <4>1 DEF b
      <4>5. \E m \in 1 .. Len(q[k + 1]) :
               /\ g[j] = q[k + 1][m]
               /\ \A x \in 1 .. k + 1 : \A y \in 1 .. Len(q[x]) :
                     x < k + 1 \/ (x = k + 1 /\ y < m) => \E z \in 1 .. j - 1 : g[z] = q[x][y]
        BY <4>3, <4>4
      <4> WITNESS k + 1 \in 1 .. k + 1
      <4> QED
        BY <4>5
    <3>3. j <= Len(a) \/ j > Len(a)
      BY <2>2, <2>3
    <3> QED
      BY <3>1, <3>2, <3>3
  <2> QED
    BY <2>1, <2>7, <2>8 DEF g
<1>5. n \in T
  <2> HIDE DEF T, n
  <2>1. 1 .. n \subseteq T
    BY <1>1, <1>3, <1>4, Upward
  <2> QED
    BY <1>1, <2>1
<1>6. f[n] \in Seq(S) /\ DOMAIN f[n] = 1 .. Len(f[n])
  BY <1>1, <1>2, LenProperties
<1>7. Has(n) /\ Ord(n)
  BY <1>5
<1>8. \A i \in 1 .. Len(q) : \A m \in 1 .. Len(q[i]) : q[i][m] \in Elems(f[n])
  BY <1>6, <1>7 DEF Elems, Range
<1>9. f[n] = FlattenSeq(q)
  BY <1>2
<1> HIDE DEF Has
<1>10. \A j \in 1 .. Len(f[n]) :
                 \E i \in 1 .. Len(q) : \E m \in 1 .. Len(q[i]) :
                    /\ f[n][j] = q[i][m]
                    /\ \A x \in 1 .. Len(q) : \A y \in 1 .. Len(q[x]) :
                          x < i \/ (x = i /\ y < m) => \E z \in 1 .. j - 1 : f[n][z] = q[x][y]
  BY <1>7
<1>11. InOrder(q, f[n])
  BY <1>8, <1>10 DEF InOrder
<1> QED
  BY <1>6, <1>9, <1>11
----------------------------------------------------------------------------
(* The word w of a reader-writer lock with sign bit s agrees with where    *)
(* the processors P are, at: it is the number of readers, the waiting ones *)
(* included, plus s while there is a writer, who is alone.                 *)
RwReaders(P, at) == {c \in P : at[c] \in {"wait_sh", "sh"}}
RwLock(P, s, w, at) ==
    /\ w \in Nat /\ at \in [P -> {"out", "wait_sh", "sh", "ex"}]
    /\ (\A c \in P : at[c] # "ex") => w = Cardinality(RwReaders(P, at))
    /\ \A c \in P : at[c] = "ex" => /\ w = s + Cardinality(RwReaders(P, at))
                                    /\ \A d \in P : at[d] \in {"sh", "ex"} => d = c

\* The readers can be counted without reaching the sign bit.
LEMMA RwReadersFit ==
    ASSUME NEW P, IsFiniteSet(P), NEW s \in Nat, Cardinality(P) < s, NEW at
    PROVE  /\ IsFiniteSet(RwReaders(P, at))
           /\ Cardinality(RwReaders(P, at)) \in Nat
           /\ Cardinality(RwReaders(P, at)) < s
<1>1. RwReaders(P, at) \in SUBSET P
  BY DEF RwReaders
<1>2. Cardinality(P) \in Nat
  BY FS_CardinalityType
<1> QED
  BY <1>1, <1>2, FS_Subset, FS_CardinalityType

\* The arithmetic of the word does not wrap.
LEMMA RwArithmetic ==
    ASSUME NEW s \in Nat, NEW n \in Nat
    PROVE  /\ n < 2 * s => n % (2 * s) = n
           /\ n < s => (s + n) % s = n /\ n % s = n
  OBVIOUS

\* Each operation of spinlock.h, by its effect on the word and on the
\* processor c that makes it, keeps the agreement.
LEMMA RwOperations ==
    ASSUME NEW P, IsFiniteSet(P), NEW s \in Nat, Cardinality(P) < s,
           NEW w, NEW at, RwLock(P, s, w, at), NEW c \in P
    PROVE  /\ at[c] = "out" =>
                 RwLock(P, s, (w + 1) % (2 * s), [at EXCEPT ![c] = IF w >= s THEN "wait_sh" ELSE "sh"])
           /\ at[c] = "wait_sh" /\ ~(w >= s) => RwLock(P, s, w, [at EXCEPT ![c] = "sh"])
           /\ at[c] = "sh" => RwLock(P, s, (w - 1) % (2 * s), [at EXCEPT ![c] = "out"])
           /\ at[c] = "out" /\ w = 0 => RwLock(P, s, s, [at EXCEPT ![c] = "ex"])
           /\ at[c] = "ex" => RwLock(P, s, w % s, [at EXCEPT ![c] = "out"])
<1> DEFINE n == Cardinality(RwReaders(P, at))
<1>1. /\ w \in Nat /\ at \in [P -> {"out", "wait_sh", "sh", "ex"}]
      /\ (\A d \in P : at[d] # "ex") => w = n
      /\ \A d \in P : at[d] = "ex" => w = s + n /\ \A e \in P : at[e] \in {"sh", "ex"} => e = d
  BY DEF RwLock
<1>2. n \in Nat /\ n < s /\ IsFiniteSet(RwReaders(P, at))
  BY RwReadersFit
<1>3. w >= s <=> \E d \in P : at[d] = "ex"
  BY <1>1, <1>2
<1>4. ASSUME NEW a, RwReaders(P, a) = RwReaders(P, at)
      PROVE  Cardinality(RwReaders(P, a)) = n
  BY <1>4
<1> HIDE DEF n
<1>5. ASSUME at[c] = "out"
      PROVE  RwLock(P, s, (w + 1) % (2 * s), [at EXCEPT ![c] = IF w >= s THEN "wait_sh" ELSE "sh"])
  <2> DEFINE a == [at EXCEPT ![c] = IF w >= s THEN "wait_sh" ELSE "sh"]
  <2>1. RwReaders(P, a) = RwReaders(P, at) \cup {c} /\ c \notin RwReaders(P, at)
    BY <1>1, <1>5 DEF RwReaders
  <2>2. Cardinality(RwReaders(P, a)) = n + 1
    BY <1>2, <2>1, FS_AddElement DEF n
  <2>3. n + 1 < s
    BY <2>2, RwReadersFit
  <2>4. w + 1 \in Nat /\ w + 1 < 2 * s
    BY <1>1, <1>2, <2>3
  <2>5. (w + 1) % (2 * s) = w + 1
    BY <2>4, RwArithmetic
  <2>6. a \in [P -> {"out", "wait_sh", "sh", "ex"}] /\ \A d \in P : a[d] = "ex" <=> at[d] = "ex"
    BY <1>1, <1>5
  <2>7. \A d \in P : at[d] = "ex" => \A e \in P : a[e] \in {"sh", "ex"} => e = d
    BY <1>1, <1>3, <1>5
  <2>8. RwLock(P, s, w + 1, a)
    <3> HIDE DEF a
    <3> QED
      BY <1>1, <1>2, <2>2, <2>4, <2>6, <2>7 DEF RwLock
  <2> QED
    BY <2>5, <2>8
<1>6. ASSUME at[c] = "wait_sh", ~(w >= s) PROVE RwLock(P, s, w, [at EXCEPT ![c] = "sh"])
  <2> DEFINE a == [at EXCEPT ![c] = "sh"]
  <2>1. RwReaders(P, a) = RwReaders(P, at)
    BY <1>1, <1>6 DEF RwReaders
  <2>2. a \in [P -> {"out", "wait_sh", "sh", "ex"}] /\ \A d \in P : a[d] # "ex" /\ at[d] # "ex"
    BY <1>1, <1>3, <1>6
  <2> QED
    <3> HIDE DEF a
    <3> QED
      BY <1>1, <1>4, <2>1, <2>2 DEF RwLock, a
<1>7. ASSUME at[c] = "sh" PROVE RwLock(P, s, (w - 1) % (2 * s), [at EXCEPT ![c] = "out"])
  <2> DEFINE a == [at EXCEPT ![c] = "out"]
  <2>1. RwReaders(P, a) = RwReaders(P, at) \ {c} /\ c \in RwReaders(P, at)
    BY <1>1, <1>7 DEF RwReaders
  <2>2. Cardinality(RwReaders(P, a)) = n - 1
    BY <1>2, <2>1, FS_RemoveElement DEF n
  <2>3. n - 1 \in Nat
    BY <2>2, RwReadersFit
  <2>4. \A d \in P : at[d] # "ex"
    BY <1>1, <1>7
  <2>5. w - 1 \in Nat /\ w - 1 < 2 * s
    BY <1>1, <1>2, <2>3, <2>4
  <2>6. (w - 1) % (2 * s) = w - 1
    BY <2>5, RwArithmetic
  <2>7. a \in [P -> {"out", "wait_sh", "sh", "ex"}] /\ \A d \in P : a[d] # "ex"
    BY <1>1, <2>4
  <2>8. RwLock(P, s, w - 1, a)
    <3> HIDE DEF a
    <3> QED
      BY <1>1, <2>2, <2>4, <2>5, <2>7 DEF RwLock
  <2> QED
    BY <2>6, <2>8
<1>8. ASSUME at[c] = "out", w = 0 PROVE RwLock(P, s, s, [at EXCEPT ![c] = "ex"])
  <2> DEFINE a == [at EXCEPT ![c] = "ex"]
  <2>1. \A d \in P : at[d] # "ex"
    BY <1>1, <1>2, <1>3, <1>8
  <2>2. n = 0
    BY <1>1, <1>8, <2>1
  <2>3. RwReaders(P, at) = {}
    BY <1>2, <2>2, FS_EmptySet DEF n
  <2>4. RwReaders(P, a) = RwReaders(P, at)
    BY <1>1, <1>8 DEF RwReaders
  <2>5. \A d \in P : at[d] \notin {"wait_sh", "sh"}
    BY <2>3 DEF RwReaders
  <2>6. /\ a \in [P -> {"out", "wait_sh", "sh", "ex"}]
        /\ \A d \in P : a[d] \in {"sh", "ex"} <=> d = c
        /\ a[c] = "ex"
    BY <1>1, <2>1, <2>5
  <2>7. RwLock(P, s, s, a)
    <3> HIDE DEF a
    <3> QED
      BY <1>1, <1>4, <2>2, <2>4, <2>6 DEF RwLock
  <2> QED
    BY <2>7
<1>9. ASSUME at[c] = "ex" PROVE RwLock(P, s, w % s, [at EXCEPT ![c] = "out"])
  <2> DEFINE a == [at EXCEPT ![c] = "out"]
  <2>1. RwReaders(P, a) = RwReaders(P, at)
    BY <1>1, <1>9 DEF RwReaders
  <2>2. w = s + n /\ w % s = n
    BY <1>1, <1>2, <1>9, RwArithmetic
  <2>3. a \in [P -> {"out", "wait_sh", "sh", "ex"}] /\ \A d \in P : a[d] # "ex"
    BY <1>1, <1>9
  <2>4. RwLock(P, s, n, a)
    <3> HIDE DEF a
    <3> QED
      BY <1>2, <1>4, <2>1, <2>3 DEF RwLock
  <2> QED
    BY <2>2, <2>4
<1> QED
  BY <1>5, <1>6, <1>7, <1>8, <1>9
=============================================================================

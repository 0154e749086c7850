------------------------------ MODULE MmProofs ------------------------------
(***************************************************************************)
(* Proofs about the page allocator of Mm, for every number of pages and of *)
(* block sizes, every layout of the image and all requests.                *)
(***************************************************************************)
EXTENDS Mm, CoreTheorems

\* The powers of two count the subsets of 1 .. n.
LEMMA PowerCounts ==
    ASSUME NEW n \in Nat
    PROVE  IsFiniteSet(SUBSET (1 .. n)) /\ Cardinality(SUBSET (1 .. n)) = 2 ^ n
<1>1. IsFiniteSet(1 .. n) /\ Cardinality(1 .. n) = n
  BY FS_Interval
<1> QED
  BY <1>1, FS_SUBSET

\* There are twice as many subsets with one element more to choose from.
LEMMA PowerOfTwo ==
    ASSUME NEW n \in Nat
    PROVE  2 ^ n \in Nat /\ 2 ^ (n + 1) = 2 * 2 ^ n /\ 2 ^ n > 0
<1> DEFINE A == SUBSET (1 .. n)
           B == {S \in SUBSET (1 .. n + 1) : n + 1 \in S}
           f == [S \in A |-> S \cup {n + 1}]
<1>1. IsFiniteSet(A) /\ Cardinality(A) = 2 ^ n /\ Cardinality(A) \in Nat
  BY PowerCounts, FS_CardinalityType
<1>2. Cardinality(SUBSET (1 .. n + 1)) = 2 ^ (n + 1)
  BY PowerCounts
<1>3. SUBSET (1 .. n + 1) = A \cup B /\ A \cap B = {}
  <2>1. 1 .. n + 1 = (1 .. n) \cup {n + 1} /\ n + 1 \notin 1 .. n
    OBVIOUS
  <2> QED
    BY <2>1
<1>4. ExistsBijection(A, B)
  <2>1. 1 .. n + 1 = (1 .. n) \cup {n + 1} /\ n + 1 \notin 1 .. n
    OBVIOUS
  <2>2. f \in [A -> B]
    BY <2>1
  <2>3. ASSUME NEW S \in A, NEW T \in A, f[S] = f[T] PROVE S = T
    <3>1. S \cup {n + 1} = T \cup {n + 1} /\ n + 1 \notin S /\ n + 1 \notin T
      BY <2>1, <2>3
    <3> QED
      BY ONLY <3>1
  <2>4. ASSUME NEW T \in B PROVE \E S \in A : f[S] = T
    <3>1. T \ {n + 1} \in A /\ (T \ {n + 1}) \cup {n + 1} = T
      BY <2>1
    <3> QED
      BY <3>1
  <2>5. f \in Bijection(A, B)
    <3> HIDE DEF A, B, f
    <3>1. f \in Injection(A, B)
      BY <2>2, <2>3 DEF Injection, IsInjective
    <3>2. f \in Surjection(A, B)
      BY <2>2, <2>4 DEF Surjection
    <3> QED
      BY <3>1, <3>2 DEF Bijection
  <2> QED
    BY <2>5 DEF ExistsBijection
<1> HIDE DEF A, B
<1>5. IsFiniteSet(B) /\ Cardinality(B) = 2 ^ n
  BY <1>1, <1>4, FS_Bijection
<1>6. Cardinality(A \cup B) = Cardinality(A) + Cardinality(B) - Cardinality({})
  BY <1>1, <1>3, <1>5, FS_Union
<1>7. 2 ^ (n + 1) = 2 * 2 ^ n
  <2>1. PICK a \in Nat : a = 2 ^ n
    BY <1>1
  <2>2. Cardinality(A \cup B) = a + a
    <3>1. Cardinality({}) = 0 /\ Cardinality(A) = a /\ Cardinality(B) = a
      BY <1>1, <1>5, <2>1, FS_EmptySet
    <3> QED
      BY <1>6, <3>1
  <2>3. Cardinality(A \cup B) = 2 ^ (n + 1)
    BY <1>2, <1>3
  <2>4. 2 * a = a + a
    OBVIOUS
  <2> QED
    BY <2>1, <2>2, <2>3, <2>4, Zenon
<1>8. A # {}
  BY DEF A
<1>9. Cardinality(A) # 0
  BY <1>1, <1>8, FS_EmptySet
<1> QED
  BY <1>1, <1>7, <1>9
----------------------------------------------------------------------------
(* Blocks.  Block(_, n) maps a page to the first page of its block of size *)
(* n; everything below uses these facts and no other arithmetic.           *)

\* Division with remainder.
LEMMA DivisionFacts ==
    ASSUME NEW x \in Nat, NEW d \in Nat, d > 0
    PROVE  /\ x \div d \in Nat /\ x % d \in 0 .. d - 1
           /\ x = d * (x \div d) + (x % d)
  OBVIOUS

LEMMA DivisionUnique ==
    ASSUME NEW q \in Nat, NEW d \in Nat, NEW r \in 0 .. d - 1, NEW x \in Nat, x = d * q + r
    PROVE  x \div d = q /\ x % d = r
<1>1. PICK p \in Nat, s \in 0 .. d - 1 : p = x \div d /\ s = x % d /\ x = d * p + s
  BY DivisionFacts
<1>2. p = q
  <2>1. CASE p < q
    <3>1. PICK e \in Nat : q = p + 1 + e
      BY <2>1
    <3>2. d * q = d * p + d + d * e /\ d * e >= 0
      BY <3>1
    <3> QED
      BY <1>1, <3>2
  <2>2. CASE q < p
    <3>1. PICK e \in Nat : p = q + 1 + e
      BY <2>2
    <3>2. d * p = d * q + d + d * e /\ d * e >= 0
      BY <3>1
    <3> QED
      BY <1>1, <3>2
  <2> QED
    BY <2>1, <2>2
<1> QED
  BY <1>1, <1>2

\* The remainder by twice the divisor.
LEMMA Doubled ==
    ASSUME NEW x \in Nat, NEW d \in Nat, d > 0
    PROVE  /\ (x \div d) % 2 = 1 => x % (2 * d) = (x % d) + d
           /\ (x \div d) % 2 # 1 => x % (2 * d) = x % d
<1>1. PICK q \in Nat, r \in 0 .. d - 1 : q = x \div d /\ r = x % d /\ x = d * q + r
  BY DivisionFacts
<1>2. PICK h \in Nat, b \in 0 .. 1 : q = 2 * h + b /\ b = q % 2
  BY <1>1
<1>3. x = (2 * d) * h + (d * b + r)
  BY <1>1, <1>2
<1>4. CASE b = 1
  <2>1. x = (2 * d) * h + (d + r) /\ d + r \in 0 .. 2 * d - 1 /\ 2 * d \in Nat
    BY <1>1, <1>3, <1>4
  <2>2. x % (2 * d) = d + r
    BY <2>1, DivisionUnique
  <2> QED
    BY <1>1, <1>2, <1>4, <2>2
<1>5. CASE b = 0
  <2>1. x = (2 * d) * h + r /\ r \in 0 .. 2 * d - 1 /\ 2 * d \in Nat
    BY <1>1, <1>3, <1>5
  <2>2. x % (2 * d) = r
    BY <2>1, DivisionUnique
  <2> QED
    BY <1>1, <1>2, <1>5, <2>2
<1> QED
  BY <1>2, <1>4, <1>5

\* Induction from n up to k, and from k down to n, over a set.
LEMMA Climb ==
    ASSUME NEW n \in Nat, NEW k \in Nat, NEW T, n \in T,
           \A i \in n .. k - 1 : i \in T => i + 1 \in T
    PROVE  n .. k \subseteq T
<1> SUFFICES ASSUME ~(n .. k \subseteq T) PROVE FALSE
  OBVIOUS
<1> DEFINE U == {i \in n .. k : i \notin T}
<1>1. U \subseteq Nat /\ U # {}
  OBVIOUS
<1> HIDE DEF U
<1>2. PICK x \in U : \A y \in U : x <= y
  BY <1>1, LeastExists
<1>3. x \in n .. k /\ x \notin T /\ x # n
  BY <1>2 DEF U
<1>4. x - 1 \in n .. k - 1 /\ x - 1 \in n .. k /\ x - 1 \notin U /\ (x - 1) + 1 = x
  BY <1>1, <1>2, <1>3
<1>5. x - 1 \in T
  BY <1>4 DEF U
<1> QED
  BY <1>3, <1>4, <1>5

LEMMA Descend ==
    ASSUME NEW n \in Nat, NEW k \in Nat, NEW T, k \in T,
           \A i \in n .. k - 1 : i + 1 \in T => i \in T
    PROVE  n .. k \subseteq T
<1> SUFFICES ASSUME NEW j \in n .. k, j \notin T PROVE FALSE
  OBVIOUS
<1> DEFINE U == {i \in Nat : i \notin T}
<1>1. j \in Nat /\ j \in U /\ j <= k
  OBVIOUS
<1>2. ASSUME NEW i \in j .. k - 1, i \in U PROVE i + 1 \in U
  BY <1>2
<1> HIDE DEF U
<1>3. j .. k \subseteq U
  BY <1>1, <1>2, Climb
<1> QED
  BY <1>1, <1>3 DEF U

\* A block of size n begins at a multiple of 2^n.
LEMMA BlockMultiple ==
    ASSUME NEW x \in Nat, NEW n \in Nat, NEW d \in Nat, d = 2 ^ n
    PROVE  \E q \in Nat : q = x \div d /\ Block(x, n) = d * q /\ Block(x, n) \in Nat
<1>1. d > 0
  BY PowerOfTwo
<1>2. PICK q \in Nat, r \in 0 .. d - 1 : q = x \div d /\ r = x % d /\ x = d * q + r
  BY <1>1, DivisionFacts
<1>3. Block(x, n) = x - r
  BY <1>2 DEF Block
<1>4. PICK e \in Nat : e = d * q
  OBVIOUS
<1>5. x = e + r
  BY <1>2, <1>4
<1>6. Block(x, n) = e
  BY ONLY x \in Nat, e \in Nat, r \in 0 .. d - 1, d \in Nat, <1>3, <1>5
<1> QED
  BY <1>2, <1>4, <1>6

\* A page lies in its block.
LEMMA BlockRange ==
    ASSUME NEW x \in Nat, NEW n \in Nat
    PROVE  /\ 2 ^ n \in Nat /\ 2 ^ n > 0
           /\ Block(x, n) \in Nat /\ Block(x, n) <= x /\ x < Block(x, n) + 2 ^ n
<1>1. PICK d \in Nat : d = 2 ^ n /\ d > 0
  BY PowerOfTwo
<1>2. PICK r \in 0 .. d - 1 : r = x % d
  BY <1>1, DivisionFacts
<1>3. Block(x, n) = x - r
  BY <1>1, <1>2 DEF Block
<1>4. Block(x, n) \in Nat
  BY <1>1, BlockMultiple
<1> QED
  BY <1>1, <1>3, <1>4

\* The numbers d * q + 0 are the first pages of blocks.
LEMMA MultipleIsBlock ==
    ASSUME NEW n \in Nat, NEW d \in Nat, d = 2 ^ n, NEW q \in Nat, NEW z \in Nat, z = d * q
    PROVE  Block(z, n) = z /\ (Upper(z, n) <=> q % 2 = 1)
<1>1. d > 0
  BY PowerOfTwo
<1>2. z = d * q + 0 /\ 0 \in 0 .. d - 1
  BY <1>1
<1>3. z \div d = q /\ z % d = 0
  BY <1>2, DivisionUnique
<1>4. Block(z, n) = z - 0 /\ (Upper(z, n) <=> q % 2 = 1)
  BY <1>3, Zenon DEF Block, Upper
<1>5. z - 0 = z
  OBVIOUS
<1> QED
  BY <1>3, <1>4, <1>5, Zenon

\* The first page of a block is in it.
LEMMA BlockOfBlock ==
    ASSUME NEW x \in Nat, NEW n \in Nat
    PROVE  Block(Block(x, n), n) = Block(x, n) /\ (Upper(Block(x, n), n) <=> Upper(x, n))
<1>1. PICK d \in Nat : d = 2 ^ n
  BY PowerOfTwo
<1>2. PICK q \in Nat : q = x \div d /\ Block(x, n) = d * q /\ Block(x, n) \in Nat
  BY <1>1, BlockMultiple
<1>3. PICK z \in Nat : z = Block(x, n)
  BY <1>2
<1>4. Block(z, n) = z /\ (Upper(z, n) <=> q % 2 = 1)
  BY <1>1, <1>2, <1>3, MultipleIsBlock
<1> QED
  BY <1>1, <1>2, <1>3, <1>4 DEF Upper

\* The next size.
LEMMA BlockStep ==
    ASSUME NEW x \in Nat, NEW n \in Nat
    PROVE  Block(x, n + 1) = IF Upper(x, n) THEN Block(x, n) - 2 ^ n ELSE Block(x, n)
<1>1. PICK d \in Nat : d = 2 ^ n /\ d > 0 /\ 2 ^ (n + 1) = 2 * d
  BY PowerOfTwo
<1>2. PICK r \in 0 .. d - 1 : r = x % d
  BY <1>1, DivisionFacts
<1>3. Block(x, n) = x - r /\ Block(x, n + 1) = x - (x % (2 * d))
  BY <1>1, <1>2 DEF Block
<1>4. Upper(x, n) <=> (x \div d) % 2 = 1
  BY <1>1 DEF Upper
<1>5. CASE Upper(x, n)
  <2>1. x % (2 * d) = r + d
    BY <1>1, <1>2, <1>4, <1>5, Doubled
  <2> QED
    BY <1>1, <1>3, <1>5, <2>1
<1>6. CASE ~Upper(x, n)
  <2>1. x % (2 * d) = r
    BY <1>1, <1>2, <1>4, <1>6, Doubled
  <2> QED
    BY <1>3, <1>6, <2>1
<1> QED
  BY <1>5, <1>6

\* Pages of one block are of one block of every larger size.
LEMMA SameBlock ==
    ASSUME NEW x \in Nat, NEW y \in Nat, NEW n \in Nat, NEW k \in Nat, n <= k,
           Block(x, n) = Block(y, n)
    PROVE  Block(x, k) = Block(y, k)
<1> DEFINE T == {i \in Nat : Block(x, i) = Block(y, i)}
<1>1. n \in T
  OBVIOUS
<1>2. ASSUME NEW i \in n .. k - 1, i \in T PROVE i + 1 \in T
  <2>1. i \in Nat /\ i + 1 \in Nat /\ Block(x, i) = Block(y, i)
    BY <1>2
  <2>2. Upper(x, i) <=> Upper(y, i)
    BY <2>1, BlockOfBlock
  <2> QED
    BY <2>1, <2>2, BlockStep
<1> HIDE DEF T
<1>3. n .. k \subseteq T
  BY <1>1, <1>2, Climb
<1> QED
  BY <1>3 DEF T

\* What is within a block within a larger one.
LEMMA BlockUp ==
    ASSUME NEW x \in Nat, NEW n \in Nat, NEW k \in Nat, n <= k
    PROVE  Block(Block(x, n), k) = Block(x, k)
<1>1. PICK z \in Nat : z = Block(x, n)
  BY BlockRange
<1>2. Block(z, n) = Block(x, n)
  BY <1>1, BlockOfBlock
<1> QED
  BY <1>1, <1>2, SameBlock

\* A block of the next size is a lower and an upper half.
LEMMA LowerHalf ==
    ASSUME NEW a \in Nat, NEW n \in Nat, Block(a, n + 1) = a
    PROVE  Block(a, n) = a /\ ~Upper(a, n)
<1>1. 2 ^ n \in Nat /\ 2 ^ n > 0 /\ Block(a, n) \in Nat /\ Block(a, n) <= a
  BY BlockRange
<1>2. a = IF Upper(a, n) THEN Block(a, n) - 2 ^ n ELSE Block(a, n)
  BY BlockStep
<1> QED
  BY <1>1, <1>2

LEMMA UpperHalf ==
    ASSUME NEW a \in Nat, NEW n \in Nat, Block(a, n + 1) = a, NEW b, b = a + 2 ^ n
    PROVE  b \in Nat /\ b # a /\ Block(b, n) = b /\ Upper(b, n) /\ Block(b, n + 1) = a
<1>1. PICK d \in Nat : d = 2 ^ n /\ d > 0 /\ 2 ^ (n + 1) = 2 * d
  BY PowerOfTwo
<1>2. PICK e \in Nat : e = 2 * d /\ e = 2 ^ (n + 1)
  BY <1>1
<1>3. PICK q \in Nat : q = a \div e /\ Block(a, n + 1) = e * q /\ Block(a, n + 1) \in Nat
  <2>1. n + 1 \in Nat
    OBVIOUS
  <2> QED
    BY <1>2, <2>1, BlockMultiple
<1>4. PICK h \in Nat : h = 2 * q + 1 /\ h % 2 = 1
  OBVIOUS
<1>5. b = d * h /\ b \in Nat
  BY <1>1, <1>2, <1>3, <1>4
<1>6. Block(b, n) = b /\ Upper(b, n)
  <2>1. Block(b, n) = b /\ (Upper(b, n) <=> h % 2 = 1)
    <3>1. d \in Nat /\ d = 2 ^ n /\ h \in Nat /\ b \in Nat /\ b = d * h
      BY <1>1, <1>5
    <3> QED
      BY <3>1, MultipleIsBlock
  <2> QED
    BY <1>4, <2>1
<1>7. Block(b, n + 1) = b - d
  BY <1>1, <1>5, <1>6, BlockStep
<1> QED
  BY <1>1, <1>5, <1>6, <1>7

\* Where the block of x is in the block of the next size.
LEMMA Halves ==
    ASSUME NEW x \in Nat, NEW n \in Nat
    PROVE  Block(x, n) = IF Upper(x, n) THEN Block(x, n + 1) + 2 ^ n ELSE Block(x, n + 1)
<1>1. 2 ^ n \in Nat /\ Block(x, n) \in Nat
  BY BlockRange
<1> QED
  BY <1>1, BlockStep

\* The first page of a block is the first page of blocks of all smaller sizes.
LEMMA FirstOfSmaller ==
    ASSUME NEW a \in Nat, NEW n \in Nat, NEW k \in Nat, n <= k, Block(a, k) = a
    PROVE  Block(a, n) = a
<1> DEFINE T == {i \in Nat : Block(a, i) = a}
<1>1. k \in T
  OBVIOUS
<1>2. ASSUME NEW i \in n .. k - 1, i + 1 \in T PROVE i \in T
  BY <1>2, LowerHalf
<1> HIDE DEF T
<1>3. n .. k \subseteq T
  BY <1>1, <1>2, Descend
<1> QED
  BY <1>3 DEF T

\* A page that is the first of an upper half of size i is not of size j # i.
LEMMA OneSize ==
    ASSUME NEW x \in Nat, NEW i \in Nat, NEW j \in Nat,
           Block(x, i) = x, Upper(x, i), Block(x, j) = x, Upper(x, j)
    PROVE  i = j
<1>1. ASSUME NEW n \in Nat, NEW k \in Nat, Block(x, k) = x, Upper(x, n), n < k PROVE FALSE
  <2>1. n + 1 \in Nat /\ n + 1 <= k
    BY <1>1
  <2>2. Block(x, n + 1) = x
    BY <1>1, <2>1, FirstOfSmaller
  <2> QED
    BY <1>1, <2>2, LowerHalf
<1> QED
  BY <1>1

\* The pages of the extent of a block are those of the block.
LEMMA ExtentOfBlock ==
    ASSUME NEW p \in Nat, NEW n \in Nat, Block(p, n) = p, NEW x \in Nat
    PROVE  x \in Extent(p, 2 ^ n) <=> Block(x, n) = p
<1>1. PICK d \in Nat : d = 2 ^ n /\ d > 0
  BY PowerOfTwo
<1>2. ASSUME Block(x, n) = p PROVE x \in Extent(p, 2 ^ n)
  BY <1>1, <1>2, BlockRange DEF Extent
<1>3. ASSUME x \in Extent(p, 2 ^ n) PROVE Block(x, n) = p
  <2>1. PICK q \in Nat : q = p \div d /\ Block(p, n) = d * q /\ Block(p, n) \in Nat
    BY <1>1, BlockMultiple
  <2>2. PICK r \in 0 .. d - 1 : x = p + r
    <3>1. x - p \in 0 .. d - 1 /\ x = p + (x - p)
      BY <1>1, <1>3 DEF Extent
    <3> QED
      BY <3>1
  <2>3. x = d * q + r
    BY <2>1, <2>2
  <2>4. x % d = r
    BY <2>3, DivisionUnique
  <2> QED
    BY <1>1, <2>2, <2>4 DEF Block
<1> QED
  BY <1>2, <1>3
----------------------------------------------------------------------------
(* The pages are whole blocks of twice the largest size.                   *)
LEMMA Constants ==
    /\ NUM_OF_PAGES \in Nat /\ Top \in Nat /\ Top + 1 = NUM_OF_ALLOCSIZE
    /\ Sizes = 0 .. Top /\ Sizes \subseteq Nat /\ Pages \subseteq Nat
    /\ Block(NUM_OF_PAGES, Top + 1) = NUM_OF_PAGES
<1>1. /\ NUM_OF_PAGES \in Nat /\ Top \in Nat /\ Top + 1 = NUM_OF_ALLOCSIZE
      /\ Sizes = 0 .. Top /\ Sizes \subseteq Nat /\ Pages \subseteq Nat
  BY MmAssumption DEF Top, Sizes, Pages
<1>2. NUM_OF_PAGES % 2 ^ (Top + 1) = 0
  BY <1>1, MmAssumption
<1>3. Block(NUM_OF_PAGES, Top + 1) = NUM_OF_PAGES - 0
  BY <1>2, Zenon DEF Block
<1> QED
  BY <1>1, <1>3

\* The block around a page is within the memory.
LEMMA BlockInPages ==
    ASSUME NEW x \in Pages, NEW n \in Nat, n <= Top + 1
    PROVE  /\ Block(x, n) \in Pages
           /\ Extent(Block(x, n), 2 ^ n) \subseteq Pages
<1>1. x \in Nat /\ x < NUM_OF_PAGES /\ NUM_OF_PAGES \in Nat
  BY Constants DEF Pages
<1>2. PICK d \in Nat : d = 2 ^ n /\ d > 0
  BY PowerOfTwo
<1>3. Block(NUM_OF_PAGES, n) = NUM_OF_PAGES
  BY <1>1, Constants, FirstOfSmaller
<1>4. PICK q \in Nat : q = NUM_OF_PAGES \div d /\ Block(NUM_OF_PAGES, n) = d * q /\ Block(NUM_OF_PAGES, n) \in Nat
  BY <1>1, <1>2, BlockMultiple
<1>5. PICK h \in Nat : h = x \div d /\ Block(x, n) = d * h /\ Block(x, n) \in Nat
  BY <1>1, <1>2, BlockMultiple
<1>6. Block(x, n) \in Nat /\ Block(x, n) <= x
  BY <1>1, BlockRange
<1>7. h < q
  <2>1. CASE h >= q
    <3>1. PICK e \in Nat : h = q + e
      BY <2>1
    <3>2. d * h = d * q + d * e /\ d * e >= 0
      BY <3>1
    <3>3. d * h >= d * q
      BY <3>2
    <3> QED
      BY <1>1, <1>3, <1>4, <1>5, <1>6, <3>3
  <2> QED
    BY <2>1
<1>8. d * h + d <= d * q
  <2>1. PICK e \in Nat : q = h + 1 + e
    BY <1>7
  <2>2. d * q = d * h + d + d * e /\ d * e >= 0
    BY <2>1
  <2> QED
    BY <2>2
<1>9. Block(x, n) + d <= NUM_OF_PAGES
  BY <1>3, <1>4, <1>5, <1>8
<1> QED
  BY <1>1, <1>2, <1>6, <1>9 DEF Extent, Pages
----------------------------------------------------------------------------
(* The invariant, as a property of the table m of the pages and the lists. *)
PageTypes == {"FREE", "NOT_HEAD", "ALLOCATED", "ALLOCATED_CONT", "RESERVED"}
Table == [type : [Pages -> PageTypes], allocsize : [Pages -> Sizes],
          free : [Sizes -> Seq(Pages)]]

IsHead(m, p) == m.type[p] # "NOT_HEAD"
Covers(m, p, x) == IsHead(m, p) /\ Block(x, m.allocsize[p]) = p

(* Every page is in exactly one block, blocks are aligned, and a page that *)
(* is no head is the upper half of the size it was merged at.              *)
Tiling(m) ==
    /\ m \in Table
    /\ \A p \in Pages : IsHead(m, p) => Block(p, m.allocsize[p]) = p
    /\ \A x \in Pages : \E p \in Pages : Covers(m, p, x)
    /\ \A x, p, q \in Pages : Covers(m, p, x) /\ Covers(m, q, x) => p = q
    /\ \A x \in Pages : ~IsHead(m, x) =>
          Block(x, m.allocsize[x]) = x /\ Upper(x, m.allocsize[x])

(* The lists hold the free blocks, except the ones in X that have been     *)
(* taken off and are not marked yet.                                       *)
Lists(m, X) ==
    \A n \in Sizes :
        /\ IsList(m.free[n])
        /\ Elems(m.free[n]) = {p \in Pages : /\ m.type[p] = "FREE"
                                             /\ m.allocsize[p] = n /\ p \notin X}

\* List l, of size n, has the lower halves in front.
Lowers(l, n) == \A i, j \in DOMAIN l : i < j /\ Upper(l[i], n) => Upper(l[j], n)
Ordered(m) == \A n \in Sizes : Lowers(m.free[n], n)

\* Not both halves of a block are free.
Apart(m) ==
    \A n \in 0 .. Top - 1 : \A a \in Pages : Block(a, n + 1) = a =>
        ~(a \in Elems(m.free[n]) /\ a + 2 ^ n \in Elems(m.free[n]))

Memory(m, X) == Tiling(m) /\ Lists(m, X) /\ Ordered(m) /\ Apart(m)

(* What a client was given is one block, or a lower half and the block     *)
(* behind it, which nobody else was given.                                 *)
Given(m, o, p) ==
    \/ m.type[p] = "ALLOCATED" /\ o[p] <= 2 ^ m.allocsize[p]
    \/ LET q == p + 2 ^ m.allocsize[p]
       IN  /\ m.type[p] = "ALLOCATED_CONT" /\ ~Upper(p, m.allocsize[p])
           /\ q \in Pages /\ m.type[q] = "ALLOCATED" /\ o[q] = 0
           /\ o[p] <= 2 ^ m.allocsize[p] + 2 ^ m.allocsize[q]
Clients(m, o) == \A p \in Pages : o[p] # 0 => Given(m, o, p)

\* The pages mm_init_global has not come to.
Starting ==
    /\ init_page \in 0 .. NUM_OF_PAGES
    /\ \A x \in Pages : x >= init_page => mm.type[x] = "RESERVED"
    /\ ~Initialized => \A x \in Pages : owned[x] = 0

MmInv ==
    /\ Memory(mm, {}) /\ Clients(mm, owned) /\ Starting
    /\ owned \in [Pages -> Nat] /\ panicked \in {"no", "out of memory"}
----------------------------------------------------------------------------
(* Tilings are changed within one block of size k that begins at b.        *)
Halved(m, x) == Block(x, m.allocsize[x]) = x /\ Upper(x, m.allocsize[x])

Inside(m, b, k) ==
    /\ \A p \in Pages : Block(p, k) = b /\ IsHead(m, p) =>
          m.allocsize[p] <= k /\ Block(p, m.allocsize[p]) = p
    /\ \A x \in Pages : Block(x, k) = b => \E p \in Pages : Block(p, k) = b /\ Covers(m, p, x)
    /\ \A x, p, q \in Pages :
          (Block(x, k) = b /\ Block(p, k) = b /\ Block(q, k) = b) =>
              (Covers(m, p, x) /\ Covers(m, q, x) => p = q)
    /\ \A x \in Pages : Block(x, k) = b /\ ~IsHead(m, x) => Halved(m, x)

\* Sizes and pages are numbers.
LEMMA TableFacts ==
    ASSUME NEW m \in Table
    PROVE  /\ \A x \in Pages : x \in Nat /\ m.allocsize[x] \in Sizes /\ m.allocsize[x] \in Nat
                               /\ m.allocsize[x] <= Top /\ m.type[x] \in PageTypes
           /\ \A n \in Sizes : m.free[n] \in Seq(Pages)
  BY Constants DEF Table

\* A head of size at most k: the block of size k around it is tiled by itself.
LEMMA Within ==
    ASSUME NEW m, Tiling(m), NEW k \in Nat, NEW r \in Pages, IsHead(m, r), m.allocsize[r] <= k,
           NEW b, b = Block(r, k)
    PROVE  Inside(m, b, k)
<1>1. m \in Table /\ \A x \in Pages : x \in Nat /\ m.allocsize[x] \in Nat
  BY TableFacts DEF Tiling
<1>2. Covers(m, r, r)
  BY DEF Tiling, Covers
<1>3. ASSUME NEW p \in Pages, NEW x \in Pages, Covers(m, p, x), Block(x, k) = b
      PROVE  m.allocsize[p] <= k /\ Block(p, k) = b
  <2>1. CASE m.allocsize[p] > k
    <3>1. Block(r, m.allocsize[p]) = Block(x, m.allocsize[p])
      BY <1>1, <1>3, <2>1, SameBlock
    <3>2. Covers(m, p, r)
      BY <1>3, <3>1 DEF Covers
    <3>3. p = r
      BY <1>2, <3>2 DEF Tiling
    <3> QED
      BY <2>1, <3>3, <1>1
  <2>2. CASE m.allocsize[p] <= k
    <3>1. Block(x, m.allocsize[p]) = p
      BY <1>3 DEF Covers
    <3>2. Block(p, k) = Block(x, k)
      BY <1>1, <2>2, <3>1, BlockUp
    <3> QED
      BY <1>3, <2>2, <3>2
  <2> QED
    BY <1>1, <2>1, <2>2
<1>4. ASSUME NEW p \in Pages, Block(p, k) = b, IsHead(m, p)
      PROVE  m.allocsize[p] <= k /\ Block(p, m.allocsize[p]) = p
  <2>1. Block(p, m.allocsize[p]) = p
    BY <1>4 DEF Tiling
  <2>2. Covers(m, p, p)
    BY <1>4, <2>1 DEF Covers
  <2> QED
    BY <1>3, <1>4, <2>1, <2>2
<1>5. ASSUME NEW x \in Pages, Block(x, k) = b
      PROVE  \E p \in Pages : Block(p, k) = b /\ Covers(m, p, x)
  <2>1. PICK p \in Pages : Covers(m, p, x)
    BY DEF Tiling
  <2> QED
    BY <1>3, <1>5, <2>1
<1>6. \A x, p, q \in Pages : Covers(m, p, x) /\ Covers(m, q, x) => p = q
  BY DEF Tiling
<1>7. \A x \in Pages : ~IsHead(m, x) => Halved(m, x)
  BY DEF Tiling, Halved
<1> QED
  BY <1>4, <1>5, <1>6, <1>7 DEF Inside

\* Changing one tiled block for another keeps the tiling.
LEMMA Retile ==
    ASSUME NEW m, Tiling(m), NEW k \in Nat, NEW b, Inside(m, b, k),
           NEW m2 \in Table, Inside(m2, b, k),
           \A x \in Pages : Block(x, k) # b =>
              (IsHead(m2, x) <=> IsHead(m, x)) /\ m2.allocsize[x] = m.allocsize[x]
    PROVE  Tiling(m2)
<1>1. m \in Table /\ \A x \in Pages : x \in Nat /\ m.allocsize[x] \in Nat /\ m2.allocsize[x] \in Nat
  BY TableFacts DEF Tiling
<1>2. \A x, p \in Pages : Block(p, k) # b => (Covers(m2, p, x) <=> Covers(m, p, x))
  BY DEF Covers
<1>3. ASSUME NEW x \in Pages, NEW p \in Pages, Block(x, k) # b, Block(p, k) = b
      PROVE  ~Covers(m, p, x) /\ ~Covers(m2, p, x)
  <2>1. ASSUME NEW s \in Nat, s <= k, Block(x, s) = p PROVE FALSE
    <3>1. Block(p, k) = Block(x, k)
      BY <1>1, <2>1, BlockUp
    <3> QED
      BY <1>3, <3>1
  <2>2. IsHead(m, p) => m.allocsize[p] <= k
    BY <1>3 DEF Inside
  <2>3. IsHead(m2, p) => m2.allocsize[p] <= k
    BY <1>3 DEF Inside
  <2> QED
    BY <1>1, <2>1, <2>2, <2>3 DEF Covers
<1>4. ASSUME NEW x \in Pages, NEW p \in Pages, Block(x, k) = b, Covers(m2, p, x)
      PROVE  Block(p, k) = b
  <2>1. SUFFICES ASSUME Block(p, k) # b PROVE FALSE
    OBVIOUS
  <2>2. Covers(m, p, x)
    BY <1>2, <1>4, <2>1
  <2>3. PICK q \in Pages : Block(q, k) = b /\ Covers(m, q, x)
    BY <1>4 DEF Inside
  <2>4. p = q
    BY <2>2, <2>3 DEF Tiling
  <2> QED
    BY <2>1, <2>3, <2>4
<1>5. ASSUME NEW p \in Pages, IsHead(m2, p) PROVE Block(p, m2.allocsize[p]) = p
  <2>1. CASE Block(p, k) = b
    BY <1>5, <2>1 DEF Inside
  <2>2. CASE Block(p, k) # b
    BY <1>5, <2>2 DEF Tiling
  <2> QED
    BY <2>1, <2>2
<1>6. ASSUME NEW x \in Pages PROVE \E p \in Pages : Covers(m2, p, x)
  <2>1. CASE Block(x, k) = b
    BY <2>1 DEF Inside
  <2>2. CASE Block(x, k) # b
    <3>1. PICK p \in Pages : Covers(m, p, x)
      BY DEF Tiling
    <3>2. Block(p, k) # b
      BY <1>3, <2>2, <3>1
    <3> QED
      BY <1>2, <3>1, <3>2
  <2> QED
    BY <2>1, <2>2
<1>7. ASSUME NEW x \in Pages, NEW p \in Pages, NEW q \in Pages, Covers(m2, p, x), Covers(m2, q, x)
      PROVE  p = q
  <2>1. CASE Block(x, k) = b
    <3>1. Block(p, k) = b /\ Block(q, k) = b
      BY <1>4, <1>7, <2>1
    <3> QED
      BY <1>7, <2>1, <3>1 DEF Inside
  <2>2. CASE Block(x, k) # b
    <3>1. Block(p, k) # b /\ Block(q, k) # b
      BY <1>3, <1>7, <2>2
    <3>2. Covers(m, p, x) /\ Covers(m, q, x)
      BY <1>2, <1>7, <3>1
    <3> QED
      BY <3>2 DEF Tiling
  <2> QED
    BY <2>1, <2>2
<1>8. ASSUME NEW x \in Pages, ~IsHead(m2, x) PROVE Block(x, m2.allocsize[x]) = x /\ Upper(x, m2.allocsize[x])
  <2>1. CASE Block(x, k) = b
    BY <1>8, <2>1 DEF Inside, Halved
  <2>2. CASE Block(x, k) # b
    BY <1>8, <2>2 DEF Tiling
  <2> QED
    BY <2>1, <2>2
<1> QED
  BY <1>5, <1>6, <1>7, <1>8 DEF Tiling

\* A page that is not the head of its block is no head.
LEMMA OneHead ==
    ASSUME NEW m, Tiling(m), NEW p \in Pages, IsHead(m, p),
           NEW x \in Pages, Block(x, m.allocsize[p]) = p, IsHead(m, x)
    PROVE  x = p
<1>1. Covers(m, p, x) /\ Covers(m, x, x)
  BY DEF Covers, Tiling
<1> QED
  BY <1>1 DEF Tiling
----------------------------------------------------------------------------
(* Splitting.                                                              *)

\* The upper halves in block p are no heads, and have the size they get.
LEMMA PieceFacts ==
    ASSUME NEW m, Tiling(m), NEW p \in Pages, IsHead(m, p),
           NEW j \in Nat, j < m.allocsize[p], NEW b, b = p + 2 ^ j
    PROVE  /\ b \in Pages /\ b \in Nat /\ b # p
           /\ Block(b, j) = b /\ Upper(b, j) /\ Block(b, j + 1) = p /\ Block(p, j + 1) = p
           /\ Block(b, m.allocsize[p]) = p
           /\ ~IsHead(m, b) /\ m.allocsize[b] = j
<1>1. PICK k \in Nat : k = m.allocsize[p] /\ k <= Top /\ j + 1 <= k
  BY TableFacts DEF Tiling
<1>2. p \in Nat /\ Block(p, k) = p /\ j + 1 \in Nat
  BY <1>1, Constants DEF Tiling
<1>3. Block(p, j + 1) = p
  BY <1>1, <1>2, FirstOfSmaller
<1>4. b \in Nat /\ b # p /\ Block(b, j) = b /\ Upper(b, j) /\ Block(b, j + 1) = p
  BY <1>2, <1>3, UpperHalf
<1>5. b \in Pages
  <2>1. b \in Extent(p, 2 ^ (j + 1))
    BY <1>2, <1>3, <1>4, ExtentOfBlock
  <2>2. j + 1 <= Top + 1 /\ Top \in Nat
    BY <1>1, Constants
  <2> QED
    BY <1>2, <1>3, <2>1, <2>2, BlockInPages
<1>6. Block(b, k) = p
  BY <1>1, <1>2, <1>3, <1>4, SameBlock
<1>7. ~IsHead(m, b)
  BY <1>1, <1>4, <1>5, <1>6, OneHead
<1>8. m.allocsize[b] \in Nat /\ Block(b, m.allocsize[b]) = b /\ Upper(b, m.allocsize[b])
  BY <1>5, <1>7, TableFacts DEF Tiling
<1>9. m.allocsize[b] = j
  BY <1>4, <1>8, OneSize
<1> QED
  BY <1>1, <1>3, <1>4, <1>5, <1>6, <1>7, <1>9

\* The fields of a table that was split.
Splits(m, p, n, m2) ==
    /\ m2 \in Table
    /\ \A x \in Pages : (\E j \in n .. m.allocsize[p] - 1 : x = p + 2 ^ j) => m2.type[x] = "FREE"
    /\ \A x \in Pages : ~(\E j \in n .. m.allocsize[p] - 1 : x = p + 2 ^ j) => m2.type[x] = m.type[x]
    /\ m2.allocsize[p] = n
    /\ \A x \in Pages : x # p => m2.allocsize[x] = m.allocsize[x]
    /\ \A j \in Sizes : j \in n .. m.allocsize[p] - 1 => m2.free[j] = LIST1_ADD(m.free[j], p + 2 ^ j)
    /\ \A j \in Sizes : j \notin n .. m.allocsize[p] - 1 => m2.free[j] = m.free[j]

LEMMA SplitFields ==
    ASSUME NEW m, Tiling(m), NEW p \in Pages, IsHead(m, p), NEW n \in Nat, n <= m.allocsize[p]
    PROVE  Splits(m, p, n, Split(m, p, m.allocsize[p], n))
<1>1. PICK k \in Nat : k = m.allocsize[p] /\ k <= Top
  BY TableFacts DEF Tiling
<1>2. m.type \in [Pages -> PageTypes] /\ m.allocsize \in [Pages -> Sizes] /\ m.free \in [Sizes -> Seq(Pages)]
  BY DEF Tiling, Table
<1> DEFINE t == [x \in Pages |-> IF \E j \in n .. k - 1 : x = p + 2 ^ j THEN "FREE" ELSE m.type[x]]
           a == [m.allocsize EXCEPT ![p] = n]
           f == [j \in Sizes |-> IF j \in n .. k - 1 THEN LIST1_ADD(m.free[j], p + 2 ^ j) ELSE m.free[j]]
<1>3. Split(m, p, k, n) = [type |-> t, allocsize |-> a, free |-> f]
  BY DEF Split
<1>4. t \in [Pages -> PageTypes]
  BY <1>2 DEF PageTypes
<1>5. n \in Sizes /\ a \in [Pages -> Sizes]
  BY <1>1, <1>2, Constants
<1>6. f \in [Sizes -> Seq(Pages)]
  <2>1. ASSUME NEW j \in Sizes, j \in n .. k - 1 PROVE LIST1_ADD(m.free[j], p + 2 ^ j) \in Seq(Pages)
    <3>1. j \in Nat /\ j < k
      BY <2>1, <1>1
    <3>2. p + 2 ^ j \in Pages
      BY <1>1, <3>1, PieceFacts
    <3> QED
      BY <1>2, <3>2 DEF LIST1_ADD
  <2> QED
    BY <1>2, <2>1
<1>7. \A x \in Pages : t[x] = IF \E j \in n .. k - 1 : x = p + 2 ^ j THEN "FREE" ELSE m.type[x]
  OBVIOUS
<1>8. a[p] = n /\ \A x \in Pages : x # p => a[x] = m.allocsize[x]
  BY <1>2
<1>9. \A j \in Sizes : f[j] = IF j \in n .. k - 1 THEN LIST1_ADD(m.free[j], p + 2 ^ j) ELSE m.free[j]
  OBVIOUS
<1> HIDE DEF t, a, f
<1>10. PICK m2 : m2 = [type |-> t, allocsize |-> a, free |-> f]
  OBVIOUS
<1>11. m2 \in Table /\ m2.type = t /\ m2.allocsize = a /\ m2.free = f
  BY <1>4, <1>5, <1>6, <1>10 DEF Table
<1>12. Splits(m, p, n, m2)
  BY <1>1, <1>7, <1>8, <1>9, <1>11 DEF Splits
<1> QED
  BY <1>1, <1>3, <1>10, <1>12

\* The heads in block p after the split, and their sizes.
LEMMA SplitHeads ==
    ASSUME NEW m, Tiling(m), NEW p \in Pages, IsHead(m, p), NEW n \in Nat, n <= m.allocsize[p],
           NEW m2, Splits(m, p, n, m2)
    PROVE  /\ IsHead(m2, p) /\ m2.type[p] = m.type[p]
           /\ \A j \in n .. m.allocsize[p] - 1 :
                 p + 2 ^ j \in Pages /\ m2.type[p + 2 ^ j] = "FREE" /\ m2.allocsize[p + 2 ^ j] = j
           /\ \A x \in Pages : Block(x, m.allocsize[p]) = p /\ IsHead(m2, x) /\ x # p =>
                 \E j \in n .. m.allocsize[p] - 1 : x = p + 2 ^ j
           /\ \A x \in Pages : Block(x, m.allocsize[p]) # p =>
                 m2.type[x] = m.type[x] /\ m2.allocsize[x] = m.allocsize[x]
<1>1. PICK k \in Nat : k = m.allocsize[p]
  BY TableFacts DEF Tiling
<1>2. ASSUME NEW j \in n .. k - 1
      PROVE  /\ p + 2 ^ j \in Pages /\ p + 2 ^ j # p /\ m.allocsize[p + 2 ^ j] = j
             /\ Block(p + 2 ^ j, k) = p /\ j \in Nat /\ j < k
  <2>1. j \in Nat /\ j < k
    OBVIOUS
  <2> QED
    BY <1>1, <2>1, PieceFacts
<1>3. m2.type[p] = m.type[p]
  BY <1>1, <1>2 DEF Splits
<1>4. IsHead(m2, p)
  BY <1>3 DEF IsHead
<1>5. ASSUME NEW j \in n .. k - 1
      PROVE  p + 2 ^ j \in Pages /\ m2.type[p + 2 ^ j] = "FREE" /\ m2.allocsize[p + 2 ^ j] = j
  BY <1>1, <1>2 DEF Splits
<1>6. ASSUME NEW x \in Pages, Block(x, k) = p, IsHead(m2, x), x # p
      PROVE  \E j \in n .. k - 1 : x = p + 2 ^ j
  <2>1. SUFFICES ASSUME ~\E j \in n .. k - 1 : x = p + 2 ^ j PROVE FALSE
    OBVIOUS
  <2>2. IsHead(m, x)
    BY <1>1, <1>6, <2>1 DEF Splits, IsHead
  <2> QED
    BY <1>1, <1>6, <2>2, OneHead
<1>7. ASSUME NEW x \in Pages, Block(x, k) # p
      PROVE  m2.type[x] = m.type[x] /\ m2.allocsize[x] = m.allocsize[x]
  <2>1. x # p
    BY <1>1, <1>7 DEF Tiling
  <2>2. ~\E j \in n .. k - 1 : x = p + 2 ^ j
    BY <1>2, <1>7
  <2> QED
    BY <1>1, <2>1, <2>2 DEF Splits
<1> QED
  BY <1>1, <1>3, <1>4, <1>5, <1>6, <1>7

\* The block is tiled by its lowest part and the upper halves.
LEMMA SplitInside ==
    ASSUME NEW m, Tiling(m), NEW p \in Pages, IsHead(m, p), NEW n \in Nat, n <= m.allocsize[p],
           NEW m2, Splits(m, p, n, m2)
    PROVE  Inside(m2, p, m.allocsize[p])
<1>1. PICK k \in Nat : k = m.allocsize[p] /\ n <= k
  BY TableFacts DEF Tiling
<1>2. /\ Block(p, k) = p /\ p \in Nat
      /\ m2.allocsize[p] = n /\ IsHead(m2, p)
      /\ \A x \in Pages : x \in Nat
  <2>1. Block(p, k) = p /\ \A x \in Pages : x \in Nat
    BY <1>1, Constants DEF Tiling
  <2>2. m2.allocsize[p] = n
    BY DEF Splits
  <2>3. IsHead(m2, p)
    BY SplitHeads
  <2> QED
    BY <2>1, <2>2, <2>3
<1>3. \A x \in Pages : Block(x, k) = p /\ IsHead(m2, x) /\ x # p => \E j \in n .. k - 1 : x = p + 2 ^ j
  BY <1>1, SplitHeads
<1>4. ASSUME NEW j \in n .. k - 1, NEW b, b = p + 2 ^ j
      PROVE  /\ b \in Pages /\ b # p /\ j \in Nat /\ j < k
             /\ Block(b, j) = b /\ Upper(b, j) /\ Block(b, j + 1) = p
             /\ Block(b, k) = p /\ IsHead(m2, b) /\ m2.allocsize[b] = j
  <2>1. j \in Nat /\ j < k
    OBVIOUS
  <2>2. /\ b \in Pages /\ b # p /\ Block(b, j) = b /\ Upper(b, j) /\ Block(b, j + 1) = p
        /\ Block(b, k) = p
    BY <1>1, <1>4, <2>1, PieceFacts
  <2>3. m2.type[b] = "FREE" /\ m2.allocsize[b] = j
    BY <1>1, <1>4, SplitHeads
  <2> QED
    BY <2>1, <2>2, <2>3 DEF IsHead
<1>5. ASSUME NEW x \in Pages, Block(x, k) = p, IsHead(m2, x)
      PROVE  m2.allocsize[x] <= k /\ Block(x, m2.allocsize[x]) = x
  <2>1. CASE x = p
    <3>1. Block(p, n) = p
      BY <1>1, <1>2, FirstOfSmaller
    <3> QED
      BY <1>1, <1>2, <2>1, <3>1
  <2>2. CASE x # p
    <3>1. PICK j \in n .. k - 1 : x = p + 2 ^ j
      BY <1>3, <1>5, <2>2
    <3> QED
      BY <1>4, <3>1
  <2> QED
    BY <2>1, <2>2
<1>6. ASSUME NEW x \in Pages, Block(x, k) = p
      PROVE  \E q \in Pages : Block(q, k) = p /\ Covers(m2, q, x)
  <2> DEFINE U == {i \in n .. k : Block(x, i) = p}
  <2>1. U \subseteq Nat /\ U # {}
    BY <1>1, <1>6
  <2>2. PICK i \in U : \A y \in U : i <= y
    <3> HIDE DEF U
    <3> QED
      BY <2>1, LeastExists
  <2>3. i \in Nat /\ n <= i /\ i <= k /\ Block(x, i) = p
    OBVIOUS
  <2>4. CASE i = n
    BY <1>2, <2>3, <2>4 DEF Covers
  <2>5. CASE i # n
    <3>1. PICK j \in Nat : j = i - 1 /\ j + 1 = i /\ j \in n .. k - 1 /\ j \in n .. k
      BY <2>3, <2>5
    <3>2. j \notin U
      BY <2>2, <3>1
    <3>3. Block(x, j) # p
      BY <3>1, <3>2
    <3>4. Block(x, j) = p + 2 ^ j
      BY <1>2, <2>3, <3>1, <3>3, Halves
    <3>5. PICK b \in Pages : b = p + 2 ^ j /\ Block(b, k) = p /\ IsHead(m2, b) /\ m2.allocsize[b] = j
      BY <1>4, <3>1
    <3> QED
      BY <3>4, <3>5 DEF Covers
  <2> QED
    BY <2>4, <2>5
<1>7. ASSUME NEW x \in Pages, NEW q \in Pages, Block(x, k) = p, Block(q, k) = p, Covers(m2, q, x),
             NEW j \in n .. k - 1, Block(x, j) = p + 2 ^ j
      PROVE  q = p + 2 ^ j
  <2>1. PICK b \in Pages : /\ b = p + 2 ^ j /\ b # p /\ Block(b, j) = b /\ Upper(b, j)
                           /\ Block(b, j + 1) = p /\ j \in Nat /\ j < k
    BY <1>4
  <2>2. Block(x, j + 1) = p
    BY <1>2, <1>7, <2>1, BlockUp
  <2>3. PICK s \in Nat : s = m2.allocsize[q] /\ Block(x, s) = q
    BY <1>7, TableFacts DEF Splits, Covers
  <2>4. CASE q = p
    <3>1. s = n /\ n <= j
      BY <1>2, <2>3, <2>4
    <3>2. Block(x, j) = Block(p, j)
      BY <1>2, <2>1, <2>3, <2>4, <3>1, BlockUp
    <3>3. Block(p, j) = p
      BY <1>1, <1>2, <2>1, FirstOfSmaller
    <3> QED
      BY <1>7, <2>1, <3>2, <3>3
  <2>5. CASE q # p
    <3>1. PICK i \in n .. k - 1 : q = p + 2 ^ i
      BY <1>3, <1>7, <2>5 DEF Covers
    <3>2. /\ i \in Nat /\ i < k /\ s = i /\ Block(q, i + 1) = p
      BY <1>4, <2>3, <3>1
    <3>3. Block(x, i + 1) = p /\ Block(x, i) = q
      BY <1>2, <2>3, <3>2, BlockUp
    <3>4. CASE i < j
      <4>1. Block(x, j) = Block(p, j)
        BY <1>2, <2>1, <3>2, <3>3, <3>4, BlockUp
      <4>2. Block(p, j) = p
        BY <1>1, <1>2, <2>1, FirstOfSmaller
      <4> QED
        BY <1>7, <2>1, <4>1, <4>2
    <3>5. CASE j < i
      <4>1. Block(x, i) = Block(p, i)
        BY <1>2, <2>1, <2>2, <3>2, <3>5, BlockUp
      <4>2. Block(p, i) = p
        BY <1>1, <1>2, <3>2, FirstOfSmaller
      <4> QED
        BY <2>5, <3>3, <4>1, <4>2
    <3> QED
      BY <2>1, <3>1, <3>2, <3>4, <3>5
  <2> QED
    BY <2>4, <2>5
<1>8. ASSUME NEW x \in Pages, NEW q \in Pages, NEW r \in Pages,
             Block(x, k) = p, Block(q, k) = p, Block(r, k) = p, Covers(m2, q, x), Covers(m2, r, x)
      PROVE  q = r
  <2>1. ASSUME NEW y \in Pages, Block(y, k) = p, Covers(m2, y, x), y # p
        PROVE  \E j \in n .. k - 1 : y = p + 2 ^ j /\ Block(x, j) = p + 2 ^ j
    <3>1. PICK j \in n .. k - 1 : y = p + 2 ^ j
      BY <1>3, <2>1 DEF Covers
    <3>2. Block(x, j) = y
      BY <1>4, <2>1, <3>1 DEF Covers
    <3> QED
      BY <3>1, <3>2
  <2> QED
    BY <1>7, <1>8, <2>1
<1>9. ASSUME NEW x \in Pages, Block(x, k) = p, ~IsHead(m2, x) PROVE Halved(m2, x)
  <2>1. ~\E j \in n .. k - 1 : x = p + 2 ^ j
    BY <1>4, <1>9
  <2>2. x # p /\ m2.type[x] = m.type[x] /\ m2.allocsize[x] = m.allocsize[x]
    BY <1>1, <1>2, <1>9, <2>1 DEF Splits
  <2>3. ~IsHead(m, x)
    BY <1>9, <2>2 DEF IsHead
  <2> QED
    BY <2>2, <2>3 DEF Tiling, Halved
<1>10. Inside(m2, p, k)
  BY <1>5, <1>6, <1>8, <1>9 DEF Inside
<1> QED
  BY <1>1, <1>10

LEMMA SplitTiling ==
    ASSUME NEW m, Tiling(m), NEW p \in Pages, IsHead(m, p), NEW n \in Nat, n <= m.allocsize[p],
           NEW m2, Splits(m, p, n, m2)
    PROVE  Tiling(m2)
<1>1. PICK k \in Nat : k = m.allocsize[p]
  BY TableFacts DEF Tiling
<1>2. Block(p, k) = p
  BY <1>1 DEF Tiling
<1>3. Inside(m, p, k)
  BY <1>1, <1>2, Within
<1>4. Inside(m2, p, k)
  BY <1>1, SplitInside
<1>5. \A x \in Pages : Block(x, k) # p =>
          (IsHead(m2, x) <=> IsHead(m, x)) /\ m2.allocsize[x] = m.allocsize[x]
  BY <1>1, SplitHeads DEF IsHead
<1>6. m2 \in Table
  BY DEF Splits
<1> QED
  BY <1>3, <1>4, <1>5, <1>6, Retile
----------------------------------------------------------------------------
(* The free lists.                                                         *)
FreeList(l, n) == l \in Seq(Pages) /\ IsList(l) /\ Lowers(l, n)

LEMMA DelFree ==
    ASSUME NEW l, NEW n, FreeList(l, n), NEW d \in Elems(l)
    PROVE  FreeList(LIST1_DEL(l, d), n) /\ Elems(LIST1_DEL(l, d)) = Elems(l) \ {d}
<1> DEFINE r == LIST1_DEL(l, d)
           k == [x \in Pages |-> IF Upper(x, n) THEN 1 ELSE 0]
<1>1. l \in Seq(Pages) /\ IsList(l) /\ Lowers(l, n)
  BY DEF FreeList
<1>2. r \in Seq(Pages) /\ IsList(r) /\ Elems(r) = Elems(l) \ {d}
  BY <1>1, DelFacts
<1>3. \A s \in Seq(Pages) : DOMAIN s = 1 .. Len(s) /\ \A i \in 1 .. Len(s) : s[i] \in Pages
  BY LenProperties, ElementOfSeq
<1>4. ASSUME NEW s \in Seq(Pages) PROVE SortedBy(s, k) <=> Lowers(s, n)
  <2>1. \A x \in Pages : (Upper(x, n) => k[x] = 1) /\ (~Upper(x, n) => k[x] = 0)
    OBVIOUS
  <2> HIDE DEF k
  <2>2. \A i, j \in 1 .. Len(s) : k[s[i]] <= k[s[j]] <=> (Upper(s[i], n) => Upper(s[j], n))
    BY <1>3, <2>1
  <2>3. DOMAIN s = 1 .. Len(s)
    BY <1>3
  <2> QED
    BY <2>2, <2>3 DEF SortedBy, Lowers
<1> HIDE DEF k, r
<1>5. SortedBy(r, k)
  BY <1>1, <1>4, DelSorted DEF r
<1>6. Lowers(r, n)
  BY <1>2, <1>4, <1>5
<1> QED
  BY <1>2, <1>6 DEF FreeList, r

\* Upper halves go to the tail.
LEMMA AddFree ==
    ASSUME NEW l, NEW n, FreeList(l, n), NEW d \in Pages, d \notin Elems(l), Upper(d, n)
    PROVE  FreeList(LIST1_ADD(l, d), n) /\ Elems(LIST1_ADD(l, d)) = Elems(l) \cup {d}
<1> DEFINE r == LIST1_ADD(l, d)
<1>1. l \in Seq(Pages) /\ IsList(l) /\ Lowers(l, n)
  BY DEF FreeList
<1>2. r \in Seq(Pages) /\ IsList(r) /\ Elems(r) = Elems(l) \cup {d}
  BY <1>1, AddFacts
<1>3. /\ Len(l) \in Nat /\ DOMAIN l = 1 .. Len(l) /\ DOMAIN r = 1 .. Len(l) + 1
      /\ \A i \in 1 .. Len(l) : r[i] = l[i]
      /\ r[Len(l) + 1] = d
  BY <1>1 DEF LIST1_ADD
<1> HIDE DEF r
<1>4. Lowers(r, n)
  BY <1>1, <1>3 DEF Lowers
<1> QED
  BY <1>2, <1>4 DEF FreeList, r

\* Lower halves go to the head.
LEMMA PutFree ==
    ASSUME NEW l, NEW n, FreeList(l, n), NEW d \in Pages, d \notin Elems(l)
    PROVE  FreeList(Put(l, d, n), n) /\ Elems(Put(l, d, n)) = Elems(l) \cup {d}
<1>1. CASE Upper(d, n)
  BY <1>1, AddFree DEF Put
<1>2. CASE ~Upper(d, n)
  <2> DEFINE r == LIST1_PUSH(l, d)
             o == <<d>>
  <2>1. l \in Seq(Pages) /\ IsList(l) /\ Lowers(l, n) /\ Len(l) \in Nat /\ DOMAIN l = 1 .. Len(l)
    BY LenProperties DEF FreeList
  <2>2. o \in Seq(Pages) /\ Len(o) = 1 /\ o[1] = d
    OBVIOUS
  <2>3. r = o \o l
    BY DEF LIST1_PUSH
  <2> HIDE DEF o, r
  <2>4. /\ r \in Seq(Pages) /\ Len(r) = Len(l) + 1
        /\ \A i \in 1 .. Len(l) + 1 : r[i] = IF i <= 1 THEN o[i] ELSE l[i - 1]
    <3>1. /\ o \o l \in Seq(Pages) /\ Len(o \o l) = Len(o) + Len(l)
          /\ \A i \in 1 .. Len(o) + Len(l) :
                (o \o l)[i] = IF i <= Len(o) THEN o[i] ELSE l[i - Len(o)]
      BY <2>1, <2>2, ConcatProperties
    <3> QED
      BY <2>1, <2>2, <2>3, <3>1
  <2>5. /\ DOMAIN r = 1 .. Len(l) + 1 /\ r[1] = d
        /\ \A i \in 2 .. Len(l) + 1 : i - 1 \in 1 .. Len(l) /\ r[i] = l[i - 1]
    BY <2>1, <2>2, <2>4, LenProperties
  <2>6. \A i \in 1 .. Len(l) : i + 1 \in 2 .. Len(l) + 1 /\ r[i + 1] = l[i]
    BY <2>1, <2>5
  <2>7. Elems(r) = Elems(l) \cup {d}
    <3>1. ASSUME NEW x \in Elems(r) PROVE x \in Elems(l) \cup {d}
      BY <2>1, <2>5 DEF Elems, Range
    <3>2. ASSUME NEW x \in Elems(l) \cup {d} PROVE x \in Elems(r)
      <4>1. CASE x = d
        BY <2>1, <2>5, <4>1 DEF Elems, Range
      <4>2. CASE x # d
        <5>1. PICK i \in 1 .. Len(l) : x = l[i]
          BY <2>1, <4>2 DEF Elems, Range
        <5>2. i + 1 \in DOMAIN r /\ r[i + 1] = x
          BY <2>1, <2>5, <2>6, <5>1
        <5> QED
          BY <5>2 DEF Elems, Range
      <4> QED
        BY <4>1, <4>2
    <3> QED
      BY <3>1, <3>2
  <2>8. IsList(r)
    <3>1. \A i \in 1 .. Len(l) : l[i] # d
      BY <2>1 DEF Elems, Range
    <3>2. \A i, j \in 1 .. Len(l) : l[i] = l[j] => i = j
      BY <2>1 DEF IsList, IsInjective
    <3>3. ASSUME NEW i \in 1 .. Len(l) + 1, NEW j \in 1 .. Len(l) + 1, r[i] = r[j] PROVE i = j
      BY <2>1, <2>5, <3>1, <3>2, <3>3
    <3> QED
      BY <2>5, <3>3 DEF IsList, IsInjective
  <2>9. Lowers(r, n)
    BY <1>2, <2>1, <2>5 DEF Lowers
  <2>10. Put(l, d, n) = r
    BY <1>2 DEF Put, r
  <2> QED
    BY <2>4, <2>7, <2>8, <2>9, <2>10 DEF FreeList
<1> QED
  BY <1>1, <1>2

\* The free blocks of size n that are not in X.
FreeOf(m, n, X) == {p \in Pages : m.type[p] = "FREE" /\ m.allocsize[p] = n /\ p \notin X}

LEMMA ListsAreFree ==
    ASSUME NEW m \in Table, NEW X
    PROVE  Lists(m, X) /\ Ordered(m) <=>
              \A n \in Sizes : FreeList(m.free[n], n) /\ Elems(m.free[n]) = FreeOf(m, n, X)
<1>1. \A n \in Sizes : m.free[n] \in Seq(Pages)
  BY TableFacts
<1> QED
  BY <1>1 DEF Lists, Ordered, FreeList, FreeOf

LEMMA SplitMemory ==
    ASSUME NEW m, NEW X, Memory(m, X), \A x \in X : x \in Pages /\ IsHead(m, x),
           NEW p \in X, NEW n \in Nat, n <= m.allocsize[p],
           NEW m2, Splits(m, p, n, m2)
    PROVE  Memory(m2, X)
<1>1. Tiling(m) /\ m \in Table /\ m2 \in Table /\ p \in Pages /\ IsHead(m, p)
  BY DEF Memory, Tiling, Splits
<1>2. Tiling(m2)
  BY <1>1, SplitTiling
<1>3. PICK k \in Nat : k = m.allocsize[p] /\ k <= Top
  BY <1>1, TableFacts
<1>4. \A j \in Sizes : FreeList(m.free[j], j) /\ Elems(m.free[j]) = FreeOf(m, j, X)
  BY <1>1, ListsAreFree DEF Memory
<1>5. ASSUME NEW j \in n .. k - 1, NEW b, b = p + 2 ^ j
      PROVE  /\ j \in Sizes /\ j \in Nat /\ b \in Pages /\ b # p /\ b \notin X
             /\ Upper(b, j) /\ Block(b, j + 1) = p /\ Block(p, j + 1) = p
             /\ ~IsHead(m, b) /\ m.allocsize[b] = j /\ m2.allocsize[b] = j /\ m2.type[b] = "FREE"
  <2>1. j \in Nat /\ j < k /\ j \in Sizes
    BY <1>3, Constants
  <2>2. /\ b \in Pages /\ b # p /\ Upper(b, j) /\ Block(b, j + 1) = p /\ Block(p, j + 1) = p
        /\ ~IsHead(m, b) /\ m.allocsize[b] = j
    BY <1>1, <1>3, <1>5, <2>1, PieceFacts
  <2>3. m2.allocsize[b] = j
    BY <2>2 DEF Splits
  <2>4. m2.type[b] = "FREE"
    BY <1>3, <1>5, <2>2 DEF Splits
  <2> QED
    BY <2>1, <2>2, <2>3, <2>4
<1>6. ASSUME NEW j \in Sizes, j \in n .. k - 1
      PROVE  /\ FreeList(m2.free[j], j) /\ p + 2 ^ j \in Pages
             /\ Elems(m2.free[j]) = FreeOf(m, j, X) \cup {p + 2 ^ j}
  <2>1. PICK b \in Pages : b = p + 2 ^ j /\ ~IsHead(m, b) /\ Upper(b, j)
    BY <1>5, <1>6
  <2>2. b \notin FreeOf(m, j, X)
    BY <2>1 DEF FreeOf, IsHead
  <2>3. m2.free[j] = LIST1_ADD(m.free[j], b)
    BY <1>3, <1>6, <2>1 DEF Splits
  <2> QED
    BY <1>4, <2>1, <2>2, <2>3, AddFree
<1>7. ASSUME NEW j \in Sizes, j \notin n .. k - 1
      PROVE  FreeList(m2.free[j], j) /\ Elems(m2.free[j]) = FreeOf(m, j, X)
  BY <1>3, <1>4, <1>7 DEF Splits
<1>8. ASSUME NEW j \in Sizes, NEW x \in Pages, ~\E i \in n .. k - 1 : x = p + 2 ^ i
      PROVE  x \in FreeOf(m2, j, X) <=> x \in FreeOf(m, j, X)
  BY <1>3, <1>8 DEF FreeOf, Splits
<1>9. ASSUME NEW j \in Sizes, NEW x \in Pages, NEW i \in n .. k - 1, x = p + 2 ^ i
      PROVE  x \notin FreeOf(m, j, X) /\ (x \in FreeOf(m2, j, X) <=> i = j)
  BY <1>5, <1>9 DEF FreeOf, IsHead
<1>10. ASSUME NEW j \in Sizes
       PROVE  FreeList(m2.free[j], j) /\ Elems(m2.free[j]) = FreeOf(m2, j, X)
  <2>1. CASE j \in n .. k - 1
    <3>1. ASSUME NEW x \in Pages PROVE x \in FreeOf(m2, j, X) <=> x \in FreeOf(m, j, X) \cup {p + 2 ^ j}
      BY <1>8, <1>9, <2>1
    <3>2. FreeOf(m2, j, X) \subseteq Pages /\ FreeOf(m, j, X) \cup {p + 2 ^ j} \subseteq Pages
      BY <1>6, <2>1 DEF FreeOf
    <3> QED
      BY <1>6, <2>1, <3>1, <3>2
  <2>2. CASE j \notin n .. k - 1
    <3>1. ASSUME NEW x \in Pages PROVE x \in FreeOf(m2, j, X) <=> x \in FreeOf(m, j, X)
      BY <1>8, <1>9, <2>2
    <3>2. FreeOf(m2, j, X) \subseteq Pages /\ FreeOf(m, j, X) \subseteq Pages
      BY DEF FreeOf
    <3> QED
      BY <1>7, <2>2, <3>1, <3>2
  <2> QED
    BY <2>1, <2>2
<1>11. Lists(m2, X) /\ Ordered(m2)
  BY <1>1, <1>10, ListsAreFree
<1>12. Apart(m2)
  <2>1. SUFFICES ASSUME NEW j \in 0 .. Top - 1, NEW a \in Pages, Block(a, j + 1) = a,
                        a \in Elems(m2.free[j]), a + 2 ^ j \in Elems(m2.free[j])
                 PROVE  FALSE
    BY DEF Apart
  <2>2. j \in Sizes /\ j \in Nat /\ a \in Nat
    BY Constants
  <2>3. ~(a \in FreeOf(m, j, X) /\ a + 2 ^ j \in FreeOf(m, j, X))
    BY <1>4, <2>1, <2>2 DEF Memory, Apart
  <2>4. j \in n .. k - 1
    BY <1>7, <2>1, <2>2, <2>3
  <2>5. PICK b \in Pages : b = p + 2 ^ j /\ b # p /\ Block(b, j + 1) = p
    BY <1>5, <2>4
  <2>6. PICK c : c = a + 2 ^ j /\ Block(c, j + 1) = a /\ c # a
    BY <2>1, <2>2, UpperHalf
  <2>7. a # b
    BY <2>1, <2>5
  <2>8. c = b
    BY <1>6, <2>1, <2>2, <2>3, <2>4, <2>5, <2>6, <2>7
  <2>9. a = p /\ p \notin FreeOf(m, j, X)
    BY <2>5, <2>6, <2>8 DEF FreeOf
  <2> QED
    BY <1>6, <2>1, <2>2, <2>4, <2>5, <2>9
<1> QED
  BY <1>2, <1>11, <1>12 DEF Memory
----------------------------------------------------------------------------
(* Taking a block off its list, and marking it.                            *)
\* The heads outside S stay what they are.
Keeps(m, m2, S) ==
    \A x \in Pages \ S : IsHead(m, x) => m2.type[x] = m.type[x] /\ m2.allocsize[x] = m.allocsize[x]

LEMMA KeepsOn ==
    ASSUME NEW m, NEW m2, NEW m3, NEW S, Keeps(m, m2, S), Keeps(m2, m3, S)
    PROVE  Keeps(m, m3, S)
  BY DEF Keeps, IsHead

\* The blocks of X are free, and off their lists.
Loose(m, X) == \A x \in X : x \in Pages /\ m.type[x] = "FREE"

LEMMA SameTiling ==
    ASSUME NEW m, Tiling(m), NEW m2 \in Table, m2.allocsize = m.allocsize,
           \A x \in Pages : IsHead(m2, x) <=> IsHead(m, x)
    PROVE  Tiling(m2)
<1>1. \A x, p \in Pages : Covers(m2, p, x) <=> Covers(m, p, x)
  BY DEF Covers
<1>2. \A p \in Pages : IsHead(m2, p) => Block(p, m2.allocsize[p]) = p
  BY DEF Tiling
<1>3. \A x \in Pages : \E p \in Pages : Covers(m2, p, x)
  BY <1>1 DEF Tiling
<1>4. \A x, p, q \in Pages : Covers(m2, p, x) /\ Covers(m2, q, x) => p = q
  BY <1>1 DEF Tiling
<1>5. \A x \in Pages : ~IsHead(m2, x) => Block(x, m2.allocsize[x]) = x /\ Upper(x, m2.allocsize[x])
  BY DEF Tiling
<1> QED
  BY <1>2, <1>3, <1>4, <1>5 DEF Tiling

\* m2 is m without block p on the list of size i.
Takes(m, i, p, m2) ==
    /\ m2 \in Table /\ m2.type = m.type /\ m2.allocsize = m.allocsize
    /\ m2.free[i] = LIST1_DEL(m.free[i], p)
    /\ \A j \in Sizes : j # i => m2.free[j] = m.free[j]

\* A block on a list.
LEMMA TakeBlock ==
    ASSUME NEW m, NEW X, Memory(m, X), NEW i \in Sizes, NEW p \in Elems(m.free[i])
    PROVE  p \in Pages /\ m.type[p] = "FREE" /\ m.allocsize[p] = i /\ p \notin X
  BY DEF Memory, Lists

LEMMA TakeFields ==
    ASSUME NEW m, NEW X, Memory(m, X), NEW i \in Sizes, NEW p \in Elems(m.free[i])
    PROVE  Takes(m, i, p, [m EXCEPT !.free[i] = LIST1_DEL(@, p)])
<1>1. m \in Table /\ m.free[i] \in Seq(Pages) /\ IsList(m.free[i])
  BY TableFacts DEF Memory, Tiling, Lists
<1>2. PICK l \in Seq(Pages) : l = LIST1_DEL(m.free[i], p)
  BY <1>1, DelFacts
<1>3. PICK m2 : m2 = [m EXCEPT !.free[i] = l]
  OBVIOUS
<1>4. m2 = [m EXCEPT !.free[i] = LIST1_DEL(@, p)]
  BY <1>2, <1>3
<1>5. m.free \in [Sizes -> Seq(Pages)]
  BY <1>1 DEF Table
<1>6. m2.free = [m.free EXCEPT ![i] = l] /\ m2.type = m.type /\ m2.allocsize = m.allocsize /\ m2 \in Table
  BY <1>1, <1>3 DEF Table
<1> QED
  BY <1>2, <1>4, <1>5, <1>6 DEF Takes

LEMMA TakeMemory ==
    ASSUME NEW m, NEW X, Memory(m, X), NEW i \in Sizes, NEW p \in Elems(m.free[i]),
           NEW m2, Takes(m, i, p, m2)
    PROVE  Memory(m2, X \cup {p}) /\ Keeps(m, m2, {p}) /\ (Loose(m, X) => Loose(m2, X \cup {p}))
<1>1. Tiling(m) /\ m \in Table /\ m2 \in Table
  BY DEF Memory, Tiling, Takes
<1>2. \A j \in Sizes : FreeList(m.free[j], j) /\ Elems(m.free[j]) = FreeOf(m, j, X)
  BY <1>1, ListsAreFree DEF Memory
<1>3. p \in Pages /\ m.type[p] = "FREE" /\ m.allocsize[p] = i /\ p \notin X
  BY TakeBlock
<1>4. FreeList(LIST1_DEL(m.free[i], p), i) /\ Elems(LIST1_DEL(m.free[i], p)) = FreeOf(m, i, X) \ {p}
  BY <1>2, DelFree
<1>5. Tiling(m2)
  BY <1>1, SameTiling DEF Takes, IsHead
<1>6. ASSUME NEW j \in Sizes
      PROVE  FreeList(m2.free[j], j) /\ Elems(m2.free[j]) = FreeOf(m2, j, X \cup {p})
  <2>1. FreeOf(m2, j, X \cup {p}) = FreeOf(m, j, X) \ {p}
    BY DEF FreeOf, Takes
  <2>2. CASE j = i
    BY <1>4, <2>1, <2>2 DEF Takes
  <2>3. CASE j # i
    <3>1. p \notin FreeOf(m, j, X)
      BY <1>3, <2>3 DEF FreeOf
    <3> QED
      BY <1>2, <2>1, <2>3, <3>1 DEF Takes
  <2> QED
    BY <2>2, <2>3
<1>7. Lists(m2, X \cup {p}) /\ Ordered(m2)
  BY <1>1, <1>6, ListsAreFree
<1>8. Apart(m2)
  <2>1. \A j \in Sizes : Elems(m2.free[j]) \subseteq Elems(m.free[j])
    BY <1>2, <1>4 DEF Takes
  <2>2. 0 .. Top - 1 \subseteq Sizes
    BY Constants
  <2> QED
    BY <2>1, <2>2 DEF Memory, Apart
<1>9. Keeps(m, m2, {p}) /\ (Loose(m, X) => Loose(m2, X \cup {p}))
  BY <1>3 DEF Keeps, Loose, Takes
<1> QED
  BY <1>5, <1>7, <1>8, <1>9 DEF Memory

\* m2 is m with another type of block p.
Marks(m, p, t, m2) ==
    /\ m2 \in Table /\ m2.type = [m.type EXCEPT ![p] = t]
    /\ m2.allocsize = m.allocsize /\ m2.free = m.free

LEMMA MarkFields ==
    ASSUME NEW m \in Table, NEW p \in Pages, NEW t \in {"ALLOCATED", "ALLOCATED_CONT"}
    PROVE  Marks(m, p, t, [m EXCEPT !.type[p] = t])
<1>1. t \in PageTypes
  BY DEF PageTypes
<1> QED
  BY <1>1 DEF Marks, Table

LEMMA Marked ==
    ASSUME NEW m \in Table, NEW p \in Pages, NEW t, NEW m2, Marks(m, p, t, m2)
    PROVE  /\ m2 \in Table /\ m2.type[p] = t /\ m2.allocsize = m.allocsize
           /\ \A x \in Pages : x # p => m2.type[x] = m.type[x]
  BY DEF Marks, Table

LEMMA MarkMemory ==
    ASSUME NEW m, NEW X, Memory(m, X), NEW p \in Pages, IsHead(m, p), m.type[p] = "FREE" => p \in X,
           NEW t \in {"ALLOCATED", "ALLOCATED_CONT"}, NEW m2, Marks(m, p, t, m2)
    PROVE  Memory(m2, X \ {p}) /\ Keeps(m, m2, {p}) /\ (Loose(m, X) => Loose(m2, X \ {p}))
<1>1. Tiling(m) /\ m \in Table /\ m2 \in Table
  BY DEF Memory, Tiling, Marks
<1>2. m2.type[p] = t /\ \A x \in Pages : x # p => m2.type[x] = m.type[x]
  BY <1>1 DEF Marks, Table
<1>3. Tiling(m2)
  <2>1. \A x \in Pages : IsHead(m2, x) <=> IsHead(m, x)
    BY <1>2 DEF IsHead
  <2> QED
    BY <1>1, <2>1, SameTiling DEF Marks
<1>4. \A j \in Sizes : FreeList(m.free[j], j) /\ Elems(m.free[j]) = FreeOf(m, j, X)
  BY <1>1, ListsAreFree DEF Memory
<1>5. ASSUME NEW j \in Sizes PROVE FreeOf(m2, j, X \ {p}) = FreeOf(m, j, X)
  BY <1>2 DEF FreeOf, Marks
<1>6. Lists(m2, X \ {p}) /\ Ordered(m2)
  <2>1. \A j \in Sizes : FreeList(m2.free[j], j) /\ Elems(m2.free[j]) = FreeOf(m2, j, X \ {p})
    BY <1>4, <1>5 DEF Marks
  <2> QED
    BY <1>1, <2>1, ListsAreFree
<1>7. Apart(m2)
  BY DEF Memory, Apart, Marks
<1>8. m2.allocsize = m.allocsize
  BY DEF Marks
<1>9. Keeps(m, m2, {p}) /\ (Loose(m, X) => Loose(m2, X \ {p}))
  BY <1>2, <1>8 DEF Keeps, Loose
<1> QED
  BY <1>2, <1>3, <1>6, <1>7, <1>8, <1>9 DEF Memory
----------------------------------------------------------------------------
(* Allocation.                                                             *)

LEMMA MinOfFacts ==
    ASSUME NEW S, S \subseteq Nat, S # {}
    PROVE  MinOf(S) \in S /\ \A j \in S : MinOf(S) <= j
<1>1. \E i \in S : \A j \in S : i <= j
  BY LeastExists
<1> QED
  BY <1>1 DEF MinOf

\* Splitting a block that was taken off its list.
LEMMA SplitTaken ==
    ASSUME NEW m, NEW X, Memory(m, X), Loose(m, X), NEW p \in X,
           NEW k, k = m.allocsize[p], NEW n \in Nat, n <= k, NEW m2, m2 = Split(m, p, k, n)
    PROVE  /\ Memory(m2, X) /\ Loose(m2, X) /\ Keeps(m, m2, {p})
           /\ m2.allocsize[p] = n /\ Splits(m, p, n, m2)
<1>1. Tiling(m) /\ m \in Table /\ p \in Pages /\ \A x \in X : x \in Pages /\ IsHead(m, x)
  BY DEF Memory, Tiling, IsHead, Loose
<1>2. Splits(m, p, n, m2)
  BY <1>1, SplitFields
<1>3. Memory(m2, X)
  BY <1>1, <1>2, SplitMemory
<1>4. k \in Nat
  BY <1>1, TableFacts
<1>5. ASSUME NEW x \in Pages, IsHead(m, x) PROVE m2.type[x] = m.type[x]
  <2>1. ASSUME NEW j \in n .. k - 1 PROVE x # p + 2 ^ j
    <3>1. j \in Nat /\ j < k
      BY <1>4
    <3>2. ~IsHead(m, p + 2 ^ j)
      BY <1>1, <3>1, PieceFacts
    <3> QED
      BY <1>5, <3>2
  <2> QED
    BY <1>2, <2>1 DEF Splits
<1>6. m2.allocsize[p] = n /\ \A x \in Pages : x # p => m2.allocsize[x] = m.allocsize[x]
  BY <1>2 DEF Splits
<1>7. Keeps(m, m2, {p})
  BY <1>5, <1>6 DEF Keeps
<1>8. Loose(m2, X)
  BY <1>1, <1>5 DEF Loose
<1> QED
  BY <1>2, <1>3, <1>6, <1>7, <1>8

\* What mm_page_alloc_sub takes, and what it leaves.
LEMMA SubFacts ==
    ASSUME NEW m, Memory(m, {}), NEW n \in Nat, Avail(m, n) # {},
           NEW p, p = SubPage(m, n), NEW m2, m2 = mm_page_alloc_sub(m, n)
    PROVE  /\ p \in Pages /\ m.type[p] = "FREE" /\ m2.type[p] = "FREE" /\ m2.allocsize[p] = n
           /\ n <= Top
           /\ Memory(m2, {p}) /\ Loose(m2, {p}) /\ Keeps(m, m2, {p})
<1>1. Avail(m, n) \subseteq n .. Top /\ Avail(m, n) \subseteq Nat
  BY Constants DEF Avail
<1>2. PICK i \in n .. Top : i = MinOf(Avail(m, n)) /\ m.free[i] # <<>> /\ i \in Sizes
  <2>1. MinOf(Avail(m, n)) \in Avail(m, n)
    BY <1>1, MinOfFacts
  <2>2. PICK i : i = MinOf(Avail(m, n))
    OBVIOUS
  <2>3. i \in n .. Top /\ m.free[i] # <<>>
    BY <2>1, <2>2 DEF Avail
  <2>4. i \in Sizes
    BY <2>3, Constants
  <2> QED
    BY <2>2, <2>3, <2>4
<1>3. m \in Table /\ m.free[i] \in Seq(Pages) /\ IsList(m.free[i])
  BY <1>2, TableFacts DEF Memory, Tiling, Lists
<1>4. p = Head(m.free[i]) /\ p \in Elems(m.free[i]) /\ LIST1_POP(m.free[i]) = LIST1_DEL(m.free[i], p)
  BY <1>2, <1>3, PopFacts DEF SubPage, LIST1_POP
<1>5. PICK m1 : m1 = [m EXCEPT !.free[i] = LIST1_DEL(@, p)]
  OBVIOUS
<1>6. PICK X : X = {} /\ Memory(m, X) /\ Loose(m, X) /\ X \cup {p} = {p}
  BY DEF Loose
<1>7. p \in Pages /\ m.type[p] = "FREE" /\ m.allocsize[p] = i
  BY <1>2, <1>4, <1>6, TakeBlock
<1>8. Takes(m, i, p, m1)
  BY <1>2, <1>4, <1>5, <1>6, TakeFields
<1>9. Memory(m1, X \cup {p}) /\ Keeps(m, m1, {p}) /\ Loose(m1, X \cup {p})
  BY <1>2, <1>4, <1>6, <1>8, TakeMemory
<1>10. m1 = [m EXCEPT !.free[i] = LIST1_POP(@)]
  BY <1>4, <1>5
<1>11. m2 = Split(m1, p, i, n)
  BY <1>2, <1>4, <1>7, <1>10 DEF mm_page_alloc_sub
<1>12. i = m1.allocsize[p] /\ n <= i
  BY <1>2, <1>7, <1>8 DEF Takes
<1>13. PICK Y : Y = {p} /\ Memory(m1, Y) /\ Loose(m1, Y) /\ p \in Y
  BY <1>6, <1>9
<1>14. Memory(m2, Y) /\ Loose(m2, Y) /\ Keeps(m1, m2, {p}) /\ m2.allocsize[p] = n
  BY <1>11, <1>12, <1>13, SplitTaken
<1>15. Keeps(m, m2, {p})
  BY <1>9, <1>14, KeepsOn
<1>16. m2.type[p] = "FREE" /\ n <= Top
  BY <1>2, <1>13, <1>14, Constants DEF Loose
<1> QED
  BY <1>7, <1>13, <1>14, <1>15, <1>16

\* mm_page_alloc
Alone(p, n, want) ==
    /\ p \in Pages /\ mm.type[p] = "FREE" /\ mm'.type[p] = "ALLOCATED"
    /\ mm'.allocsize[p] = n /\ Keeps(mm, mm', {p})
    /\ owned' = [owned EXCEPT ![p] = want]

LEMMA AllocSingle ==
    ASSUME NEW n \in Nat, NEW want, Memory(mm, {}), mm_page_alloc(n, want)
    PROVE  Memory(mm', {}) /\ panicked' = panicked /\ \E p : Alone(p, n, want)
<1>1. PICK p, m : p = SubPage(mm, n) /\ m = mm_page_alloc_sub(mm, n)
  OBVIOUS
<1>2. Avail(mm, n) # {} /\ mm' = [m EXCEPT !.type[p] = "ALLOCATED"]
      /\ owned' = [owned EXCEPT ![p] = want]
      /\ panicked' = IF m.type[p] = "FREE" THEN panicked ELSE "assert"
  BY <1>1 DEF mm_page_alloc
<1>3. /\ p \in Pages /\ mm.type[p] = "FREE" /\ m.type[p] = "FREE" /\ m.allocsize[p] = n
      /\ Memory(m, {p}) /\ Keeps(mm, m, {p})
  BY <1>1, <1>2, SubFacts
<1>4. Marks(m, p, "ALLOCATED", mm')
  BY <1>2, <1>3, MarkFields DEF Memory, Tiling
<1>5. PICK X : X = {p} /\ Memory(m, X) /\ p \in X /\ X \ {p} = {} /\ IsHead(m, p)
  BY <1>3 DEF IsHead
<1>6. Memory(mm', X \ {p}) /\ Keeps(m, mm', {p})
  BY <1>3, <1>4, <1>5, MarkMemory
<1>7. Keeps(mm, mm', {p})
  BY <1>3, <1>6, KeepsOn
<1>8. mm'.type[p] = "ALLOCATED" /\ mm'.allocsize = m.allocsize
  BY <1>3, <1>4, Marked DEF Memory, Tiling
<1> QED
  BY <1>2, <1>3, <1>5, <1>6, <1>7, <1>8 DEF Alone

LEMMA KeepsLess ==
    ASSUME NEW m, NEW m2, NEW S, NEW T, Keeps(m, m2, S), S \subseteq T
    PROVE  Keeps(m, m2, T)
  BY DEF Keeps

\* mm_page_alloc_cont looks at lower halves.
LEMMA ScanFacts ==
    ASSUME NEW m \in Table, NEW n \in Sizes, NEW i \in 1 .. Scan(m, n)
    PROVE  i \in DOMAIN m.free[n] /\ ~Upper(m.free[n][i], n)
<1> DEFINE l == m.free[n]
           I == {j \in 1 .. Len(l) : Upper(l[j], n)}
<1>1. l \in Seq(Pages) /\ Len(l) \in Nat /\ DOMAIN l = 1 .. Len(l)
  BY TableFacts, LenProperties
<1>2. CASE I = {}
  <2>1. Scan(m, n) = Len(l)
    BY <1>2 DEF Scan, SelectInSeq
  <2> QED
    BY <1>1, <1>2, <2>1
<1>3. CASE I # {}
  <2>1. \E x \in I : \A y \in I : x <= y
    <3>1. I \subseteq Nat
      BY <1>1
    <3> HIDE DEF I
    <3> QED
      BY <1>3, <3>1, LeastExists
  <2>2. Min(I) \in I /\ \A y \in I : Min(I) <= y
    BY <2>1 DEF Min
  <2>3. Scan(m, n) = Min(I) - 1
    BY <1>1, <1>3, <2>2 DEF Scan, SelectInSeq
  <2>4. PICK x : x = Min(I)
    OBVIOUS
  <2>5. x \in 1 .. Len(l) /\ \A y \in I : x <= y
    BY <2>2, <2>4
  <2>6. i \in 1 .. Len(l) /\ i < x
    BY <1>1, <2>3, <2>4, <2>5
  <2>7. i \notin I
    <3> HIDE DEF I
    <3> QED
      BY <2>5, <2>6
  <2> QED
    BY <1>1, <2>6, <2>7
<1> QED
  BY <1>2, <1>3

\* A lower half p of size n has been taken and the block q behind it is free.
Pair(m, m1, p, q, n, k) ==
    /\ p \in Pages /\ q \in Pages /\ p # q /\ q = p + 2 ^ n /\ ~Upper(p, n)
    /\ Memory(m1, {p}) /\ Loose(m1, {p}) /\ m1.allocsize[p] = n
    /\ m1.type[q] = "FREE" /\ m1.allocsize[q] >= k
    /\ Keeps(m, m1, {p}) /\ m.type[p] = "FREE" /\ m.type[q] \in {"FREE", "NOT_HEAD"}

\* A pair that is free.
LEMMA PairFound ==
    ASSUME NEW m, Memory(m, {}), NEW n \in Sizes, NEW k \in Nat, Pairs(m, n, k) # {},
           NEW p, p = m.free[n][MinOf(Pairs(m, n, k))]
    PROVE  Pair(m, [m EXCEPT !.free[n] = LIST1_DEL(@, p)], p, p + 2 ^ n, n, k)
<1>1. m \in Table /\ m.free[n] \in Seq(Pages) /\ n \in Nat
  BY Constants, TableFacts DEF Memory, Tiling
<1>2. PICK i \in Pairs(m, n, k) : i = MinOf(Pairs(m, n, k))
  <2>1. Pairs(m, n, k) \subseteq Nat
    <3>1. \A i \in 1 .. Scan(m, n) : i \in Nat
      OBVIOUS
    <3> QED
      BY <3>1 DEF Pairs
  <2> QED
    BY <2>1, MinOfFacts
<1>3. i \in 1 .. Scan(m, n) /\ p = m.free[n][i]
      /\ m.type[p + 2 ^ n] = "FREE" /\ m.allocsize[p + 2 ^ n] >= k
  BY <1>2 DEF Pairs
<1>4. p \in Elems(m.free[n]) /\ ~Upper(p, n)
  BY <1>1, <1>3, ScanFacts, ElemsFacts
<1>5. PICK X : X = {} /\ Memory(m, X) /\ Loose(m, X) /\ X \cup {p} = {p}
  BY DEF Loose
<1>6. p \in Pages /\ m.type[p] = "FREE" /\ m.allocsize[p] = n
  BY <1>4, <1>5, TakeBlock
<1>7. p \in Nat /\ Block(p, n) = p
  BY <1>6, Constants DEF Memory, Tiling, IsHead
<1>8. Block(p, n + 1) = p
  BY <1>1, <1>4, <1>7, BlockStep
<1>9. PICK q : q = p + 2 ^ n /\ q \in Nat /\ q # p /\ Block(q, n + 1) = p
  BY <1>1, <1>7, <1>8, UpperHalf
<1>10. q \in Pages
  <2>1. n + 1 \in Nat /\ n + 1 <= Top + 1
    BY <1>1, Constants
  <2>2. q \in Extent(p, 2 ^ (n + 1))
    BY <1>7, <1>8, <1>9, <2>1, ExtentOfBlock
  <2> QED
    BY <1>6, <1>8, <2>1, <2>2, BlockInPages
<1>11. PICK m1 : m1 = [m EXCEPT !.free[n] = LIST1_DEL(@, p)]
  OBVIOUS
<1>12. Takes(m, n, p, m1)
  BY <1>4, <1>5, <1>11, TakeFields
<1>13. Memory(m1, X \cup {p}) /\ Keeps(m, m1, {p}) /\ Loose(m1, X \cup {p})
  BY <1>4, <1>5, <1>12, TakeMemory
<1>14. m1.type = m.type /\ m1.allocsize = m.allocsize
  BY <1>12 DEF Takes
<1>15. Pair(m, m1, p, q, n, k)
  BY <1>3, <1>4, <1>5, <1>6, <1>9, <1>10, <1>13, <1>14 DEF Pair
<1> QED
  BY <1>9, <1>11, <1>15

\* A block of the next size that is halved.
LEMMA PairHalved ==
    ASSUME NEW m, Memory(m, {}), NEW n \in Sizes, NEW k \in Nat, k <= n, Avail(m, n + 1) # {},
           NEW p, p = SubPage(m, n + 1)
    PROVE  Pair(m, Split(mm_page_alloc_sub(m, n + 1), p, n + 1, n), p, p + 2 ^ n, n, k)
<1>1. n \in Nat /\ n + 1 \in Nat /\ n <= n + 1
  BY Constants
<1>2. PICK m0, X : m0 = mm_page_alloc_sub(m, n + 1) /\ X = {p}
  OBVIOUS
<1>3. /\ p \in Pages /\ m.type[p] = "FREE" /\ m0.type[p] = "FREE" /\ m0.allocsize[p] = n + 1
      /\ Memory(m0, {p}) /\ Loose(m0, {p}) /\ Keeps(m, m0, {p})
  BY <1>1, <1>2, SubFacts
<1>4. PICK m1 : m1 = Split(m0, p, n + 1, n)
  OBVIOUS
<1>5. Memory(m0, X) /\ Loose(m0, X) /\ p \in X
  BY <1>2, <1>3
<1>6. PICK h : h = n + 1
  OBVIOUS
<1>7. /\ Memory(m1, X) /\ Loose(m1, X) /\ Keeps(m0, m1, {p})
      /\ m1.allocsize[p] = n /\ Splits(m0, p, n, m1)
  <2>1. h = m0.allocsize[p] /\ m1 = Split(m0, p, h, n) /\ n <= h
    BY <1>1, <1>3, <1>4, <1>6
  <2>2. Memory(m1, X) /\ Loose(m1, X) /\ Keeps(m0, m1, {p})
    BY <1>1, <1>5, <2>1, SplitTaken
  <2>3. Splits(m0, p, n, m1)
    BY <1>1, <1>5, <2>1, SplitTaken
  <2>4. m1.allocsize[p] = n
    BY <2>3 DEF Splits
  <2> QED
    BY <2>2, <2>3, <2>4
<1>8. Tiling(m0) /\ IsHead(m0, p) /\ p \in Nat
  BY <1>3, Constants DEF Memory, IsHead
<1>9. PICK q : q = p + 2 ^ n
  OBVIOUS
<1>10. q \in Pages /\ q # p /\ ~IsHead(m0, q) /\ Block(p, n + 1) = p
  <2>1. n < m0.allocsize[p]
    BY <1>1, <1>3
  <2> QED
    BY <1>1, <1>3, <1>8, <1>9, <2>1, PieceFacts
<1>11. ~Upper(p, n)
  BY <1>1, <1>8, <1>10, LowerHalf
<1>12. m1.type[q] = "FREE" /\ m1.allocsize[q] = n
  <2>1. n \in n .. m0.allocsize[p] - 1 /\ n <= m0.allocsize[p]
    BY <1>1, <1>3
  <2> QED
    BY <1>1, <1>3, <1>7, <1>8, <1>9, <2>1, SplitHeads
<1>13. m.type[q] = "NOT_HEAD"
  BY <1>3, <1>10 DEF Keeps, IsHead
<1>14. Keeps(m, m1, {p})
  BY <1>3, <1>7, KeepsOn
<1>15. Pair(m, m1, p, q, n, k)
  BY <1>2, <1>3, <1>7, <1>9, <1>10, <1>11, <1>12, <1>13, <1>14 DEF Pair
<1> QED
  BY <1>2, <1>4, <1>9, <1>15

\* m5 is m with block p of size n and block q of size k given away together.
Joins(m, p, q, n, k, m5) ==
    /\ Memory(m5, {}) /\ Keeps(m, m5, {p, q})
    /\ m5.type[p] = "ALLOCATED_CONT" /\ m5.type[q] = "ALLOCATED"
    /\ m5.allocsize[p] = n /\ m5.allocsize[q] = k

\* The block behind is cut to size, and both are marked.
LEMMA PairJoined ==
    ASSUME NEW m, NEW m1, NEW p, NEW q, NEW n \in Nat, NEW k \in Nat, Pair(m, m1, p, q, n, k),
           NEW m2, m2 = Unlist(m1, q),
           NEW m3, m3 = Split(m2, q, m2.allocsize[q], k)
    PROVE  Joins(m, p, q, n, k, [m3 EXCEPT !.type[p] = "ALLOCATED_CONT", !.type[q] = "ALLOCATED"])
<1>1. /\ p \in Pages /\ q \in Pages /\ p # q
      /\ Memory(m1, {p}) /\ Loose(m1, {p}) /\ m1.allocsize[p] = n
      /\ m1.type[q] = "FREE" /\ m1.allocsize[q] >= k /\ Keeps(m, m1, {p})
  BY DEF Pair
<1>2. PICK X, Y : X = {p} /\ Y = {p, q}
  OBVIOUS
<1>3. /\ X \cup {q} = Y /\ p \in Y /\ q \in Y
       /\ Y \ {p} = {q} /\ {p} \subseteq Y /\ {q} \subseteq Y
  BY <1>1, <1>2
<1>4. Memory(m1, X) /\ Loose(m1, X)
  BY <1>1, <1>2
<1>5. PICK s \in Sizes : s = m1.allocsize[q] /\ s \in Nat /\ s >= k
  BY <1>1, TableFacts, Constants DEF Memory, Tiling
<1>6. q \in Elems(m1.free[s])
  BY <1>1, <1>2, <1>4, <1>5 DEF Memory, Lists
<1>7. Takes(m1, s, q, m2)
  BY <1>4, <1>5, <1>6, TakeFields DEF Unlist
<1>8. Memory(m2, X \cup {q}) /\ Keeps(m1, m2, {q}) /\ Loose(m2, X \cup {q})
  BY <1>4, <1>6, <1>7, TakeMemory
<1>9. Memory(m2, Y) /\ Loose(m2, Y)
  BY <1>3, <1>8
<1>10. m2.allocsize = m1.allocsize /\ m2.type = m1.type
  BY <1>7 DEF Takes
<1>11. /\ Memory(m3, Y) /\ Loose(m3, Y) /\ Keeps(m2, m3, {q})
       /\ m3.allocsize[q] = k
  <2>1. k <= s /\ s = m2.allocsize[q] /\ m3 = Split(m2, q, s, k)
    BY <1>5, <1>10
  <2> QED
    BY <1>3, <1>9, <2>1, SplitTaken
<1>12. m3.allocsize[p] = n /\ m3.type[p] = "FREE" /\ m3.type[q] = "FREE" /\ m3 \in Table
  <2>1. m2.type[p] = "FREE" /\ m2.allocsize[p] = n
    BY <1>1, <1>10 DEF Loose
  <2>2. m3.allocsize[p] = n
    BY <1>1, <1>11, <2>1 DEF Keeps, IsHead
  <2> QED
    BY <1>3, <1>11, <2>2 DEF Loose, Memory, Tiling
<1>13. PICK m4, m5 : /\ m4 = [m3 EXCEPT !.type[p] = "ALLOCATED_CONT"]
                     /\ m5 = [m3 EXCEPT !.type[p] = "ALLOCATED_CONT", !.type[q] = "ALLOCATED"]
  OBVIOUS
<1>14. m5 = [m4 EXCEPT !.type[q] = "ALLOCATED"]
  BY <1>1, <1>12, <1>13 DEF Table
<1>15. Marks(m3, p, "ALLOCATED_CONT", m4)
  BY <1>1, <1>12, <1>13, MarkFields
<1>16. m4 \in Table /\ m4.type[p] = "ALLOCATED_CONT" /\ m4.allocsize = m3.allocsize /\ m4.type[q] = "FREE"
  BY <1>1, <1>12, <1>15, Marked
<1>17. Memory(m4, Y \ {p}) /\ Keeps(m3, m4, {p})
  BY <1>1, <1>3, <1>11, <1>12, <1>15, MarkMemory DEF IsHead
<1>18. PICK Z : Z = {q} /\ Memory(m4, Z) /\ q \in Z /\ Z \ {q} = {}
  BY <1>3, <1>17
<1>19. Marks(m4, q, "ALLOCATED", m5)
  <2>1. PICK t \in {"ALLOCATED", "ALLOCATED_CONT"} : t = "ALLOCATED"
    OBVIOUS
  <2>2. Marks(m4, q, t, [m4 EXCEPT !.type[q] = t])
    BY <1>1, <1>16, <2>1, MarkFields
  <2> QED
    BY <1>14, <2>1, <2>2
<1>20. m5.type[q] = "ALLOCATED" /\ m5.allocsize = m4.allocsize /\ m5.type[p] = "ALLOCATED_CONT"
  <2>1. m4.type \in [Pages -> PageTypes]
    BY <1>16 DEF Table
  <2>2. m5.type = [m4.type EXCEPT ![q] = "ALLOCATED"] /\ m5.allocsize = m4.allocsize
    BY <1>19 DEF Marks
  <2> QED
    BY <1>1, <1>16, <2>1, <2>2
<1>21. Memory(m5, Z \ {q}) /\ Keeps(m4, m5, {q})
  BY <1>1, <1>16, <1>18, <1>19, MarkMemory DEF IsHead
<1>22. Keeps(m, m5, Y)
  <2>1. Keeps(m, m1, Y) /\ Keeps(m1, m2, Y) /\ Keeps(m2, m3, Y) /\ Keeps(m3, m4, Y) /\ Keeps(m4, m5, Y)
    BY <1>1, <1>3, <1>8, <1>11, <1>17, <1>21, KeepsLess
  <2>2. Keeps(m, m2, Y) /\ Keeps(m2, m4, Y)
    BY <2>1, KeepsOn
  <2>3. Keeps(m, m4, Y)
    BY <2>2, KeepsOn
  <2> QED
    BY <2>1, <2>3, KeepsOn
<1> QED
  BY <1>2, <1>11, <1>12, <1>13, <1>16, <1>18, <1>20, <1>21, <1>22 DEF Joins

\* mm_page_alloc_cont
Joined(p, q, n, k, want) ==
    /\ p \in Pages /\ q \in Pages /\ p # q /\ q = p + 2 ^ n /\ ~Upper(p, n)
    /\ mm.type[p] = "FREE" /\ mm.type[q] \in {"FREE", "NOT_HEAD"}
    /\ mm'.type[p] = "ALLOCATED_CONT" /\ mm'.type[q] = "ALLOCATED"
    /\ mm'.allocsize[p] = n /\ mm'.allocsize[q] = k
    /\ Keeps(mm, mm', {p, q}) /\ owned' = [owned EXCEPT ![p] = want]

LEMMA AllocPair ==
    ASSUME NEW n \in Sizes, NEW k \in Nat, k <= n, NEW want, Memory(mm, {}), mm_page_alloc_cont(n, k, want)
    PROVE  /\ Memory(mm', {}) /\ panicked' = panicked
           /\ \E p, q : Joined(p, q, n, k, want)
<1> DEFINE found == Pairs(mm, n, k) # {}
           p == IF found THEN mm.free[n][MinOf(Pairs(mm, n, k))] ELSE SubPage(mm, n + 1)
           q == p + 2 ^ n
           m1 == IF found THEN [mm EXCEPT !.free[n] = LIST1_DEL(@, p)]
                 ELSE Split(mm_page_alloc_sub(mm, n + 1), p, n + 1, n)
           m2 == Unlist(m1, q)
           m3 == Split(m2, q, m2.allocsize[q], k)
           m5 == [m3 EXCEPT !.type[p] = "ALLOCATED_CONT", !.type[q] = "ALLOCATED"]
<1>1. found \/ Avail(mm, n + 1) # {}
  BY Zenon DEF mm_page_alloc_cont
<1>2. mm' = m5
  BY Zenon DEF mm_page_alloc_cont
<1>3. owned' = [owned EXCEPT ![p] = want]
  BY Zenon DEF mm_page_alloc_cont
<1>4. panicked' = IF m1.type[p] = "FREE" /\ m1.type[q] = "FREE" THEN panicked ELSE "assert"
  BY Zenon DEF mm_page_alloc_cont
<1> HIDE DEF m5, m3, m2, m1, q, p
<1>5. Pair(mm, m1, p, q, n, k)
  <2>1. CASE found
    <3>1. p = mm.free[n][MinOf(Pairs(mm, n, k))] /\ m1 = [mm EXCEPT !.free[n] = LIST1_DEL(@, p)]
      BY <2>1 DEF p, m1
    <3> QED
      BY <2>1, <3>1, PairFound DEF q
  <2>2. CASE ~found
    <3>1. /\ p = SubPage(mm, n + 1) /\ m1 = Split(mm_page_alloc_sub(mm, n + 1), p, n + 1, n)
          /\ Avail(mm, n + 1) # {}
      BY <1>1, <2>2 DEF p, m1
    <3> QED
      BY <3>1, PairHalved DEF q
  <2> QED
    BY <2>1, <2>2
<1> HIDE DEF found
<1>6. n \in Nat
  BY Constants
<1>7. m2 = Unlist(m1, q) /\ m3 = Split(m2, q, m2.allocsize[q], k)
  BY DEF m2, m3
<1>8. m5 = [m3 EXCEPT !.type[p] = "ALLOCATED_CONT", !.type[q] = "ALLOCATED"]
  BY Zenon DEF m5
<1>9. Joins(mm, p, q, n, k, m5)
  BY <1>5, <1>6, <1>7, <1>8, PairJoined
<1>10. m1.type[p] = "FREE" /\ m1.type[q] = "FREE"
  BY <1>5 DEF Pair, Loose
<1>11. Joined(p, q, n, k, want)
  BY <1>2, <1>3, <1>5, <1>9 DEF Joined, Pair, Joins
<1> QED
  BY <1>2, <1>4, <1>9, <1>10, <1>11 DEF Joins
----------------------------------------------------------------------------
(* Merging.                                                                *)

\* A block and its buddy make up the block of the next size.
LEMMA BuddyFacts ==
    ASSUME NEW x \in Pages, NEW j \in Nat, j <= Top, NEW q, q = Buddy(Block(x, j), j)
    PROVE  /\ q \in Pages /\ q \in Nat /\ Block(q, j) = q /\ q # Block(x, j)
           /\ Block(q, j + 1) = Block(x, j + 1)
           /\ Upper(x, j) => q = Block(x, j + 1)
           /\ ~Upper(x, j) => q = Block(x, j + 1) + 2 ^ j
<1>1. x \in Nat /\ 2 ^ j \in Nat /\ j + 1 \in Nat /\ j + 1 <= Top + 1
  BY Constants, BlockRange
<1>2. PICK a \in Nat : a = Block(x, j + 1) /\ a \in Pages /\ Block(a, j + 1) = a
  BY <1>1, BlockInPages, BlockOfBlock, Constants
<1>3. PICK c : c = a + 2 ^ j /\ c \in Nat /\ c # a /\ Block(c, j) = c /\ Block(c, j + 1) = a
  BY <1>2, UpperHalf
<1>4. c \in Pages
  <2>1. c \in Extent(a, 2 ^ (j + 1))
    BY <1>1, <1>2, <1>3, ExtentOfBlock
  <2> QED
    BY <1>1, <1>2, <2>1, BlockInPages
<1>5. Block(a, j) = a
  BY <1>2, LowerHalf
<1>6. Upper(Block(x, j), j) <=> Upper(x, j)
  BY <1>1, BlockOfBlock
<1>7. CASE Upper(x, j)
  <2>1. Block(x, j) = c
    BY <1>1, <1>2, <1>3, <1>7, Halves
  <2>2. q = c - 2 ^ j
    BY <1>6, <1>7, <2>1 DEF Buddy
  <2>3. q = a
    BY <1>1, <1>2, <1>3, <2>2
  <2> QED
    BY <1>2, <1>3, <1>5, <1>7, <2>1, <2>3
<1>8. CASE ~Upper(x, j)
  <2>1. Block(x, j) = a
    BY <1>1, <1>2, <1>8, Halves
  <2>2. q = c
    BY <1>3, <1>6, <1>8, <2>1 DEF Buddy
  <2> QED
    BY <1>2, <1>3, <1>4, <1>8, <2>1, <2>2
<1> QED
  BY <1>7, <1>8

\* The size to which a block grows.
LEMMA MergedFacts ==
    ASSUME NEW m, NEW p, NEW n \in Sizes, NEW k, k = MergedSize(m, p, n)
    PROVE  /\ k \in n .. Top /\ \A j \in n .. k - 1 : Mergeable(m, p, j)
           /\ k = Top \/ ~Mergeable(m, p, k)
<1> DEFINE U == {i \in n .. Top : i = Top \/ ~Mergeable(m, p, i)}
<1>1. U \subseteq Nat /\ U # {} /\ n \in Nat /\ Top \in Nat
  BY Constants
<1>2. PICK i \in U : \A y \in U : i <= y
  <2> HIDE DEF U
  <2> QED
    BY <1>1, LeastExists
<1>3. ASSUME NEW j \in n .. i - 1 PROVE Mergeable(m, p, j)
  <2>1. j \in n .. Top /\ ~(i <= j)
    BY <1>1, <1>2
  <2>2. j \notin U
    BY <1>2, <2>1
  <2> QED
    BY <2>1, <2>2
<1>4. \E h \in n .. Top : /\ \A j \in n .. h - 1 : Mergeable(m, p, j)
                          /\ h = Top \/ ~Mergeable(m, p, h)
  BY <1>2, <1>3
<1> QED
  BY <1>4 DEF MergedSize

\* x is the upper half of one of the pairs that are merged.
UpperOf(p, n, k, x) == \E j \in n .. k - 1 : x = Block(p, j + 1) + 2 ^ j

\* The blocks around p begin at merged upper halves, or at the merged block.
LEMMA Chain ==
    ASSUME NEW p \in Nat, NEW n \in Nat, NEW k \in Nat, NEW i \in n .. k
    PROVE  UpperOf(p, n, k, Block(p, i)) \/ Block(p, i) = Block(p, k)
<1> DEFINE T == {j \in n .. k : UpperOf(p, n, k, Block(p, j)) \/ Block(p, j) = Block(p, k)}
<1>1. k \in T
  OBVIOUS
<1>2. ASSUME NEW j \in n .. k - 1, j + 1 \in T PROVE j \in T
  <2>1. j \in Nat /\ j \in n .. k
    OBVIOUS
  <2>2. CASE Upper(p, j)
    <3>1. Block(p, j) = Block(p, j + 1) + 2 ^ j
      BY <2>1, <2>2, Halves
    <3>2. UpperOf(p, n, k, Block(p, j))
      BY <3>1 DEF UpperOf
    <3> QED
      BY <2>1, <3>2
  <2>3. CASE ~Upper(p, j)
    <3>1. Block(p, j) = Block(p, j + 1)
      BY <2>1, <2>3, Halves
    <3> QED
      BY <1>2, <2>1, <3>1
  <2> QED
    BY <2>2, <2>3
<1> HIDE DEF T
<1>3. n .. k \subseteq T
  BY <1>1, <1>2, Descend
<1> QED
  BY <1>3 DEF T

\* Merged upper halves.
LEMMA UpperOfFacts ==
    ASSUME NEW p \in Pages, NEW n \in Nat, NEW k \in Nat, k <= Top,
           NEW j \in n .. k - 1, NEW x, x = Block(p, j + 1) + 2 ^ j
    PROVE  /\ x \in Pages /\ j \in Nat /\ j \in Sizes
           /\ Block(x, j) = x /\ Upper(x, j) /\ Block(x, k) = Block(p, k) /\ x # Block(p, k)
<1>1. p \in Nat /\ j \in Nat /\ j + 1 \in Nat /\ j + 1 <= k /\ j + 1 <= Top + 1 /\ j \in Sizes
  BY Constants
<1>2. PICK a \in Nat : a = Block(p, j + 1) /\ a \in Pages /\ Block(a, j + 1) = a
  BY <1>1, BlockInPages, BlockOfBlock, Constants
<1>3. x \in Nat /\ Block(x, j) = x /\ Upper(x, j) /\ Block(x, j + 1) = a
  BY <1>1, <1>2, UpperHalf
<1>4. x \in Pages
  <2>1. x \in Extent(a, 2 ^ (j + 1))
    BY <1>1, <1>2, <1>3, ExtentOfBlock
  <2> QED
    BY <1>1, <1>2, <2>1, BlockInPages
<1>5. Block(x, k) = Block(p, k)
  BY <1>1, <1>2, <1>3, SameBlock
<1>6. x # Block(p, k)
  <2>1. SUFFICES ASSUME x = Block(p, k) PROVE FALSE
    OBVIOUS
  <2>2. Block(x, k) = x
    BY <1>1, <2>1, BlockOfBlock
  <2>3. Block(x, j + 1) = x
    BY <1>1, <1>3, <2>2, FirstOfSmaller
  <2> QED
    BY <1>1, <1>3, <2>3, LowerHalf
<1> QED
  BY <1>1, <1>3, <1>4, <1>5, <1>6

\* Block p of size n, which is in use, grows to size k and then begins at b.
Merges(m, p, n, k, b) ==
    /\ Memory(m, {}) /\ p \in Pages /\ IsHead(m, p) /\ m.type[p] # "FREE"
    /\ n = m.allocsize[p] /\ k \in n .. Top /\ b = Block(p, k)
    /\ \A j \in n .. k - 1 : Mergeable(m, p, j)
    /\ k = Top \/ ~Mergeable(m, p, k)

LEMMA MergeNumbers ==
    ASSUME NEW m, NEW p, NEW n, NEW k, NEW b, Merges(m, p, n, k, b)
    PROVE  /\ m \in Table /\ Tiling(m) /\ p \in Pages /\ p \in Nat
           /\ n \in Nat /\ n \in Sizes /\ k \in Nat /\ k \in Sizes /\ n <= k /\ k <= Top
           /\ Block(p, n) = p /\ b \in Pages /\ b \in Nat /\ b = Block(p, k) /\ Block(b, k) = b
<1>1. m \in Table /\ Tiling(m) /\ p \in Pages /\ IsHead(m, p) /\ n = m.allocsize[p]
      /\ k \in n .. Top /\ b = Block(p, k)
  BY DEF Merges, Memory, Tiling
<1>2. p \in Nat /\ n \in Nat /\ n \in Sizes /\ Top \in Nat
  BY <1>1, TableFacts, Constants
<1>3. k \in Nat /\ k \in Sizes /\ n <= k /\ k <= Top /\ k <= Top + 1
  BY <1>1, <1>2, Constants
<1>4. b \in Pages /\ Block(b, k) = b
  BY <1>1, <1>2, <1>3, BlockInPages, BlockOfBlock
<1>5. Block(p, n) = p
  BY <1>1 DEF Tiling
<1> QED
  BY <1>1, <1>2, <1>3, <1>4, <1>5, Constants

\* The buddies that p is merged with.
LEMMA MergeBuddy ==
    ASSUME NEW m, NEW p, NEW n, NEW k, NEW b, Merges(m, p, n, k, b),
           NEW j \in n .. k - 1, NEW q, q = Buddy(Block(p, j), j)
    PROVE  /\ q \in Pages /\ m.type[q] = "FREE" /\ m.allocsize[q] = j
           /\ Block(q, j) = q /\ Block(q, k) = b
           /\ q = b \/ UpperOf(p, n, k, q)
<1>1. /\ p \in Pages /\ p \in Nat /\ n \in Nat /\ k \in Nat /\ k <= Top /\ b = Block(p, k)
      /\ Top \in Nat
  BY MergeNumbers, Constants
<1>2. j \in Nat /\ j <= Top /\ j + 1 \in Nat /\ j + 1 <= k /\ j + 1 \in n .. k
  BY <1>1
<1>3. /\ q \in Pages /\ q \in Nat /\ Block(q, j) = q
      /\ Block(q, j + 1) = Block(p, j + 1)
      /\ Upper(p, j) => q = Block(p, j + 1)
      /\ ~Upper(p, j) => q = Block(p, j + 1) + 2 ^ j
  <2>1. q \in Pages /\ q \in Nat /\ Block(q, j) = q /\ Block(q, j + 1) = Block(p, j + 1)
    BY <1>1, <1>2, BuddyFacts
  <2>2. Upper(p, j) => q = Block(p, j + 1)
    BY <1>1, <1>2, BuddyFacts
  <2>3. ~Upper(p, j) => q = Block(p, j + 1) + 2 ^ j
    BY <1>1, <1>2, BuddyFacts
  <2> QED
    BY <2>1, <2>2, <2>3
<1>4. m.type[q] = "FREE" /\ m.allocsize[q] = j
  BY DEF Merges, Mergeable
<1>5. Block(q, k) = b
  BY <1>1, <1>2, <1>3, SameBlock
<1>6. CASE Upper(p, j)
  <2>1. UpperOf(p, n, k, Block(p, j + 1)) \/ Block(p, j + 1) = Block(p, k)
    BY <1>1, <1>2, Chain
  <2> QED
    BY <1>1, <1>3, <1>4, <1>5, <1>6, <2>1
<1>7. CASE ~Upper(p, j)
  <2>1. UpperOf(p, n, k, q)
    BY <1>3, <1>7 DEF UpperOf
  <2> QED
    BY <1>3, <1>4, <1>5, <2>1
<1> QED
  BY <1>6, <1>7

\* The heads in the merged block are p and the buddies.
LEMMA MergeHeads ==
    ASSUME NEW m, NEW p, NEW n, NEW k, NEW b, Merges(m, p, n, k, b),
           NEW x \in Pages, Block(x, k) = b, IsHead(m, x)
    PROVE  /\ x = b \/ UpperOf(p, n, k, x)
           /\ x = p \/ (m.type[x] = "FREE" /\ m.allocsize[x] \in n .. k - 1
                        /\ x = Buddy(Block(p, m.allocsize[x]), m.allocsize[x]))
<1>1. /\ Tiling(m) /\ p \in Pages /\ p \in Nat /\ n \in Nat /\ k \in Nat /\ n <= k /\ k <= Top
      /\ b = Block(p, k) /\ Block(p, n) = p /\ Top \in Nat /\ x \in Nat
  BY MergeNumbers, Constants
<1> DEFINE T == {i \in n .. k : Block(x, i) = Block(p, i)}
<1>2. T \subseteq Nat /\ T # {}
  BY <1>1
<1>3. PICK i \in T : \A y \in T : i <= y
  <2> HIDE DEF T
  <2> QED
    BY <1>2, LeastExists
<1>4. i \in n .. k /\ Block(x, i) = Block(p, i)
  BY <1>3
<1>5. CASE i = n
  <2>1. Block(x, m.allocsize[p]) = p /\ IsHead(m, p)
    BY <1>1, <1>4, <1>5 DEF Merges
  <2>2. x = p
    BY <1>1, <2>1, OneHead
  <2>3. n \in n .. k
    BY <1>1
  <2>4. UpperOf(p, n, k, Block(p, n)) \/ Block(p, n) = Block(p, k)
    BY <1>1, <2>3, Chain
  <2> QED
    BY <1>1, <2>2, <2>4
<1>6. CASE i # n
  <2>1. PICK j \in n .. k - 1 : j + 1 = i /\ j \in Nat /\ j <= Top
    <3>1. i - 1 \in n .. k - 1 /\ (i - 1) + 1 = i /\ i - 1 \in Nat /\ i - 1 <= Top
      BY <1>1, <1>4, <1>6
    <3> QED
      BY <3>1
  <2>2. Block(x, j) # Block(p, j)
    <3>1. j \in n .. k /\ ~(i <= j)
      BY <1>1, <2>1
    <3>2. j \notin T
      BY <1>3, <3>1
    <3> QED
      BY <3>1, <3>2
  <2>3. PICK q : q = Buddy(Block(p, j), j)
    OBVIOUS
  <2>4. PICK a : a = Block(p, j + 1) /\ a = Block(x, j + 1)
    BY <1>4, <2>1
  <2>5. Block(x, j) = IF Upper(x, j) THEN a + 2 ^ j ELSE a
    BY <1>1, <2>1, <2>4, Halves
  <2>6. Block(p, j) = IF Upper(p, j) THEN a + 2 ^ j ELSE a
    BY <1>1, <2>1, <2>4, Halves
  <2>7. (Upper(p, j) => q = a) /\ (~Upper(p, j) => q = a + 2 ^ j)
    BY <1>1, <2>1, <2>3, <2>4, BuddyFacts
  <2>8. Block(x, j) = q
    BY <2>2, <2>5, <2>6, <2>7
  <2>9. q \in Pages /\ m.type[q] = "FREE" /\ m.allocsize[q] = j /\ (q = b \/ UpperOf(p, n, k, q))
    BY <2>1, <2>3, MergeBuddy
  <2>10. IsHead(m, q) /\ Block(x, m.allocsize[q]) = q
    BY <2>8, <2>9 DEF IsHead
  <2>11. x = q
    BY <1>1, <2>9, <2>10, OneHead
  <2> QED
    BY <2>3, <2>9, <2>11
<1> QED
  BY <1>5, <1>6

\* The fields of a table in which block p was freed.
Frees(m, p, n, k, b, m2) ==
    /\ m2 \in Table /\ m2.type[b] = "FREE" /\ m2.allocsize[b] = k
    /\ \A x \in Pages : UpperOf(p, n, k, x) =>
          m2.type[x] = "NOT_HEAD" /\ Block(x, m2.allocsize[x]) = x /\ Upper(x, m2.allocsize[x])
    /\ \A x \in Pages : x # b /\ ~UpperOf(p, n, k, x) =>
          m2.type[x] = m.type[x] /\ m2.allocsize[x] = m.allocsize[x]
    /\ \A j \in Sizes : j \in n .. k - 1 => m2.free[j] = LIST1_DEL(m.free[j], Buddy(Block(p, j), j))
    /\ m2.free[k] = Put(m.free[k], b, k)
    /\ \A j \in Sizes : j \notin n .. k => m2.free[j] = m.free[j]

\* Before the merged block is put on its list it is not there.
LEMMA MergeFree ==
    ASSUME NEW m, NEW p, NEW n, NEW k, NEW b, Merges(m, p, n, k, b),
           NEW x \in Pages, Block(x, k) = b, m.type[x] = "FREE"
    PROVE  m.allocsize[x] \in n .. k - 1 /\ x = Buddy(Block(p, m.allocsize[x]), m.allocsize[x])
<1>1. IsHead(m, x) /\ x # p
  BY DEF IsHead, Merges
<1> QED
  BY <1>1, MergeHeads

\* The lists of a table, by what is free.
LEMMA MergeLists ==
    ASSUME NEW m, NEW p, NEW n, NEW k, NEW b, Merges(m, p, n, k, b)
    PROVE  /\ \A j \in Sizes : FreeList(m.free[j], j) /\ Elems(m.free[j]) = FreeOf(m, j, {})
           /\ b \notin FreeOf(m, k, {})
           /\ \A j \in n .. k - 1 : Buddy(Block(p, j), j) \in FreeOf(m, j, {})
<1>1. /\ m \in Table /\ b \in Pages /\ Block(b, k) = b /\ k \in Nat
  BY MergeNumbers
<1>2. PICK X : X = {} /\ Memory(m, X)
  BY DEF Merges
<1>3. \A j \in Sizes : FreeList(m.free[j], j) /\ Elems(m.free[j]) = FreeOf(m, j, X)
  BY <1>1, <1>2, ListsAreFree DEF Memory
<1>4. b \notin FreeOf(m, k, {})
  <2>1. SUFFICES ASSUME m.type[b] = "FREE", m.allocsize[b] = k PROVE FALSE
    BY DEF FreeOf
  <2>2. m.allocsize[b] \in n .. k - 1
    BY <1>1, <2>1, MergeFree
  <2> QED
    BY <1>1, <2>1, <2>2
<1>5. ASSUME NEW j \in n .. k - 1 PROVE Buddy(Block(p, j), j) \in FreeOf(m, j, {})
  BY MergeBuddy DEF FreeOf
<1> QED
  BY <1>2, <1>3, <1>4, <1>5

LEMMA FreeFields ==
    ASSUME NEW m, NEW p, NEW n, NEW k, NEW b, Merges(m, p, n, k, b), k = MergedSize(m, p, n)
    PROVE  Frees(m, p, n, k, b, FreeBlock(m, p))
<1>1. /\ m \in Table /\ p \in Pages /\ n \in Nat /\ k \in Nat /\ k \in Sizes /\ n <= k /\ k <= Top
      /\ b = Block(p, k) /\ b \in Pages /\ n = m.allocsize[p]
  BY MergeNumbers DEF Merges
<1>2. m.type \in [Pages -> PageTypes] /\ m.allocsize \in [Pages -> Sizes] /\ m.free \in [Sizes -> Seq(Pages)]
  BY <1>1 DEF Table
<1> DEFINE u == {Block(p, j + 1) + 2 ^ j : j \in n .. k - 1}
           t == [x \in Pages |-> IF x = b THEN "FREE" ELSE Swallowed(m, x, u)]
           c(x) == CHOOSE j \in n .. k - 1 : x = Block(p, j + 1) + 2 ^ j
           a == [x \in Pages |-> IF x = b THEN k
                                 ELSE IF \E j \in n .. k - 1 : x = Block(p, j + 1) + 2 ^ j
                                 THEN c(x) ELSE m.allocsize[x]]
           f == [j \in Sizes |-> IF j \in n .. k - 1 THEN LIST1_DEL(m.free[j], Buddy(Block(p, j), j))
                                 ELSE IF j = k THEN Put(m.free[j], b, j) ELSE m.free[j]]
<1>3. FreeBlock(m, p) = [type |-> t, allocsize |-> a, free |-> f]
  BY <1>1, Zenon DEF FreeBlock
<1>4. ASSUME NEW x \in Pages, UpperOf(p, n, k, x)
      PROVE  /\ c(x) \in n .. k - 1 /\ x = Block(p, c(x) + 1) + 2 ^ c(x) /\ c(x) \in Sizes
             /\ Block(x, c(x)) = x /\ Upper(x, c(x)) /\ x # b
  <2>1. c(x) \in n .. k - 1 /\ x = Block(p, c(x) + 1) + 2 ^ c(x)
    BY <1>4 DEF UpperOf
  <2> HIDE DEF c
  <2>2. PICK j \in n .. k - 1 : j = c(x) /\ x = Block(p, j + 1) + 2 ^ j
    BY <2>1
  <2>3. j \in Sizes /\ Block(x, j) = x /\ Upper(x, j) /\ x # b
    BY <1>1, <2>2, UpperOfFacts
  <2> QED
    BY <2>1, <2>2, <2>3
<1>5. \A x \in Pages : UpperOf(p, n, k, x) <=> \E j \in n .. k - 1 : x = Block(p, j + 1) + 2 ^ j
  BY DEF UpperOf
<1>6. \A x \in Pages : UpperOf(p, n, k, x) <=> x \in u
  BY DEF UpperOf
<1> HIDE DEF c, u
<1>7. /\ t \in [Pages -> PageTypes] /\ t[b] = "FREE"
      /\ \A x \in Pages : UpperOf(p, n, k, x) => t[x] = "NOT_HEAD"
      /\ \A x \in Pages : x # b /\ ~UpperOf(p, n, k, x) => t[x] = m.type[x]
  <2>1. \A x \in Pages : t[x] = IF x = b THEN "FREE" ELSE IF x \in u THEN "NOT_HEAD" ELSE m.type[x]
    BY DEF Swallowed
  <2>2. t \in [Pages -> PageTypes]
    BY <1>2 DEF Swallowed, PageTypes
  <2> HIDE DEF t
  <2> QED
    BY <1>1, <1>4, <1>6, <2>1, <2>2
<1>8. /\ a \in [Pages -> Sizes] /\ a[b] = k
      /\ \A x \in Pages : UpperOf(p, n, k, x) => a[x] = c(x)
      /\ \A x \in Pages : x # b /\ ~UpperOf(p, n, k, x) => a[x] = m.allocsize[x]
  <2>1. \A x \in Pages : a[x] = IF x = b THEN k ELSE IF UpperOf(p, n, k, x) THEN c(x) ELSE m.allocsize[x]
    BY <1>5
  <2>2. a \in [Pages -> Sizes]
    <3>1. a = [x \in Pages |-> a[x]]
      OBVIOUS
    <3>2. \A x \in Pages : a[x] \in Sizes
      BY <1>1, <1>2, <1>4, <2>1
    <3> HIDE DEF a
    <3> QED
      BY <3>1, <3>2
  <2> HIDE DEF a
  <2> QED
    BY <1>1, <1>4, <2>1, <2>2
<1>9. /\ f \in [Sizes -> Seq(Pages)]
      /\ \A j \in Sizes : j \in n .. k - 1 => f[j] = LIST1_DEL(m.free[j], Buddy(Block(p, j), j))
      /\ f[k] = Put(m.free[k], b, k)
      /\ \A j \in Sizes : j \notin n .. k => f[j] = m.free[j]
  <2>1. \A j \in Sizes : f[j] = IF j \in n .. k - 1 THEN LIST1_DEL(m.free[j], Buddy(Block(p, j), j))
                                ELSE IF j = k THEN Put(m.free[j], b, j) ELSE m.free[j]
    OBVIOUS
  <2>2. f = [j \in Sizes |-> f[j]]
    OBVIOUS
  <2> HIDE DEF f
  <2>3. ASSUME NEW j \in Sizes, j \in n .. k - 1 PROVE LIST1_DEL(m.free[j], Buddy(Block(p, j), j)) \in Seq(Pages)
    <3>1. PICK q : q = Buddy(Block(p, j), j)
      OBVIOUS
    <3>2. FreeList(m.free[j], j) /\ q \in Elems(m.free[j])
      BY <2>3, <3>1, MergeLists
    <3> QED
      BY <3>1, <3>2, DelFree DEF FreeList
  <2>4. Put(m.free[k], b, k) \in Seq(Pages)
    BY <1>1, MergeLists, PutFree DEF FreeList
  <2>5. f \in [Sizes -> Seq(Pages)]
    BY <1>2, <2>1, <2>2, <2>3, <2>4
  <2>6. k \notin n .. k - 1
    BY <1>1
  <2>7. \A j \in Sizes : j \notin n .. k => j \notin n .. k - 1 /\ j # k
    BY <1>1
  <2> QED
    BY <1>1, <2>1, <2>5, <2>6, <2>7
<1> HIDE DEF t, a, f
<1>10. PICK m2 : m2 = [type |-> t, allocsize |-> a, free |-> f]
  OBVIOUS
<1>11. m2 \in Table /\ m2.type = t /\ m2.allocsize = a /\ m2.free = f
  BY <1>7, <1>8, <1>9, <1>10 DEF Table
<1>12. \A x \in Pages : UpperOf(p, n, k, x) =>
          m2.type[x] = "NOT_HEAD" /\ Block(x, m2.allocsize[x]) = x /\ Upper(x, m2.allocsize[x])
  BY <1>4, <1>7, <1>8, <1>11
<1>13. Frees(m, p, n, k, b, m2)
  BY <1>7, <1>8, <1>9, <1>11, <1>12 DEF Frees
<1> QED
  BY <1>3, <1>10, <1>13

\* What lies outside the merged block is left alone.
LEMMA FreeOutside ==
    ASSUME NEW m, NEW p, NEW n, NEW k, NEW b, Merges(m, p, n, k, b), NEW m2, Frees(m, p, n, k, b, m2),
           NEW x \in Pages, Block(x, k) # b
    PROVE  m2.type[x] = m.type[x] /\ m2.allocsize[x] = m.allocsize[x]
<1>1. p \in Pages /\ n \in Nat /\ k \in Nat /\ k <= Top /\ Block(b, k) = b /\ b = Block(p, k)
  BY MergeNumbers
<1>2. x # b
  BY <1>1
<1>3. ~UpperOf(p, n, k, x)
  <2>1. SUFFICES ASSUME NEW j \in n .. k - 1, x = Block(p, j + 1) + 2 ^ j PROVE FALSE
    BY DEF UpperOf
  <2>2. Block(x, k) = Block(p, k)
    BY <1>1, <2>1, UpperOfFacts
  <2> QED
    BY <1>1, <2>2
<1> QED
  BY <1>2, <1>3 DEF Frees

\* The merged block has one head.
LEMMA FreeHead ==
    ASSUME NEW m, NEW p, NEW n, NEW k, NEW b, Merges(m, p, n, k, b), NEW m2, Frees(m, p, n, k, b, m2),
           NEW x \in Pages, Block(x, k) = b, IsHead(m2, x)
    PROVE  x = b
<1>1. SUFFICES ASSUME x # b PROVE FALSE
  OBVIOUS
<1>2. ~UpperOf(p, n, k, x)
  BY DEF Frees, IsHead
<1>3. IsHead(m, x)
  BY <1>1, <1>2 DEF Frees, IsHead
<1> QED
  BY <1>1, <1>2, <1>3, MergeHeads

LEMMA FreeTiling ==
    ASSUME NEW m, NEW p, NEW n, NEW k, NEW b, Merges(m, p, n, k, b), NEW m2, Frees(m, p, n, k, b, m2)
    PROVE  Tiling(m2)
<1>1. /\ m \in Table /\ Tiling(m) /\ p \in Pages /\ k \in Nat /\ n <= k /\ b \in Pages /\ b = Block(p, k)
      /\ Block(b, k) = b /\ IsHead(m, p) /\ n = m.allocsize[p]
  BY MergeNumbers DEF Merges
<1>2. m2 \in Table /\ IsHead(m2, b) /\ m2.allocsize[b] = k
  BY DEF Frees, IsHead
<1>3. Inside(m, b, k)
  BY <1>1, Within
<1>4. ASSUME NEW x \in Pages, Block(x, k) = b, IsHead(m2, x)
      PROVE  m2.allocsize[x] <= k /\ Block(x, m2.allocsize[x]) = x
  <2>1. x = b
    BY <1>4, FreeHead
  <2> QED
    BY <1>1, <1>2, <2>1
<1>5. ASSUME NEW x \in Pages, Block(x, k) = b
      PROVE  \E y \in Pages : Block(y, k) = b /\ Covers(m2, y, x)
  BY <1>1, <1>2, <1>5 DEF Covers
<1>6. ASSUME NEW x \in Pages, NEW y \in Pages, NEW z \in Pages, Block(y, k) = b, Block(z, k) = b,
             Covers(m2, y, x), Covers(m2, z, x)
      PROVE  y = z
  <2>1. y = b
    BY <1>6, FreeHead DEF Covers
  <2>2. z = b
    BY <1>6, FreeHead DEF Covers
  <2> QED
    BY <2>1, <2>2
<1>7. ASSUME NEW x \in Pages, Block(x, k) = b, ~IsHead(m2, x) PROVE Halved(m2, x)
  <2>1. CASE UpperOf(p, n, k, x)
    BY <2>1 DEF Frees, Halved
  <2>2. CASE ~UpperOf(p, n, k, x)
    <3>1. m2.type[x] = m.type[x] /\ m2.allocsize[x] = m.allocsize[x]
      BY <1>2, <1>7, <2>2 DEF Frees
    <3> QED
      BY <1>1, <1>7, <3>1 DEF Tiling, IsHead, Halved
  <2> QED
    BY <2>1, <2>2
<1>8. Inside(m2, b, k)
  BY <1>4, <1>5, <1>6, <1>7 DEF Inside
<1>9. \A x \in Pages : Block(x, k) # b =>
          (IsHead(m2, x) <=> IsHead(m, x)) /\ m2.allocsize[x] = m.allocsize[x]
  BY FreeOutside DEF IsHead
<1> QED
  BY <1>1, <1>2, <1>3, <1>8, <1>9, Retile

\* The free blocks: the buddies are gone, the merged block is new.
LEMMA FreeFrees ==
    ASSUME NEW m, NEW p, NEW n, NEW k, NEW b, Merges(m, p, n, k, b), NEW m2, Frees(m, p, n, k, b, m2),
           NEW j \in Sizes
    PROVE  /\ j \in n .. k - 1 => FreeOf(m2, j, {}) = FreeOf(m, j, {}) \ {Buddy(Block(p, j), j)}
           /\ j = k => FreeOf(m2, j, {}) = FreeOf(m, j, {}) \cup {b}
           /\ j \notin n .. k => FreeOf(m2, j, {}) = FreeOf(m, j, {})
<1>1. n \in Nat /\ k \in Nat /\ n <= k /\ b \in Pages /\ Block(b, k) = b /\ j \in Nat
  BY MergeNumbers, Constants
<1>2. PICK q : q = Buddy(Block(p, j), j)
  OBVIOUS
<1>3. ASSUME NEW x \in Pages, Block(x, k) # b
      PROVE  /\ x \in FreeOf(m2, j, {}) <=> x \in FreeOf(m, j, {})
             /\ x # b /\ (j \in n .. k - 1 => x # q)
  <2>1. m2.type[x] = m.type[x] /\ m2.allocsize[x] = m.allocsize[x]
    BY <1>3, FreeOutside
  <2>2. j \in n .. k - 1 => Block(q, k) = b
    BY <1>2, MergeBuddy
  <2> QED
    BY <1>1, <1>3, <2>1, <2>2 DEF FreeOf
<1>4. ASSUME NEW x \in Pages, Block(x, k) = b
      PROVE  /\ x \in FreeOf(m2, j, {}) <=> (x = b /\ j = k)
             /\ x \in FreeOf(m, j, {}) => j \in n .. k - 1 /\ x = q
  <2>1. x \in FreeOf(m2, j, {}) => x = b
    <3>1. ASSUME x \in FreeOf(m2, j, {}) PROVE IsHead(m2, x)
      BY <3>1 DEF FreeOf, IsHead
    <3> QED
      BY <1>4, <3>1, FreeHead
  <2>2. b \in FreeOf(m2, j, {}) <=> j = k
    BY <1>1 DEF FreeOf, Frees
  <2>3. x \in FreeOf(m, j, {}) => j \in n .. k - 1 /\ x = q
    <3>1. ASSUME x \in FreeOf(m, j, {}) PROVE m.type[x] = "FREE" /\ m.allocsize[x] = j
      BY <3>1 DEF FreeOf
    <3> QED
      BY <1>2, <1>4, <3>1, MergeFree
  <2> QED
    BY <2>1, <2>2, <2>3
<1>5. FreeOf(m2, j, {}) \subseteq Pages /\ FreeOf(m, j, {}) \subseteq Pages
  BY DEF FreeOf
<1>6. CASE j \in n .. k - 1
  <2>1. j # k /\ ~(j \notin n .. k)
    BY <1>1, <1>6
  <2>2. ASSUME NEW x \in Pages PROVE x \in FreeOf(m2, j, {}) <=> x \in FreeOf(m, j, {}) \ {q}
    BY <1>3, <1>4, <1>6, <2>1
  <2>3. FreeOf(m2, j, {}) = FreeOf(m, j, {}) \ {q}
    BY <1>5, <2>2
  <2> QED
    BY <1>2, <2>1, <2>3
<1>7. CASE j = k
  <2>1. j \notin n .. k - 1 /\ ~(j \notin n .. k)
    BY <1>1, <1>7
  <2>2. ASSUME NEW x \in Pages PROVE x \in FreeOf(m2, j, {}) <=> x \in FreeOf(m, j, {}) \cup {b}
    BY <1>3, <1>4, <1>7, <2>1
  <2>3. FreeOf(m2, j, {}) = FreeOf(m, j, {}) \cup {b}
    BY <1>1, <1>5, <2>2
  <2> QED
    BY <2>1, <2>3
<1>8. CASE j \notin n .. k
  <2>1. j \notin n .. k - 1 /\ j # k
    BY <1>1, <1>8
  <2>2. ASSUME NEW x \in Pages PROVE x \in FreeOf(m2, j, {}) <=> x \in FreeOf(m, j, {})
    BY <1>3, <1>4, <2>1
  <2>3. FreeOf(m2, j, {}) = FreeOf(m, j, {})
    BY <1>5, <2>2
  <2> QED
    BY <2>1, <2>3
<1>9. j \in n .. k - 1 \/ j = k \/ j \notin n .. k
  BY <1>1
<1> QED
  BY <1>6, <1>7, <1>8, <1>9

LEMMA FreeListsKept ==
    ASSUME NEW m, NEW p, NEW n, NEW k, NEW b, Merges(m, p, n, k, b), NEW m2, Frees(m, p, n, k, b, m2),
           NEW j \in Sizes
    PROVE  FreeList(m2.free[j], j) /\ Elems(m2.free[j]) = FreeOf(m2, j, {})
<1>1. n \in Nat /\ k \in Nat /\ n <= k /\ b \in Pages /\ j \in Nat
  BY MergeNumbers, Constants
<1>2. PICK l : l = m.free[j] /\ FreeList(l, j) /\ Elems(l) = FreeOf(m, j, {})
  BY MergeLists
<1>3. CASE j \in n .. k - 1
  <2>1. PICK q : q = Buddy(Block(p, j), j)
    OBVIOUS
  <2>2. q \in Elems(l)
    BY <1>2, <1>3, <2>1, MergeLists
  <2>3. FreeList(LIST1_DEL(l, q), j) /\ Elems(LIST1_DEL(l, q)) = Elems(l) \ {q}
    BY <1>2, <2>2, DelFree
  <2>4. m2.free[j] = LIST1_DEL(l, q)
    BY <1>2, <1>3, <2>1 DEF Frees
  <2>5. FreeOf(m2, j, {}) = FreeOf(m, j, {}) \ {q}
    BY <1>3, <2>1, FreeFrees
  <2> QED
    BY <1>2, <2>3, <2>4, <2>5
<1>4. CASE j = k
  <2>1. b \notin Elems(l)
    BY <1>2, <1>4, MergeLists
  <2>2. FreeList(Put(l, b, j), j) /\ Elems(Put(l, b, j)) = Elems(l) \cup {b}
    BY <1>1, <1>2, <2>1, PutFree
  <2>3. m2.free[j] = Put(l, b, j)
    BY <1>2, <1>4 DEF Frees
  <2>4. FreeOf(m2, j, {}) = FreeOf(m, j, {}) \cup {b}
    BY <1>4, FreeFrees
  <2> QED
    BY <1>2, <2>2, <2>3, <2>4
<1>5. CASE j \notin n .. k
  <2>1. m2.free[j] = l
    BY <1>2, <1>5 DEF Frees
  <2>2. FreeOf(m2, j, {}) = FreeOf(m, j, {})
    BY <1>5, FreeFrees
  <2> QED
    BY <1>2, <2>1, <2>2
<1>6. j \in n .. k - 1 \/ j = k \/ j \notin n .. k
  BY <1>1
<1> QED
  BY <1>3, <1>4, <1>5, <1>6

\* The merged block could not grow further: its buddy is not free.
LEMMA FreeApart ==
    ASSUME NEW m, NEW p, NEW n, NEW k, NEW b, Merges(m, p, n, k, b), NEW m2, Frees(m, p, n, k, b, m2)
    PROVE  Apart(m2)
<1>1. SUFFICES ASSUME NEW j \in 0 .. Top - 1, NEW a \in Pages, Block(a, j + 1) = a,
                      a \in Elems(m2.free[j]), a + 2 ^ j \in Elems(m2.free[j])
               PROVE  FALSE
  BY DEF Apart
<1>2. /\ j \in Sizes /\ j \in Nat /\ j < Top /\ a \in Nat /\ p \in Pages /\ p \in Nat /\ k \in Nat
      /\ b = Block(p, k) /\ Top \in Nat /\ n \in Nat /\ k <= Top
  BY MergeNumbers, Constants
<1>3. PICK c : c = a + 2 ^ j /\ c \in Nat /\ c # a /\ Upper(c, j) /\ Block(c, j + 1) = a
  BY <1>1, <1>2, UpperHalf
<1>4. a \in FreeOf(m2, j, {}) /\ c \in FreeOf(m2, j, {})
  BY <1>1, <1>2, <1>3, FreeListsKept
<1>5. ~(a \in FreeOf(m, j, {}) /\ c \in FreeOf(m, j, {}))
  <2>1. Elems(m.free[j]) = FreeOf(m, j, {})
    BY <1>2, MergeLists
  <2>2. Apart(m)
    BY DEF Merges, Memory
  <2> QED
    BY <1>1, <1>3, <2>1, <2>2 DEF Apart
<1>6. j = k
  <2>1. SUFFICES ASSUME j # k PROVE FALSE
    OBVIOUS
  <2>2. j \in n .. k - 1 \/ j \notin n .. k
    BY <1>2, <2>1
  <2>3. FreeOf(m2, j, {}) \subseteq FreeOf(m, j, {})
    BY <1>2, <2>2, FreeFrees
  <2> QED
    BY <1>4, <1>5, <2>3
<1>7. FreeOf(m2, k, {}) = FreeOf(m, k, {}) \cup {b}
  BY <1>2, <1>6, FreeFrees
<1>8. ASSUME NEW y, y = Buddy(Block(p, k), k), y \in FreeOf(m, k, {}) PROVE FALSE
  <2>1. Mergeable(m, p, k)
    BY <1>8 DEF FreeOf, Mergeable
  <2>2. k # Top
    BY <1>2, <1>6
  <2> QED
    BY <2>1, <2>2 DEF Merges
<1>9. PICK y : y = Buddy(Block(p, k), k)
  OBVIOUS
<1>10. (Upper(p, k) => y = Block(p, k + 1)) /\ (~Upper(p, k) => y = Block(p, k + 1) + 2 ^ k)
  <2>1. Upper(p, k) => y = Block(p, k + 1)
    BY <1>2, <1>9, BuddyFacts
  <2>2. ~Upper(p, k) => y = Block(p, k + 1) + 2 ^ k
    BY <1>2, <1>9, BuddyFacts
  <2> QED
    BY <2>1, <2>2
<1>11. k + 1 \in Nat /\ k <= k + 1
  BY <1>2
<1>12. Block(b, k + 1) = Block(p, k + 1) /\ (Upper(b, k) <=> Upper(p, k))
  BY <1>2, <1>11, BlockUp, BlockOfBlock
<1>13. CASE a = b
  <2>1. ~Upper(a, j)
    BY <1>1, <1>2, LowerHalf
  <2>2. y = c
    BY <1>1, <1>3, <1>6, <1>10, <1>12, <1>13, <2>1
  <2>3. c \in FreeOf(m, k, {})
    BY <1>3, <1>4, <1>6, <1>7, <1>13
  <2> QED
    BY <1>8, <1>9, <2>2, <2>3
<1>14. CASE c = b
  <2>1. y = a
    BY <1>3, <1>6, <1>10, <1>12, <1>14
  <2>2. a \in FreeOf(m, k, {})
    BY <1>3, <1>4, <1>6, <1>7, <1>14
  <2> QED
    BY <1>8, <1>9, <2>1, <2>2
<1> QED
  BY <1>4, <1>5, <1>6, <1>7, <1>13, <1>14

\* The blocks in use outside S stay what they are.
Used(m, x) == m.type[x] \in {"ALLOCATED", "ALLOCATED_CONT", "RESERVED"}
KeepsUsed(m, m2, S) ==
    \A x \in Pages \ S : Used(m, x) => m2.type[x] = m.type[x] /\ m2.allocsize[x] = m.allocsize[x]

\* Freeing a block.
LEMMA FreeMemory ==
    ASSUME NEW m, Memory(m, {}), NEW p \in Pages, Used(m, p), NEW m2, m2 = FreeBlock(m, p)
    PROVE  Memory(m2, {}) /\ KeepsUsed(m, m2, {p})
<1>1. PICK n, k, b : n = m.allocsize[p] /\ k = MergedSize(m, p, n) /\ b = Block(p, k)
  OBVIOUS
<1>2. IsHead(m, p) /\ m.type[p] # "FREE" /\ n \in Sizes
  BY <1>1, TableFacts DEF Used, IsHead, Memory, Tiling
<1>3. /\ k \in n .. Top /\ \A j \in n .. k - 1 : Mergeable(m, p, j)
      /\ k = Top \/ ~Mergeable(m, p, k)
  BY <1>1, <1>2, MergedFacts
<1>4. Merges(m, p, n, k, b)
  BY <1>1, <1>2, <1>3 DEF Merges
<1>5. Frees(m, p, n, k, b, m2)
  BY <1>1, <1>4, FreeFields
<1>6. Tiling(m2) /\ Apart(m2) /\ m2 \in Table
  BY <1>4, <1>5, FreeTiling, FreeApart DEF Frees
<1>7. PICK X : X = {}
  OBVIOUS
<1>8. \A j \in Sizes : FreeList(m2.free[j], j) /\ Elems(m2.free[j]) = FreeOf(m2, j, X)
  BY <1>4, <1>5, <1>7, FreeListsKept
<1>9. Lists(m2, X) /\ Ordered(m2)
  BY <1>6, <1>8, ListsAreFree
<1>10. ASSUME NEW x \in Pages \ {p}, Used(m, x)
       PROVE  m2.type[x] = m.type[x] /\ m2.allocsize[x] = m.allocsize[x]
  <2>1. IsHead(m, x) /\ m.type[x] # "FREE" /\ x # p /\ x \in Pages
    BY <1>10 DEF Used, IsHead
  <2>2. Block(x, k) # b
    BY <1>4, <2>1, MergeHeads
  <2> QED
    BY <1>4, <1>5, <2>1, <2>2, FreeOutside
<1> QED
  BY <1>6, <1>7, <1>9, <1>10 DEF Memory, KeepsUsed
----------------------------------------------------------------------------
(* mm_page_free and its clients.                                           *)

\* q is the block behind block p, with which it was given away.
Partner(m, p, q) ==
    /\ q = p + 2 ^ m.allocsize[p] /\ q \in Pages /\ m.type[q] = "ALLOCATED"
    /\ ~Upper(p, m.allocsize[p])

LEMMA PartnerFacts ==
    ASSUME NEW m, Tiling(m), NEW p \in Pages, IsHead(m, p), NEW q, Partner(m, p, q),
           NEW s, s = m.allocsize[p]
    PROVE  s \in Nat /\ q \in Nat /\ q # p /\ Block(q, s) = q /\ Upper(q, s) /\ Block(q, s + 1) = p
<1>1. s \in Nat /\ p \in Nat /\ Block(p, s) = p
  BY TableFacts DEF Tiling
<1>2. Block(p, s + 1) = p
  BY <1>1, BlockStep DEF Partner
<1>3. q = p + 2 ^ s
  BY DEF Partner
<1> QED
  BY <1>1, <1>2, <1>3, UpperHalf

\* No block is behind two others.
LEMMA OnePartner ==
    ASSUME NEW m, Tiling(m), NEW p \in Pages, IsHead(m, p), NEW r \in Pages, IsHead(m, r),
           NEW q, Partner(m, p, q), Partner(m, r, q)
    PROVE  p = r
<1>1. PICK s, t : s = m.allocsize[p] /\ t = m.allocsize[r]
  OBVIOUS
<1>2. s \in Nat /\ q \in Nat /\ Block(q, s) = q /\ Upper(q, s) /\ Block(q, s + 1) = p
  BY <1>1, PartnerFacts
<1>3. t \in Nat /\ Block(q, t) = q /\ Upper(q, t) /\ Block(q, t + 1) = r
  BY <1>1, PartnerFacts
<1>4. s = t
  BY <1>2, <1>3, OneSize
<1> QED
  BY <1>2, <1>3, <1>4

\* A block in use is not refused.
LEMMA NotRefused ==
    ASSUME NEW m, NEW p, Used(m, p), m.type[p] = "ALLOCATED_CONT" => ~Upper(p, m.allocsize[p])
    PROVE  FreeError(m, p) = "no"
  BY DEF FreeError, Used

LEMMA FreeSingle ==
    ASSUME Memory(mm, {}), NEW p \in Pages, mm.type[p] \in {"ALLOCATED", "RESERVED"}, mm_page_free(p)
    PROVE  Memory(mm', {}) /\ KeepsUsed(mm, mm', {p}) /\ panicked' = panicked
<1>1. Used(mm, p) /\ mm.type[p] # "ALLOCATED_CONT"
  BY DEF Used
<1>2. FreeError(mm, p) = "no"
  BY <1>1, NotRefused
<1>3. mm' = FreeBlock(mm, p) /\ panicked' = panicked
  BY <1>1, <1>2 DEF mm_page_free, mm_page_free_sub
<1> QED
  BY <1>1, <1>3, FreeMemory

LEMMA KeepsUsedOn ==
    ASSUME NEW m, NEW m2, NEW m3, NEW S, KeepsUsed(m, m2, S), KeepsUsed(m2, m3, S)
    PROVE  KeepsUsed(m, m3, S)
  BY DEF KeepsUsed, Used

LEMMA KeepsUsedLess ==
    ASSUME NEW m, NEW m2, NEW S, NEW T, KeepsUsed(m, m2, S), S \subseteq T
    PROVE  KeepsUsed(m, m2, T)
  BY DEF KeepsUsed

LEMMA KeepsHeads ==
    ASSUME NEW m, NEW m2, NEW S, Keeps(m, m2, S)
    PROVE  KeepsUsed(m, m2, S)
  BY DEF KeepsUsed, Keeps, Used, IsHead

\* The block behind is freed first; the freed pair is whole.
LEMMA FreePair ==
    ASSUME Memory(mm, {}), NEW p \in Pages, mm.type[p] = "ALLOCATED_CONT", NEW q, Partner(mm, p, q),
           mm_page_free(p)
    PROVE  Memory(mm', {}) /\ KeepsUsed(mm, mm', {p, q}) /\ panicked' = panicked
<1>1. Used(mm, p) /\ IsHead(mm, p) /\ Tiling(mm) /\ mm \in Table
  BY DEF Used, IsHead, Memory, Tiling
<1>2. q \in Pages /\ q # p /\ mm.type[q] = "ALLOCATED" /\ q = p + 2 ^ mm.allocsize[p]
  BY <1>1, PartnerFacts DEF Partner
<1>3. FreeError(mm, p) = "no"
  BY <1>1, NotRefused DEF Partner
<1>4. PICK m1 : m1 = [mm EXCEPT !.type[p] = "ALLOCATED"]
  OBVIOUS
<1>5. Marks(mm, p, "ALLOCATED", m1)
  BY <1>1, <1>4, MarkFields
<1>6. m1.type[p] = "ALLOCATED" /\ m1.type[q] = "ALLOCATED"
  BY <1>1, <1>2, <1>5, Marked
<1>7. PICK X : X = {} /\ Memory(mm, X) /\ X \ {p} = {}
  OBVIOUS
<1>8. Memory(m1, {}) /\ Keeps(mm, m1, {p})
  <2>1. mm.type[p] = "FREE" => p \in X
    OBVIOUS
  <2>2. Memory(m1, X \ {p}) /\ Keeps(mm, m1, {p})
    BY <1>1, <1>5, <1>7, <2>1, MarkMemory
  <2> QED
    BY <1>7, <2>2
<1>9. Used(m1, q) /\ Used(m1, p) /\ m1.type[q] # "ALLOCATED_CONT"
  BY <1>6 DEF Used
<1>10. FreeError(m1, q) = "no"
  BY <1>9, NotRefused
<1>11. PICK m2 : m2 = FreeBlock(m1, q)
  OBVIOUS
<1>12. mm' = FreeBlock(m2, p) /\ panicked' = panicked
  BY <1>2, <1>3, <1>4, <1>10, <1>11 DEF mm_page_free, mm_page_free_sub
<1>13. Memory(m2, {}) /\ KeepsUsed(m1, m2, {q})
  BY <1>2, <1>8, <1>9, <1>11, FreeMemory
<1>14. Used(m2, p)
  BY <1>2, <1>6, <1>13 DEF KeepsUsed, Used
<1>15. Memory(mm', {}) /\ KeepsUsed(m2, mm', {p})
  BY <1>12, <1>13, <1>14, FreeMemory
<1>16. KeepsUsed(mm, m1, {p})
  BY <1>8, KeepsHeads
<1>17. PICK S : S = {p, q} /\ {p} \subseteq S /\ {q} \subseteq S
  <2>1. {p} \subseteq {p, q} /\ {q} \subseteq {p, q}
    OBVIOUS
  <2> QED
    BY <2>1
<1>18. KeepsUsed(mm, m1, S) /\ KeepsUsed(m1, m2, S) /\ KeepsUsed(m2, mm', S)
  BY <1>13, <1>15, <1>16, <1>17, KeepsUsedLess
<1>19. KeepsUsed(mm, m2, S)
  BY <1>18, KeepsUsedOn
<1>20. KeepsUsed(mm, mm', S)
  BY <1>18, <1>19, KeepsUsedOn
<1> QED
  BY <1>12, <1>15, <1>17, <1>20

\* A client keeps what is not touched.
LEMMA GivenKept ==
    ASSUME NEW m, NEW m2, NEW S, KeepsUsed(m, m2, S), NEW o, NEW o2, NEW x \in Pages,
           Given(m, o, x), x \notin S, o2[x] = o[x],
           \A y \in Pages : m.type[x] = "ALLOCATED_CONT" /\ Partner(m, x, y) =>
              y \notin S /\ o2[y] = o[y]
    PROVE  Given(m2, o2, x)
<1>1. CASE m.type[x] = "ALLOCATED" /\ o[x] <= 2 ^ m.allocsize[x]
  <2>1. m2.type[x] = "ALLOCATED" /\ m2.allocsize[x] = m.allocsize[x]
    BY <1>1 DEF KeepsUsed, Used
  <2> QED
    BY <1>1, <2>1 DEF Given
<1>2. CASE ~(m.type[x] = "ALLOCATED" /\ o[x] <= 2 ^ m.allocsize[x])
  <2>1. PICK y : y = x + 2 ^ m.allocsize[x]
    OBVIOUS
  <2>2. /\ m.type[x] = "ALLOCATED_CONT" /\ ~Upper(x, m.allocsize[x])
        /\ y \in Pages /\ m.type[y] = "ALLOCATED" /\ o[y] = 0
        /\ o[x] <= 2 ^ m.allocsize[x] + 2 ^ m.allocsize[y]
    BY <1>2, <2>1 DEF Given
  <2>3. y \notin S /\ o2[y] = 0
    BY <2>1, <2>2 DEF Partner
  <2>4. m2.type[x] = "ALLOCATED_CONT" /\ m2.allocsize[x] = m.allocsize[x]
    BY <2>2 DEF KeepsUsed, Used
  <2>5. m2.type[y] = "ALLOCATED" /\ m2.allocsize[y] = m.allocsize[y]
    BY <2>2, <2>3 DEF KeepsUsed, Used
  <2> QED
    BY <2>1, <2>2, <2>3, <2>4, <2>5 DEF Given
<1> QED
  BY <1>1, <1>2

\* Only blocks in use have clients.
LEMMA GivenUsed ==
    ASSUME NEW m, NEW o, NEW x, Given(m, o, x)
    PROVE  /\ m.type[x] \in {"ALLOCATED", "ALLOCATED_CONT"}
           /\ m.type[x] = "ALLOCATED_CONT" => \E y \in Pages : Partner(m, x, y) /\ o[y] = 0
  BY DEF Given, Partner

\* The size of what is given suffices.
Suffices(n, i, j) ==
    \/ i = -1 /\ j = -1
    \/ i \in Sizes /\ j = -1 /\ n <= 2 ^ i
    \/ i \in Sizes /\ j \in Nat /\ j <= i /\ n <= 2 ^ i + 2 ^ j

LEMMA SizeSuffices ==
    ASSUME NEW n \in Nat
    PROVE  Suffices(n, get_alloc_pages_size(n)[1], get_alloc_pages_size(n)[2])
<1> DEFINE fits == {i \in Sizes : 2 ^ i >= n \/ (i > 0 /\ 2 ^ i + 2 ^ (i - 1) >= n)}
           i == MinOf(fits)
           second == {j \in 0 .. i - 1 : 2 ^ j >= n - 2 ^ i}
<1>1. get_alloc_pages_size(n) = IF fits = {} THEN <<-1, -1>>
                                ELSE IF 2 ^ i >= n THEN <<i, -1>> ELSE <<i, MinOf(second)>>
  BY DEF get_alloc_pages_size
<1>2. CASE fits = {}
  <2>1. get_alloc_pages_size(n) = <<-1, -1>>
    BY <1>1, <1>2
  <2> QED
    BY <2>1 DEF Suffices
<1>3. CASE fits # {}
  <2>1. fits \subseteq Nat
    BY Constants
  <2>2. i \in fits
    BY <1>3, <2>1, MinOfFacts
  <2>3. i \in Sizes /\ i \in Nat /\ (2 ^ i >= n \/ (i > 0 /\ 2 ^ i + 2 ^ (i - 1) >= n))
    BY <2>2, Constants
  <2>4. second \subseteq Nat
    BY <2>3
  <2> HIDE DEF fits, i
  <2>5. PICK d \in Nat : d = 2 ^ i
    BY <2>3, PowerOfTwo
  <2>6. CASE d >= n
    <3>1. get_alloc_pages_size(n) = <<i, -1>>
      BY <1>1, <1>3, <2>5, <2>6
    <3>2. get_alloc_pages_size(n)[1] = i /\ get_alloc_pages_size(n)[2] = -1
      BY <3>1
    <3> QED
      BY <2>3, <2>5, <2>6, <3>2 DEF Suffices
  <2>7. CASE ~(d >= n)
    <3>1. i - 1 \in Nat /\ i - 1 \in 0 .. i - 1 /\ d + 2 ^ (i - 1) >= n
      BY <2>3, <2>5, <2>7
    <3>2. 2 ^ (i - 1) \in Nat
      BY <3>1, PowerOfTwo
    <3>3. 2 ^ (i - 1) >= n - d
      BY <3>1, <3>2
    <3>4. i - 1 \in second
      BY <2>5, <3>1, <3>3
    <3>5. MinOf(second) \in second
      <4>1. second # {}
        BY <3>4
      <4> HIDE DEF second
      <4> QED
        BY <2>4, <4>1, MinOfFacts
    <3>6. PICK j \in 0 .. i - 1 : j = MinOf(second) /\ 2 ^ j >= n - d
      BY <2>5, <3>5
    <3>7. j \in Nat /\ j <= i
      BY <2>3
    <3>8. 2 ^ j \in Nat
      BY <3>7, PowerOfTwo
    <3>9. n <= d + 2 ^ j
      BY <3>6, <3>8
    <3>10. get_alloc_pages_size(n) = <<i, j>>
      BY <1>1, <1>3, <2>5, <2>7, <3>6
    <3>11. get_alloc_pages_size(n)[1] = i /\ get_alloc_pages_size(n)[2] = j
      BY <3>10
    <3> QED
      BY <2>3, <2>5, <3>7, <3>9, <3>11 DEF Suffices
  <2> QED
    BY <2>6, <2>7
<1> QED
  BY <1>2, <1>3
----------------------------------------------------------------------------
(* Every step keeps the invariant.                                         *)
InitPages == [type |-> [p \in Pages |-> "RESERVED"], allocsize |-> [p \in Pages |-> 0],
              free |-> [n \in Sizes |-> <<>>]]

LEMMA InitMemory ==
    Memory(InitPages, {})
<1>1. PICK m : m = InitPages
  OBVIOUS
<1>2. 0 \in Sizes /\ 0 \in Nat
  BY Constants
<1>3. /\ m \in Table
      /\ \A x \in Pages : m.type[x] = "RESERVED" /\ m.allocsize[x] = 0
      /\ \A j \in Sizes : m.free[j] = <<>>
  BY <1>1, <1>2 DEF InitPages, Table, PageTypes
<1>4. ASSUME NEW x \in Pages PROVE Block(x, 0) = x
  <2>1. x \in Nat
    BY Constants
  <2>2. 2 ^ 0 = 1
    OBVIOUS
  <2>3. x % 1 = 0
    BY <2>1
  <2> QED
    BY <2>1, <2>2, <2>3 DEF Block
<1>5. Tiling(m)
  <2>1. \A x \in Pages : IsHead(m, x)
    BY <1>3 DEF IsHead
  <2>2. \A x, p \in Pages : Covers(m, p, x) <=> p = x
    BY <1>3, <1>4, <2>1 DEF Covers
  <2> QED
    BY <1>3, <1>4, <2>1, <2>2 DEF Tiling
<1>6. \A j \in Sizes : Elems(m.free[j]) = {} /\ DOMAIN m.free[j] = {}
  BY <1>3 DEF Elems, Range
<1>7. Lists(m, {}) /\ Ordered(m)
  BY <1>3, <1>6 DEF Lists, Ordered, Lowers, IsList, IsInjective
<1>8. Apart(m)
  <2>1. \A j \in 0 .. Top - 1 : j \in Sizes
    BY Constants
  <2> QED
    BY <1>6, <2>1 DEF Apart
<1> QED
  BY <1>1, <1>5, <1>7, <1>8 DEF Memory

LEMMA MmInit ==
    Init => MmInv
<1> SUFFICES ASSUME Init PROVE MmInv
  OBVIOUS
<1>1. mm = InitPages /\ init_page = 0 /\ panicked = "no" /\ owned = [p \in Pages |-> 0]
  BY DEF Init, InitPages
<1>2. Memory(mm, {})
  BY <1>1, InitMemory
<1>3. Starting
  <2>1. \A x \in Pages : mm.type[x] = "RESERVED"
    BY DEF Init
  <2>2. 0 \in 0 .. NUM_OF_PAGES
    BY Constants
  <2> QED
    BY <1>1, <2>1, <2>2 DEF Starting
<1>4. Clients(mm, owned)
  BY <1>1 DEF Clients
<1>5. owned \in [Pages -> Nat]
  BY <1>1
<1> QED
  BY <1>1, <1>2, <1>3, <1>4, <1>5 DEF MmInv

\* Clients keep their blocks when a reserved page is freed.
LEMMA ReservedClients ==
    ASSUME NEW m, NEW m2, NEW o, NEW p, Clients(m, o), KeepsUsed(m, m2, {p}), m.type[p] = "RESERVED"
    PROVE  Clients(m2, o)
<1>1. SUFFICES ASSUME NEW x \in Pages, o[x] # 0 PROVE Given(m2, o, x)
  BY DEF Clients
<1>2. Given(m, o, x)
  BY <1>1 DEF Clients
<1>3. x \notin {p}
  BY <1>2, GivenUsed
<1>4. \A y \in Pages : m.type[x] = "ALLOCATED_CONT" /\ Partner(m, x, y) => y \notin {p} /\ o[y] = o[y]
  BY DEF Partner
<1> QED
  BY <1>2, <1>3, <1>4, GivenKept

\* The pages mm_init_global has not come to stay reserved.
LEMMA InitStep ==
    ASSUME MmInv, panicked = "no", mm_init_global
    PROVE  MmInv'
<1>1. /\ Memory(mm, {}) /\ Clients(mm, owned) /\ owned \in [Pages -> Nat]
      /\ init_page \in 0 .. NUM_OF_PAGES /\ init_page < NUM_OF_PAGES /\ NUM_OF_PAGES \in Nat
      /\ \A x \in Pages : x >= init_page => mm.type[x] = "RESERVED"
      /\ \A x \in Pages : owned[x] = 0
      /\ init_page' = init_page + 1 /\ owned' = owned
  BY Constants DEF MmInv, Starting, Initialized, mm_init_global
<1>2. init_page \in Pages /\ init_page' \in 0 .. NUM_OF_PAGES /\ mm.type[init_page] = "RESERVED"
  BY <1>1 DEF Pages
<1>3. Memory(mm', {}) /\ KeepsUsed(mm, mm', {init_page}) /\ panicked' = panicked
  <2>1. CASE init_page \in Reserved
    BY <1>1, <2>1 DEF mm_init_global, KeepsUsed
  <2>2. CASE init_page \notin Reserved
    <3>1. mm_page_free(init_page)
      BY <2>2 DEF mm_init_global
    <3> QED
      BY <1>1, <1>2, <3>1, FreeSingle
  <2> QED
    BY <2>1, <2>2
<1>4. Clients(mm', owned')
  <2>1. Clients(mm', owned)
    BY <1>1, <1>2, <1>3, ReservedClients
  <2> QED
    BY <1>1, <2>1
<1>5. \A x \in Pages : x >= init_page' => mm'.type[x] = "RESERVED"
  <2>1. ASSUME NEW x \in Pages, x >= init_page + 1 PROVE mm'.type[x] = "RESERVED"
    <3>1. x # init_page /\ x >= init_page
      BY <1>1, <2>1, Constants
    <3>2. mm.type[x] = "RESERVED"
      BY <1>1, <3>1
    <3> QED
      BY <1>3, <3>1, <3>2 DEF KeepsUsed, Used
  <2> QED
    BY <1>1, <2>1
<1>6. Starting'
  BY <1>1, <1>2, <1>5 DEF Starting
<1> QED
  BY <1>1, <1>3, <1>4, <1>6 DEF MmInv

\* When all pages have been visited, nothing is said of single pages.
LEMMA StartedStays ==
    ASSUME MmInv, Initialized, init_page' = init_page
    PROVE  Starting'
<1>1. init_page = NUM_OF_PAGES /\ init_page' \in 0 .. NUM_OF_PAGES /\ init_page' = NUM_OF_PAGES
  BY DEF MmInv, Starting, Initialized
<1>2. \A x \in Pages : ~(x >= NUM_OF_PAGES)
  BY Constants DEF Pages
<1>3. Initialized'
  BY <1>1 DEF Initialized
<1> QED
  BY <1>1, <1>2, <1>3 DEF Starting

\* Clients keep their blocks when others are allocated.
LEMMA OthersKeep ==
    ASSUME NEW m, NEW m2, NEW o, NEW o2, NEW S, NEW p, Clients(m, o), Keeps(m, m2, S),
           \A y \in S : y \in Pages /\ m.type[y] \in {"FREE", "NOT_HEAD"},
           p \in S, \A y \in Pages : y # p => o2[y] = o[y],
           NEW x \in Pages, x # p, o2[x] # 0
    PROVE  Given(m2, o2, x)
<1>1. KeepsUsed(m, m2, S)
  BY KeepsHeads
<1>2. Given(m, o, x)
  BY DEF Clients
<1>3. x \notin S
  BY <1>2, GivenUsed
<1>4. \A y \in Pages : m.type[x] = "ALLOCATED_CONT" /\ Partner(m, x, y) => y \notin S /\ o2[y] = o[y]
  BY DEF Partner
<1> QED
  BY <1>1, <1>2, <1>3, <1>4, GivenKept

LEMMA SingleStep ==
    ASSUME MmInv, Initialized, init_page' = init_page, panicked = "no",
           NEW n \in Nat, NEW i \in Sizes, n <= 2 ^ i, mm_page_alloc(i, n)
    PROVE  MmInv'
<1>1. Memory(mm, {}) /\ Clients(mm, owned) /\ owned \in [Pages -> Nat] /\ i \in Nat
  BY Constants DEF MmInv
<1>2. Memory(mm', {}) /\ panicked' = panicked /\ \E p : Alone(p, i, n)
  BY <1>1, AllocSingle
<1>3. PICK p \in Pages : /\ mm.type[p] = "FREE" /\ mm'.type[p] = "ALLOCATED"
                         /\ mm'.allocsize[p] = i /\ Keeps(mm, mm', {p})
                         /\ owned' = [owned EXCEPT ![p] = n]
  BY <1>2 DEF Alone
<1>4. owned' \in [Pages -> Nat] /\ owned'[p] = n /\ \A y \in Pages : y # p => owned'[y] = owned[y]
  BY <1>1, <1>3
<1>5. PICK S : S = {p} /\ Keeps(mm, mm', S) /\ p \in S
               /\ \A y \in S : y \in Pages /\ mm.type[y] \in {"FREE", "NOT_HEAD"}
  BY <1>3
<1>6. ASSUME NEW x \in Pages, owned'[x] # 0 PROVE Given(mm', owned', x)
  <2>1. CASE x = p
    BY <1>3, <1>4, <2>1 DEF Given
  <2>2. CASE x # p
    BY <1>1, <1>4, <1>5, <1>6, <2>2, OthersKeep
  <2> QED
    BY <2>1, <2>2
<1>7. Clients(mm', owned')
  BY <1>6 DEF Clients
<1>8. Starting'
  BY StartedStays
<1> QED
  BY <1>2, <1>4, <1>7, <1>8 DEF MmInv

LEMMA PairStep ==
    ASSUME MmInv, Initialized, init_page' = init_page, panicked = "no",
           NEW n \in Nat, NEW i \in Sizes, NEW j \in Nat, j <= i, n <= 2 ^ i + 2 ^ j,
           mm_page_alloc_cont(i, j, n)
    PROVE  MmInv'
<1>1. Memory(mm, {}) /\ Clients(mm, owned) /\ owned \in [Pages -> Nat] /\ i \in Nat
  BY Constants DEF MmInv
<1>2. Memory(mm', {}) /\ panicked' = panicked /\ \E p, q : Joined(p, q, i, j, n)
  BY <1>1, AllocPair
<1>3. PICK p, q : Joined(p, q, i, j, n)
  BY <1>2
<1>4. /\ p \in Pages /\ q \in Pages /\ p # q /\ q = p + 2 ^ i /\ ~Upper(p, i)
      /\ mm.type[p] = "FREE" /\ mm.type[q] \in {"FREE", "NOT_HEAD"}
      /\ mm'.type[p] = "ALLOCATED_CONT" /\ mm'.type[q] = "ALLOCATED"
      /\ mm'.allocsize[p] = i /\ mm'.allocsize[q] = j
      /\ Keeps(mm, mm', {p, q}) /\ owned' = [owned EXCEPT ![p] = n]
  BY <1>3 DEF Joined
<1>5. owned' \in [Pages -> Nat] /\ owned'[p] = n /\ \A y \in Pages : y # p => owned'[y] = owned[y]
  BY <1>1, <1>4
<1>6. PICK S : S = {p, q} /\ Keeps(mm, mm', S) /\ p \in S
               /\ \A y \in S : y \in Pages /\ mm.type[y] \in {"FREE", "NOT_HEAD"}
  <2>1. \A y \in {p, q} : y \in Pages /\ mm.type[y] \in {"FREE", "NOT_HEAD"}
    BY <1>4
  <2> QED
    BY <1>4, <2>1
<1>7. owned'[q] = 0
  <2>1. owned[q] # 0 => Given(mm, owned, q)
    BY <1>1, <1>4 DEF Clients
  <2>2. owned[q] = 0
    BY <1>4, <2>1, GivenUsed
  <2> QED
    BY <1>4, <1>5, <2>2
<1>8. ASSUME NEW x \in Pages, owned'[x] # 0 PROVE Given(mm', owned', x)
  <2>1. CASE x = p
    BY <1>4, <1>5, <1>7, <2>1 DEF Given
  <2>2. CASE x # p
    BY <1>1, <1>5, <1>6, <1>8, <2>2, OthersKeep
  <2> QED
    BY <2>1, <2>2
<1>9. Clients(mm', owned')
  BY <1>8 DEF Clients
<1>10. Starting'
  BY StartedStays
<1> QED
  BY <1>2, <1>5, <1>9, <1>10 DEF MmInv

LEMMA AllocStep ==
    ASSUME MmInv, Initialized, init_page' = init_page, panicked = "no",
           NEW n \in Requests, alloc_pages(n)
    PROVE  MmInv'
<1>1. n \in Nat
  BY MmAssumption
<1>2. PICK i, j : i = get_alloc_pages_size(n)[1] /\ j = get_alloc_pages_size(n)[2]
  OBVIOUS
<1>3. Suffices(n, i, j)
  BY <1>1, <1>2, SizeSuffices
<1>4. CASE i >= 0 /\ j < 0 /\ mm_page_alloc(i, n)
  <2>1. i \in Sizes /\ n <= 2 ^ i
    BY <1>3, <1>4 DEF Suffices
  <2> QED
    BY <1>1, <1>4, <2>1, SingleStep
<1>5. CASE i >= 0 /\ j >= 0 /\ mm_page_alloc_cont(i, j, n)
  <2>1. i \in Sizes /\ j \in Nat /\ j <= i /\ n <= 2 ^ i + 2 ^ j
    BY <1>3, <1>5 DEF Suffices
  <2> QED
    BY <1>1, <1>5, <2>1, PairStep
<1>6. CASE OutOfMemory
  <2>1. mm' = mm /\ owned' = owned /\ panicked' = "out of memory"
    BY <1>6 DEF OutOfMemory
  <2>2. Starting'
    BY StartedStays
  <2> QED
    BY <2>1, <2>2 DEF MmInv
<1> QED
  BY <1>2, <1>4, <1>5, <1>6 DEF alloc_pages

LEMMA FreeStep ==
    ASSUME MmInv, Initialized, init_page' = init_page, panicked = "no",
           NEW p \in Pages, free_page(p)
    PROVE  MmInv'
<1>1. /\ Memory(mm, {}) /\ Tiling(mm) /\ Clients(mm, owned) /\ owned \in [Pages -> Nat]
      /\ owned[p] # 0 /\ mm_page_free(p) /\ owned' = [owned EXCEPT ![p] = 0]
  BY DEF MmInv, Memory, free_page
<1>2. Given(mm, owned, p)
  BY <1>1 DEF Clients
<1>3. /\ owned' \in [Pages -> Nat] /\ owned'[p] = 0
      /\ \A y \in Pages : y # p => owned'[y] = owned[y]
  BY <1>1
<1>4. ASSUME NEW x \in Pages, owned'[x] # 0
      PROVE  /\ x # p /\ owned'[x] = owned[x] /\ Given(mm, owned, x) /\ IsHead(mm, x)
             /\ \A y \in Pages : mm.type[x] = "ALLOCATED_CONT" /\ Partner(mm, x, y) => owned[y] = 0 /\ y # p
  <2>1. x # p /\ owned'[x] = owned[x] /\ Given(mm, owned, x)
    BY <1>1, <1>3, <1>4 DEF Clients
  <2>2. IsHead(mm, x)
    BY <2>1, GivenUsed DEF IsHead
  <2>3. ASSUME NEW y \in Pages, mm.type[x] = "ALLOCATED_CONT", Partner(mm, x, y) PROVE owned[y] = 0
    BY <2>1, <2>3 DEF Given, Partner
  <2> QED
    BY <1>1, <2>1, <2>2, <2>3
<1>5. CASE mm.type[p] = "ALLOCATED"
  <2>1. Memory(mm', {}) /\ KeepsUsed(mm, mm', {p}) /\ panicked' = panicked
    BY <1>1, <1>5, FreeSingle
  <2>2. PICK S : S = {p} /\ KeepsUsed(mm, mm', S)
    BY <2>1
  <2>3. ASSUME NEW x \in Pages, owned'[x] # 0 PROVE Given(mm', owned', x)
    <3>1. x \notin S /\ owned'[x] = owned[x] /\ Given(mm, owned, x)
      BY <1>4, <2>2, <2>3
    <3>2. \A y \in Pages : mm.type[x] = "ALLOCATED_CONT" /\ Partner(mm, x, y) =>
             y \notin S /\ owned'[y] = owned[y]
      BY <1>3, <1>4, <2>2, <2>3
    <3> QED
      BY <2>2, <3>1, <3>2, GivenKept
  <2>4. Clients(mm', owned')
    BY <2>3 DEF Clients
  <2> QED
    BY <1>3, <2>1, <2>4, StartedStays DEF MmInv
<1>6. CASE mm.type[p] = "ALLOCATED_CONT"
  <2>1. PICK q \in Pages : Partner(mm, p, q) /\ owned[q] = 0
    BY <1>2, <1>6, GivenUsed
  <2>2. Memory(mm', {}) /\ KeepsUsed(mm, mm', {p, q}) /\ panicked' = panicked
    BY <1>1, <1>6, <2>1, FreePair
  <2>3. PICK S : S = {p, q} /\ KeepsUsed(mm, mm', S)
    BY <2>2
  <2>4. ASSUME NEW x \in Pages, owned'[x] # 0 PROVE Given(mm', owned', x)
    <3>1. x # p /\ owned'[x] = owned[x] /\ Given(mm, owned, x) /\ IsHead(mm, x)
      BY <1>4, <2>4
    <3>2. x # q
      BY <2>1, <2>4, <3>1
    <3>3. x \notin S
      BY <2>3, <3>1, <3>2
    <3>4. IsHead(mm, p)
      BY <1>6 DEF IsHead
    <3>5. ASSUME NEW y \in Pages, mm.type[x] = "ALLOCATED_CONT", Partner(mm, x, y)
          PROVE  y \notin S /\ owned'[y] = owned[y]
      <4>1. y # p
        BY <1>4, <2>4, <3>5
      <4>2. y # q
        BY <1>1, <2>1, <3>1, <3>4, <3>5, OnePartner
      <4> QED
        BY <1>3, <2>3, <4>1, <4>2
    <3> QED
      BY <2>3, <3>1, <3>3, <3>5, GivenKept
  <2>5. Clients(mm', owned')
    BY <2>4 DEF Clients
  <2> QED
    BY <1>3, <2>2, <2>5, StartedStays DEF MmInv
<1> QED
  BY <1>2, <1>5, <1>6, GivenUsed

LEMMA ReservedStep ==
    ASSUME MmInv, Initialized, init_page' = init_page, panicked = "no",
           NEW p \in Pages, free_reserved(p)
    PROVE  MmInv'
<1>1. /\ Memory(mm, {}) /\ Clients(mm, owned) /\ owned \in [Pages -> Nat]
      /\ mm.type[p] = "RESERVED" /\ mm_page_free(p) /\ owned' = owned
  BY DEF MmInv, free_reserved
<1>2. Memory(mm', {}) /\ KeepsUsed(mm, mm', {p}) /\ panicked' = panicked
  BY <1>1, FreeSingle
<1>3. Clients(mm', owned)
  BY <1>1, <1>2, ReservedClients
<1>4. Starting'
  BY StartedStays
<1> QED
  BY <1>1, <1>2, <1>3, <1>4 DEF MmInv

LEMMA MmStep ==
    MmInv /\ [Next]_vars => MmInv'
<1> SUFFICES ASSUME MmInv, [Next]_vars PROVE MmInv'
  OBVIOUS
<1>1. CASE panicked = "no" /\ mm_init_global
  BY <1>1, InitStep
<1>2. ASSUME panicked = "no", Initialized, UNCHANGED init_page, NEW n \in Requests, alloc_pages(n)
      PROVE  MmInv'
  BY <1>2, AllocStep
<1>3. ASSUME panicked = "no", Initialized, UNCHANGED init_page, NEW p \in Pages, free_page(p)
      PROVE  MmInv'
  BY <1>3, FreeStep
<1>4. ASSUME panicked = "no", Initialized, UNCHANGED init_page, NEW p \in Pages,
             mm_free_panicmem(p) \/ free_pages_range(p)
      PROVE  MmInv'
  BY <1>4, ReservedStep DEF mm_free_panicmem, free_pages_range
<1>5. CASE UNCHANGED vars
  <2>1. mm' = mm /\ owned' = owned /\ panicked' = panicked /\ init_page' = init_page
    BY <1>5 DEF vars
  <2> QED
    BY <2>1 DEF MmInv, Starting, Initialized
<1> QED
  BY <1>1, <1>2, <1>3, <1>4, <1>5 DEF Next

(* The pages, their lists and the clients agree with each other in every   *)
(* state of the page allocator (core/mm.c), whatever the sizes, the image  *)
(* and the requests are: mm_page_alloc, mm_page_alloc_cont and             *)
(* mm_page_free keep the invariant that each of them relies on.            *)
THEOREM MmInvariance == Spec => []MmInv
<1>1. Init => MmInv
  BY MmInit
<1>2. MmInv /\ [Next]_vars => MmInv'
  BY MmStep
<1> QED
  BY <1>1, <1>2, PTL DEF Spec
----------------------------------------------------------------------------
(* What the invariant says.                                                *)

LEMMA TileFacts ==
    MmInv => TypeOK /\ BlocksTile
<1> SUFFICES ASSUME MmInv PROVE TypeOK /\ BlocksTile
  OBVIOUS
<1>1. Tiling(mm) /\ mm \in Table /\ owned \in [Pages -> Nat]
  BY DEF MmInv, Memory, Tiling
<1>2. TypeOK
  BY <1>1 DEF TypeOK, Table, PageTypes
<1>3. \A x \in Pages : x \in Nat /\ mm.allocsize[x] \in Nat
  BY <1>1, TableFacts
<1>4. \A p \in Heads : p \in Pages /\ IsHead(mm, p) /\ Block(p, mm.allocsize[p]) = p
  BY <1>1 DEF Heads, Tiling, IsHead
<1>5. ASSUME NEW p \in Heads PROVE p % Size(p) = 0
  <2>1. PICK n \in Nat : n = mm.allocsize[p]
    BY <1>3, <1>4
  <2>2. PICK d \in Nat : d = 2 ^ n /\ d > 0 /\ p \in Nat
    BY <1>3, <1>4, PowerOfTwo
  <2>3. PICK q \in Nat, r \in 0 .. d - 1 : q = p \div d /\ r = p % d /\ p = d * q + r
    BY <2>2, DivisionFacts
  <2>4. p - r = p
    BY <1>4, <2>1, <2>2, <2>3 DEF Block
  <2>5. r = 0
    BY <2>2, <2>4
  <2> QED
    BY <2>1, <2>2, <2>3, <2>5 DEF Size
<1>6. ASSUME NEW p \in Heads, NEW x \in Pages PROVE x \in Extent(p, Size(p)) <=> Covers(mm, p, x)
  <2>1. PICK n \in Nat : n = mm.allocsize[p] /\ Block(p, n) = p /\ p \in Nat /\ x \in Nat
    BY <1>3, <1>4
  <2>2. x \in Extent(p, 2 ^ n) <=> Block(x, n) = p
    BY <2>1, ExtentOfBlock
  <2> QED
    BY <1>4, <2>1, <2>2 DEF Size, Covers
<1>7. ASSUME NEW x \in Pages
      PROVE  \E p \in Heads : /\ x \in Extent(p, Size(p))
                              /\ \A q \in Heads \ {p} : x \notin Extent(q, Size(q))
  <2>1. PICK p \in Pages : Covers(mm, p, x)
    BY <1>1 DEF Tiling
  <2>2. p \in Heads
    BY <2>1 DEF Covers, Heads, IsHead
  <2>3. ASSUME NEW q \in Heads \ {p} PROVE x \notin Extent(q, Size(q))
    <3>1. q \in Pages /\ q # p /\ q \in Heads
      BY <1>4
    <3>2. ~Covers(mm, q, x)
      BY <1>1, <2>1, <3>1 DEF Tiling
    <3> QED
      BY <1>6, <3>1, <3>2
  <2> QED
    BY <1>6, <2>1, <2>2, <2>3
<1> QED
  BY <1>2, <1>5, <1>7 DEF BlocksTile

LEMMA ListFacts ==
    MmInv => FreeLists /\ LowersFirst
  BY DEF MmInv, Memory, Lists, Ordered, Lowers, FreeLists, LowersFirst

LEMMA BuddiesApart ==
    MmInv => Coalesced
<1> SUFFICES ASSUME MmInv, NEW n \in 0 .. Top - 1, NEW p \in Elems(mm.free[n]),
                    Buddy(p, n) \in Elems(mm.free[n])
             PROVE  FALSE
  BY DEF Coalesced
<1>1. n \in Nat /\ n \in Sizes /\ n <= Top /\ n + 1 \in Nat /\ n + 1 <= Top + 1
  BY Constants
<1>2. PICK X : X = {} /\ Memory(mm, X)
  BY DEF MmInv
<1>3. p \in Pages /\ mm.type[p] = "FREE" /\ mm.allocsize[p] = n
  BY <1>1, <1>2, TakeBlock
<1>4. Block(p, n) = p /\ p \in Nat
  BY <1>2, <1>3, Constants DEF Memory, Tiling, IsHead
<1>5. PICK q : q = Buddy(Block(p, n), n) /\ q \in Elems(mm.free[n])
  BY <1>4
<1>6. PICK a : a = Block(p, n + 1) /\ a \in Pages /\ a \in Nat /\ Block(a, n + 1) = a
  BY <1>1, <1>3, <1>4, BlockInPages, BlockOfBlock, Constants
<1>7. a \in Elems(mm.free[n]) /\ a + 2 ^ n \in Elems(mm.free[n])
  <2>1. CASE Upper(p, n)
    <3>1. q = a
      BY <1>1, <1>3, <1>5, <1>6, <2>1, BuddyFacts
    <3>2. p = a + 2 ^ n
      BY <1>1, <1>4, <1>6, <2>1, Halves
    <3> QED
      BY <1>5, <3>1, <3>2
  <2>2. CASE ~Upper(p, n)
    <3>1. q = a + 2 ^ n
      BY <1>1, <1>3, <1>5, <1>6, <2>2, BuddyFacts
    <3>2. p = a
      BY <1>1, <1>4, <1>6, <2>2, Halves
    <3> QED
      BY <1>5, <3>1, <3>2
  <2> QED
    BY <2>1, <2>2
<1> QED
  BY <1>2, <1>6, <1>7 DEF Memory, Apart

\* The pages a client was given are those of its block and the one behind.
Holds(p, h) == h = p \/ (mm.type[p] = "ALLOCATED_CONT" /\ Partner(mm, p, h) /\ owned[h] = 0)

LEMMA ClientPages ==
    ASSUME MmInv, NEW p \in Pages, owned[p] # 0, NEW x \in Extent(p, owned[p])
    PROVE  x \in Pages /\ \E h \in Pages : Covers(mm, h, x) /\ Holds(p, h)
<1>1. Tiling(mm) /\ mm \in Table /\ owned[p] \in Nat /\ p \in Nat /\ Given(mm, owned, p)
  BY Constants DEF MmInv, Memory, Tiling, Clients
<1>2. \A y \in Pages : y \in Nat /\ mm.allocsize[y] \in Nat /\ mm.allocsize[y] <= Top + 1
  BY <1>1, TableFacts, Constants
<1>3. ASSUME NEW h \in Pages, IsHead(mm, h), x \in Extent(h, 2 ^ mm.allocsize[h])
      PROVE  x \in Pages /\ Covers(mm, h, x)
  <2>1. PICK n \in Nat : n = mm.allocsize[h] /\ n <= Top + 1 /\ Block(h, n) = h /\ h \in Nat
    BY <1>1, <1>2, <1>3 DEF Tiling
  <2>2. x \in Pages
    BY <1>3, <2>1, BlockInPages
  <2>3. Block(x, n) = h
    BY <1>2, <1>3, <2>1, <2>2, ExtentOfBlock
  <2> QED
    BY <1>3, <2>1, <2>2, <2>3 DEF Covers
<1>4. PICK d \in Nat : d = 2 ^ mm.allocsize[p]
  BY <1>2, PowerOfTwo
<1>5. x \in Int /\ p <= x /\ x < p + owned[p]
  BY <1>1 DEF Extent
<1>6. IsHead(mm, p)
  BY <1>1, GivenUsed DEF IsHead
<1>7. CASE x < p + d
  <2>1. x \in Extent(p, d)
    BY <1>1, <1>5, <1>7 DEF Extent
  <2>2. x \in Pages /\ Covers(mm, p, x)
    BY <1>3, <1>4, <1>6, <2>1
  <2> QED
    BY <2>2 DEF Holds
<1>8. CASE ~(x < p + d)
  <2>1. ~(owned[p] <= d)
    BY <1>1, <1>5, <1>8
  <2>2. PICK q : q = p + d
    OBVIOUS
  <2>3. /\ mm.type[p] = "ALLOCATED_CONT" /\ ~Upper(p, mm.allocsize[p])
        /\ q \in Pages /\ mm.type[q] = "ALLOCATED" /\ owned[q] = 0
        /\ owned[p] <= d + 2 ^ mm.allocsize[q]
    BY <1>1, <1>4, <2>1, <2>2 DEF Given
  <2>4. PICK e \in Nat : e = 2 ^ mm.allocsize[q]
    BY <1>2, <2>3, PowerOfTwo
  <2>5. x \in Extent(q, e)
    BY <1>1, <1>5, <1>8, <2>2, <2>3, <2>4 DEF Extent
  <2>6. IsHead(mm, q)
    BY <2>3 DEF IsHead
  <2>7. x \in Pages /\ Covers(mm, q, x)
    BY <1>3, <2>3, <2>4, <2>5, <2>6
  <2>8. Partner(mm, p, q)
    BY <1>4, <2>2, <2>3 DEF Partner
  <2> QED
    BY <2>3, <2>7, <2>8 DEF Holds
<1> QED
  BY <1>7, <1>8

LEMMA ClientsApart ==
    MmInv => ClientsDisjoint
<1> SUFFICES ASSUME MmInv, NEW p \in Pages, owned[p] # 0
             PROVE  /\ \A x \in Extent(p, owned[p]) :
                          x \in Pages /\ mm.type[x] \in {"ALLOCATED", "ALLOCATED_CONT", "NOT_HEAD"}
                    /\ \A q \in Pages : q # p => Extent(q, owned[q]) \cap Extent(p, owned[p]) = {}
  BY DEF ClientsDisjoint
<1>1. Tiling(mm) /\ owned \in [Pages -> Nat] /\ Pages \subseteq Nat
  BY Constants DEF MmInv, Memory
<1>2. \A q \in Pages : owned[q] # 0 => Given(mm, owned, q) /\ IsHead(mm, q)
  BY GivenUsed DEF MmInv, Clients, IsHead
<1>3. ASSUME NEW x \in Extent(p, owned[p])
      PROVE  x \in Pages /\ mm.type[x] \in {"ALLOCATED", "ALLOCATED_CONT", "NOT_HEAD"}
  <2>1. x \in Pages /\ \E h \in Pages : Covers(mm, h, x) /\ Holds(p, h)
    BY ClientPages
  <2>2. PICK h \in Pages : Covers(mm, h, x) /\ Holds(p, h)
    BY <2>1
  <2>3. mm.type[h] \in {"ALLOCATED", "ALLOCATED_CONT"}
    BY <1>2, <2>2, GivenUsed DEF Holds, Partner
  <2>4. CASE IsHead(mm, x)
    <3>1. x = h
      BY <1>1, <2>1, <2>2, <2>4, OneHead DEF Covers
    <3> QED
      BY <2>1, <2>3, <3>1
  <2>5. CASE ~IsHead(mm, x)
    BY <2>1, <2>5 DEF IsHead
  <2> QED
    BY <2>4, <2>5
<1>4. ASSUME NEW q \in Pages, q # p, NEW x \in Extent(q, owned[q]), x \in Extent(p, owned[p])
      PROVE  FALSE
  <2>1. owned[q] # 0
    BY <1>1, <1>4 DEF Extent
  <2>2. x \in Pages /\ \E h \in Pages : Covers(mm, h, x) /\ Holds(p, h)
    BY <1>4, ClientPages
  <2>3. \E h \in Pages : Covers(mm, h, x) /\ Holds(q, h)
    BY <1>4, <2>1, ClientPages
  <2>4. PICK h \in Pages : Covers(mm, h, x) /\ Holds(p, h)
    BY <2>2
  <2>5. PICK g \in Pages : Covers(mm, g, x) /\ Holds(q, g)
    BY <2>3
  <2>6. h = g
    BY <1>1, <2>2, <2>4, <2>5 DEF Tiling
  <2>7. Partner(mm, p, h) /\ Partner(mm, q, h)
    BY <1>4, <2>1, <2>4, <2>5, <2>6 DEF Holds
  <2>8. IsHead(mm, p) /\ IsHead(mm, q)
    BY <1>2, <2>1
  <2> QED
    BY <1>1, <1>4, <2>7, <2>8, OnePartner
<1>5. \A q \in Pages : q # p => Extent(q, owned[q]) \cap Extent(p, owned[p]) = {}
  BY <1>4
<1> QED
  BY <1>3, <1>5

(* No page is lost, and none is in two blocks, whatever is split, merged   *)
(* and joined: pagestruct[] always describes a partition of the memory     *)
(* into aligned blocks.                                                    *)
THEOREM PagesTile == Spec => [](TypeOK /\ BlocksTile)
  BY MmInvariance, TileFacts, PTL

(* list1_freepage[n] holds the free blocks of size n, each once, so that   *)
(* LIST1_DEL in mm_page_free_sub always finds the buddy on its list.       *)
THEOREM FreeListsRight == Spec => []FreeLists
  BY MmInvariance, ListFacts, PTL

(* The lower halves come first in every free list, so the search of        *)
(* mm_page_alloc_cont, which stops at the first upper half, misses none.   *)
THEOREM LowerHalvesFirst == Spec => []LowersFirst
  BY MmInvariance, ListFacts, PTL

(* mm_page_free_sub leaves no two free buddies apart, and nothing that     *)
(* mm_page_alloc_sub or mm_page_alloc_cont cuts off brings them about.     *)
THEOREM BuddiesMerged == Spec => []Coalesced
  BY MmInvariance, BuddiesApart, PTL

(* The pages alloc_pages returns are as many as were asked for, belong to  *)
(* no other client and are in use until free_page gives them back.         *)
THEOREM ClientsKeepPages == Spec => []ClientsDisjoint
  BY MmInvariance, ClientsApart, PTL

(* The allocator panics only when there is no memory: the ASSERTs on the   *)
(* type of an allocated block hold, and mm_page_free refuses no block that *)
(* a client owns.                                                          *)
THEOREM AssertionsHold == Spec => []NoCorruption
<1>1. MmInv => NoCorruption
  BY DEF MmInv, NoCorruption
<1> QED
  BY <1>1, MmInvariance, PTL
=============================================================================

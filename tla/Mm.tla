-------------------------------- MODULE Mm --------------------------------
(***************************************************************************)
(* The page allocator of the VMM (core/mm.c): a buddy allocator whose free *)
(* lists keep the blocks that are the lower half of a pair in front of the *)
(* upper halves, and which can join a block to its upper neighbour to      *)
(* serve sizes between two powers of two (mm_page_alloc_cont).             *)
(*                                                                         *)
(* Every operation is one critical section of mm_lock.  A page is its      *)
(* index in pagestruct[]; virt & s and virt ^ s look at one bit of it.     *)
(***************************************************************************)
EXTENDS Integers, List1

CONSTANTS
    NUM_OF_ALLOCSIZE,   \* block sizes 2^0 .. 2^(NUM_OF_ALLOCSIZE - 1) pages
    NUM_OF_PAGES,
    Image,              \* the pages of the VMM itself, reserved for ever
    Initial,            \* pages of the image only used by initialization
    Panicmem,           \* pages reserved for panic(), freed when not needed
    Requests            \* the numbers of pages clients ask for

Pages == 0 .. NUM_OF_PAGES - 1
Sizes == 0 .. NUM_OF_ALLOCSIZE - 1
Top == NUM_OF_ALLOCSIZE - 1

ASSUME MmAssumption ==
    /\ NUM_OF_ALLOCSIZE \in Nat \ {0}
    /\ NUM_OF_PAGES \in Nat /\ NUM_OF_PAGES % 2 ^ NUM_OF_ALLOCSIZE = 0
    /\ Image \cup Initial \cup Panicmem \subseteq Pages
    /\ Requests \subseteq Nat \ {0}

VARIABLES
    mm,         \* type and allocsize of pagestruct[], and list1_freepage[]
    owned,      \* how many pages the client of the block at p asked for, or 0
    panicked,
    init_page   \* the page mm_init_global has come to

vars == <<mm, owned, panicked, init_page>>

Upper(p, n) == (p \div 2 ^ n) % 2 = 1           \* virt & s
Block(p, n) == p - (p % 2 ^ n)                   \* the block of size n around p
Buddy(p, n) == IF Upper(p, n) THEN p - 2 ^ n ELSE p + 2 ^ n     \* virt ^ s
----------------------------------------------------------------------------
(* Halve block p from size k down to n: each upper half (mm_page_free_     *)
(* 2ndhalf) is freed at the tail of its list; the allocsize field of an    *)
(* upper half was left at its size when it was merged.                     *)
Split(m, p, k, n) ==
    [type |-> [x \in Pages |->
                 IF \E j \in n .. k - 1 : x = p + 2 ^ j THEN "FREE" ELSE m.type[x]],
     allocsize |-> [m.allocsize EXCEPT ![p] = n],
     free |-> [j \in Sizes |->
                 IF j \in n .. k - 1 THEN LIST1_ADD(m.free[j], p + 2 ^ j) ELSE m.free[j]]]

\* mm_page_alloc_sub: the first block of the smallest size that suffices.
Avail(m, n) == {i \in n .. Top : m.free[i] # <<>>}
MinOf(S) == CHOOSE i \in S : \A j \in S : i <= j
SubPage(m, n) == Head(m.free[MinOf(Avail(m, n))])
mm_page_alloc_sub(m, n) ==
    LET i == MinOf(Avail(m, n))
        p == Head(m.free[i])
    IN  Split([m EXCEPT !.free[i] = LIST1_POP(@)], p, m.allocsize[p], n)

mm_page_alloc(n, want) ==
    /\ Avail(mm, n) # {}
    /\ LET p == SubPage(mm, n)
           m == mm_page_alloc_sub(mm, n)
       IN  /\ mm' = [m EXCEPT !.type[p] = "ALLOCATED"]
           /\ owned' = [owned EXCEPT ![p] = want]
           /\ panicked' = IF m.type[p] = "FREE" THEN panicked ELSE "assert"

\* mm_page_alloc_cont looks at the lower halves in front of the list only.
Scan(m, n) ==
    LET i == SelectInSeq(m.free[n], LAMBDA p : Upper(p, n))
    IN  IF i = 0 THEN Len(m.free[n]) ELSE i - 1

\* A lower half whose upper neighbour is free and large enough.
Pairs(m, n, k) ==
    {i \in 1 .. Scan(m, n) :
        LET q == m.free[n][i] + 2 ^ n
        IN  m.type[q] = "FREE" /\ m.allocsize[q] >= k}

\* Mutant: the upper neighbour is given away and stays on its list.
Unlist_Not(m, q) == m
\* The upper neighbour leaves the list of its own size.
Unlist(m, q) == [m EXCEPT !.free[m.allocsize[q]] = LIST1_DEL(@, q)]

(* A block of size n joined to its upper neighbour of size k: a pair that  *)
(* is free, or a block of the next size that is halved.                    *)
mm_page_alloc_cont(n, k, want) ==
    LET found == Pairs(mm, n, k) # {}
        p == IF found THEN mm.free[n][MinOf(Pairs(mm, n, k))] ELSE SubPage(mm, n + 1)
        q == p + 2 ^ n
        m1 == IF found THEN [mm EXCEPT !.free[n] = LIST1_DEL(@, p)]
              ELSE Split(mm_page_alloc_sub(mm, n + 1), p, n + 1, n)
        m2 == Unlist(m1, q)
        m3 == Split(m2, q, m2.allocsize[q], k)
    IN  /\ found \/ Avail(mm, n + 1) # {}
        /\ mm' = [m3 EXCEPT !.type[p] = "ALLOCATED_CONT", !.type[q] = "ALLOCATED"]
        /\ owned' = [owned EXCEPT ![p] = want]
        /\ panicked' = IF m1.type[p] = "FREE" /\ m1.type[q] = "FREE"
                       THEN panicked ELSE "assert"
----------------------------------------------------------------------------
\* May the block of size j around p be merged with its buddy?
Mergeable(m, p, j) ==
    LET q == Buddy(Block(p, j), j)
    IN  m.type[q] = "FREE" /\ m.allocsize[q] = j

\* Mutant: merging stops after one round.
MergedSize_Once(m, p, n) == IF n < Top /\ Mergeable(m, p, n) THEN n + 1 ELSE n
\* The size block p of size n grows to when it is freed.
MergedSize(m, p, n) ==
    CHOOSE k \in n .. Top : /\ \A j \in n .. k - 1 : Mergeable(m, p, j)
                            /\ k = Top \/ ~Mergeable(m, p, k)

\* Mutant: every block goes to the head of its list.
Put_Head(l, p, n) == LIST1_PUSH(l, p)
\* Lower halves go to the head of the list, upper halves to the tail.
Put(l, p, n) == IF Upper(p, n) THEN LIST1_ADD(l, p) ELSE LIST1_PUSH(l, p)

\* Mutant: the upper half of a merged pair still looks like a free block.
Swallowed_Free(m, x, S) == m.type[x]
\* The upper halves that are swallowed by a merge are not block heads.
Swallowed(m, x, S) == IF x \in S THEN "NOT_HEAD" ELSE m.type[x]

(* mm_page_free_sub for a single block: put it on its list, then merge it  *)
(* with its buddies.  A block that is put on a list and merged at once     *)
(* leaves no trace there.                                                  *)
FreeBlock(m, p) ==
    LET n == m.allocsize[p]
        k == MergedSize(m, p, n)
        b == Block(p, k)
        uppers == {Block(p, j + 1) + 2 ^ j : j \in n .. k - 1}
    IN  [type |-> [x \in Pages |-> IF x = b THEN "FREE" ELSE Swallowed(m, x, uppers)],
         allocsize |-> [x \in Pages |->
                          IF x = b THEN k
                          ELSE IF \E j \in n .. k - 1 : x = Block(p, j + 1) + 2 ^ j
                          THEN CHOOSE j \in n .. k - 1 : x = Block(p, j + 1) + 2 ^ j
                          ELSE m.allocsize[x]],
         free |-> [j \in Sizes |->
                     IF j \in n .. k - 1 THEN LIST1_DEL(m.free[j], Buddy(Block(p, j), j))
                     ELSE IF j = k THEN Put(m.free[j], b, j)
                     ELSE m.free[j]]]

\* The error mm_page_free_sub returns and mm_page_free panics with.
FreeError(m, p) ==
    CASE m.type[p] = "FREE" -> "double free"
      [] m.type[p] = "NOT_HEAD" -> "not head free"
      [] m.type[p] = "ALLOCATED_CONT" /\ Upper(p, m.allocsize[p]) -> "bad address"
      [] OTHER -> "no"

(* A block joined to its upper neighbour frees that one first, and does    *)
(* not look at the result of doing so.  A neighbour is never ALLOCATED_    *)
(* CONT itself: mm_page_alloc_cont makes it ALLOCATED.                     *)
mm_page_free_sub(m, p) ==
    LET q == p + 2 ^ m.allocsize[p]
        m1 == [m EXCEPT !.type[p] = "ALLOCATED"]
    IN  IF m.type[p] # "ALLOCATED_CONT" THEN FreeBlock(m, p)
        ELSE IF FreeError(m1, q) = "no" THEN FreeBlock(FreeBlock(m1, q), p)
        ELSE FreeBlock(m1, p)

mm_page_free(p) ==
    IF FreeError(mm, p) = "no"
    THEN mm' = mm_page_free_sub(mm, p) /\ UNCHANGED panicked
    ELSE panicked' = FreeError(mm, p) /\ UNCHANGED mm
----------------------------------------------------------------------------
\* The pages mm_init_global does not free.
Reserved == Image \cup Initial \cup Panicmem

(* mm_init_global: all pages are reserved; those outside the image and     *)
(* panicmem are freed one by one.  Nobody else runs yet.                   *)
Init ==
    /\ mm = [type |-> [p \in Pages |-> "RESERVED"],
             allocsize |-> [p \in Pages |-> 0],
             free |-> [n \in Sizes |-> <<>>]]
    /\ owned = [p \in Pages |-> 0]
    /\ panicked = "no"
    /\ init_page = 0

mm_init_global ==
    /\ init_page < NUM_OF_PAGES
    /\ IF init_page \in Reserved THEN UNCHANGED <<mm, panicked>> ELSE mm_page_free(init_page)
    /\ init_page' = init_page + 1
    /\ UNCHANGED owned

Initialized == init_page = NUM_OF_PAGES

\* Mutant: the smallest upper neighbour is taken to be enough.
get_alloc_pages_size_Short(n) ==
    LET i == MinOf({i \in Sizes : 2 ^ i >= n \/ (i > 0 /\ 2 ^ i + 2 ^ (i - 1) >= n)})
    IN  IF n > 2 ^ Top + 2 ^ (Top - 1) THEN <<-1, -1>>
        ELSE IF 2 ^ i >= n THEN <<i, -1>> ELSE <<i, 0>>
(* get_alloc_pages_size: the size of the block, and the size of the upper  *)
(* neighbour that completes it or -1.  A request too large gets <<-1, -1>>.*)
get_alloc_pages_size(n) ==
    LET fits == {i \in Sizes : 2 ^ i >= n \/ (i > 0 /\ 2 ^ i + 2 ^ (i - 1) >= n)}
        i == MinOf(fits)
        second == {j \in 0 .. i - 1 : 2 ^ j >= n - 2 ^ i}
    IN  IF fits = {} THEN <<-1, -1>>
        ELSE IF 2 ^ i >= n THEN <<i, -1>>
        ELSE <<i, MinOf(second)>>

OutOfMemory ==
    /\ panicked' = "out of memory"
    /\ UNCHANGED <<mm, owned>>

alloc_pages(n) ==
    LET i == get_alloc_pages_size(n)[1]
        j == get_alloc_pages_size(n)[2]
    IN  \/ i >= 0 /\ j < 0 /\ mm_page_alloc(i, n)
        \/ i >= 0 /\ j >= 0 /\ mm_page_alloc_cont(i, j, n)
        \/ /\ \/ i < 0
              \/ i >= 0 /\ j < 0 /\ Avail(mm, i) = {}
              \/ i >= 0 /\ j >= 0 /\ Pairs(mm, i, j) = {} /\ Avail(mm, i + 1) = {}
           /\ OutOfMemory

free_page(p) ==
    /\ owned[p] # 0
    /\ mm_page_free(p)
    /\ owned' = [owned EXCEPT ![p] = 0]

(* Reserved pages are freed page by page, each in a critical section of    *)
(* its own, and once: a page that was freed is never reserved again.       *)
free_reserved(p) ==
    /\ mm.type[p] = "RESERVED"
    /\ mm_page_free(p)
    /\ UNCHANGED owned

\* One round of the loops of mm_free_panicmem and free_pages_range.
mm_free_panicmem(p) == p \in Panicmem /\ free_reserved(p)
free_pages_range(p) == p \in Initial /\ free_reserved(p)

Next ==
    /\ panicked = "no"
    /\ \/ mm_init_global
       \/ /\ Initialized /\ UNCHANGED init_page
          /\ \/ \E n \in Requests : alloc_pages(n)
             \/ \E p \in Pages : free_page(p) \/ mm_free_panicmem(p) \/ free_pages_range(p)

Spec == Init /\ [][Next]_vars
----------------------------------------------------------------------------
TypeOK ==
    /\ mm.type \in [Pages -> {"FREE", "NOT_HEAD", "ALLOCATED", "ALLOCATED_CONT",
                              "RESERVED"}]
    /\ mm.allocsize \in [Pages -> Sizes]
    /\ mm.free \in [Sizes -> Seq(Pages)]
    /\ owned \in [Pages -> Nat]

Extent(p, len) == p .. p + len - 1
Size(p) == 2 ^ mm.allocsize[p]
Heads == {p \in Pages : mm.type[p] # "NOT_HEAD"}

(* The blocks that are not NOT_HEAD are aligned to their size, do not      *)
(* overlap, and cover all the memory: no page is lost or in two blocks.    *)
BlocksTile ==
    /\ \A p \in Heads : p % Size(p) = 0
    /\ \A x \in Pages : \E p \in Heads :
          /\ x \in Extent(p, Size(p))
          /\ \A q \in Heads \ {p} : x \notin Extent(q, Size(q))

(* Each list holds exactly the free blocks of its size, once.              *)
FreeLists ==
    \A n \in Sizes :
        /\ IsList(mm.free[n])
        /\ Elems(mm.free[n]) = {p \in Pages : mm.type[p] = "FREE" /\ mm.allocsize[p] = n}

(* The lower halves are in front of the upper halves in every free list:   *)
(* mm_page_alloc_cont stops at the first upper half (mm.c:228).            *)
LowersFirst ==
    \A n \in Sizes : \A i, j \in DOMAIN mm.free[n] :
        i < j /\ Upper(mm.free[n][i], n) => Upper(mm.free[n][j], n)

(* Two free buddies of one size are always merged, so what was split is    *)
(* whole again when it is freed.                                           *)
Coalesced ==
    \A n \in 0 .. Top - 1 : \A p \in Elems(mm.free[n]) :
        Buddy(p, n) \notin Elems(mm.free[n])

(* A client gets at least what it asked for, as contiguous pages that no   *)
(* other client has and that are neither free nor reserved.                *)
ClientsDisjoint ==
    \A p \in Pages : owned[p] # 0 =>
        /\ \A x \in Extent(p, owned[p]) :
              x \in Pages /\ mm.type[x] \in {"ALLOCATED", "ALLOCATED_CONT", "NOT_HEAD"}
        /\ \A q \in Pages : q # p => Extent(q, owned[q]) \cap Extent(p, owned[p]) = {}

(* No ASSERT on the type of an allocated block fails ("The old_type must   *)
(* be PAGE_TYPE_FREE, or the memory will be corrupted", mm.c:207), and no  *)
(* free of a block a client owns is refused.                               *)
NoCorruption == panicked \in {"no", "out of memory"}
=============================================================================

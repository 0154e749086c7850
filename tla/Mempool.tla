------------------------------ MODULE Mempool ------------------------------
(***************************************************************************)
(* The memory pools of core/mm.c (mempool_...), from which the storage,    *)
(* vpn and idman clients take the buffers they share with their protection *)
(* domain processes.  A pool is a list of blocks of whole pages; each      *)
(* block has a list of the pieces in use and a list of the free pieces.    *)
(* A pool keeps at most numkeeps blocks that are entirely free.            *)
(*                                                                         *)
(* Every operation is one critical section of the lock of the pool.  A     *)
(* piece is at an offset in its block; pieces are told apart by their      *)
(* place in the list.                                                      *)
(***************************************************************************)
EXTENDS Integers, List1

CONSTANTS
    PAGESIZE,       \* in units of the smallest piece asked for
    MEMORY,         \* bound: the memory alloc_pages takes blocks from
    numpages,       \* arguments of mempool_new, numpages from its blocksize
    numkeeps,
    Lengths,        \* the lengths clients ask for
    Keeps           \* what alloc may leave in keep, which mempool_new does not set

VARIABLES
    block,          \* the list of blocks: [p, len, alloc, free]
    keep,
    panicked

vars == <<block, keep, panicked>>

mempool_new ==
    /\ block = <<>>
    /\ keep \in Keeps
    /\ panicked = "no"

Least(S) == CHOOSE i \in S : \A j \in S : i <= j

\* The pages of new blocks: doubled until len fits.
NewLength(len) ==
    PAGESIZE * Least({numpages * 2 ^ i : i \in 0 .. len} \cap
                     {n \in 0 .. numpages * 2 ^ len : PAGESIZE * n >= len})

\* alloc_pages gives pages nobody has.
Unused(p, len) ==
    \A i \in DOMAIN block : p + len <= block[i].p \/ block[i].p + block[i].len <= p

\* The free pieces of block b that hold len, by their place in its list.
Fits(b, len) == {j \in DOMAIN b.free : b.free[j].len >= len}

(* Take len from the free piece j of a block: the piece itself if it is as *)
(* long as that, otherwise its front.  The piece moves up by len and keeps *)
(* its length.                                                             *)
Take(b, j, len) ==
    LET q == b.free[j]
    IN  IF q.len = len
        THEN [b EXCEPT !.free = RemoveAt(@, j), !.alloc = LIST1_ADD(@, q)]
        ELSE [b EXCEPT !.free[j].off = @ + len,
                       !.alloc = LIST1_ADD(@, [off |-> q.off, len |-> len])]

\* A block whose free piece j is as long as the block is not kept any more.
Unkept(k, b, j) == IF b.free[j].len = b.len THEN k - 1 ELSE k

mempool_allocmem(len) ==
    /\ len # 0
    /\ \/ \E i \in DOMAIN block :
            /\ Fits(block[i], len) # {}
            /\ \A h \in 1 .. i - 1 : Fits(block[h], len) = {}
            /\ LET j == Least(Fits(block[i], len))
               IN  /\ keep' = Unkept(keep, block[i], j)
                   /\ block' = [block EXCEPT ![i] = Take(@, j, len)]
       \/ /\ \A i \in DOMAIN block : Fits(block[i], len) = {}
          /\ \E p \in {PAGESIZE * n : n \in 0 .. MEMORY \div PAGESIZE} :
                LET l == NewLength(len)
                    b == [p |-> p, len |-> l, alloc |-> <<>>,
                          free |-> <<[off |-> 0, len |-> l]>>]
                IN  /\ p + l <= MEMORY /\ Unused(p, l)
                    /\ keep' = Unkept(keep + 1, b, 1)
                    /\ block' = LIST1_ADD(block, Take(b, 1, len))
    /\ UNCHANGED panicked
----------------------------------------------------------------------------
\* Join the piece at place j of a free list to a piece that ends where it begins.
JoinFront(f, j) ==
    LET ends == {i \in DOMAIN f : f[i].off + f[i].len = f[j].off}
        i == Least(ends)
    IN  IF ends = {} THEN f ELSE RemoveAt([f EXCEPT ![i].len = @ + f[j].len], j)

\* Its place after JoinFront; the freed piece is the last of the list, j.
FrontPlace(f, j) ==
    LET ends == {i \in DOMAIN f : f[i].off + f[i].len = f[j].off}
    IN  IF ends = {} THEN j ELSE Least(ends)

\* Join it to a piece that begins where it ends.
JoinBack(f, j) ==
    LET begins == {i \in DOMAIN f : f[j].off + f[j].len = f[i].off}
        i == Least(begins)
    IN  IF begins = {} THEN f ELSE RemoveAt([f EXCEPT ![j].len = @ + f[i].len], i)

\* The block after its piece at place j of alloc is freed.
Give(b, j) ==
    LET f == LIST1_ADD(b.free, b.alloc[j])
    IN  [b EXCEPT !.alloc = RemoveAt(@, j),
                  !.free = JoinBack(JoinFront(f, Len(f)), FrontPlace(f, Len(f)))]

(* The block the address is in (the first), and the piece that begins      *)
(* there; a block whose first free piece is as long as the block is kept   *)
(* or given back to the page allocator, after three assertions.            *)
mempool_freemem(v) ==
    LET ins == {i \in DOMAIN block : v \in block[i].p .. block[i].p + block[i].len - 1}
        i == Least(ins)
        at == IF ins = {} THEN {}
              ELSE {j \in DOMAIN block[i].alloc : block[i].p + block[i].alloc[j].off = v}
        b == Give(block[i], Least(at))
    IN  \/ /\ at = {}
           /\ panicked' = "double free"
           /\ UNCHANGED <<block, keep>>
        \/ /\ at # {}
           /\ b.free[1].len # b.len
           /\ block' = [block EXCEPT ![i] = b]
           /\ UNCHANGED <<keep, panicked>>
        \/ /\ at # {}
           /\ b.free[1].len = b.len /\ keep < numkeeps
           /\ block' = [block EXCEPT ![i] = b]
           /\ keep' = keep + 1
           /\ UNCHANGED panicked
        \/ /\ at # {}
           /\ b.free[1].len = b.len /\ keep >= numkeeps
           /\ block' = RemoveAt(block, i)
           /\ panicked' = IF b.alloc = <<>> /\ Len(b.free) = 1 THEN panicked ELSE "assert"
           /\ UNCHANGED keep

\* Clients free the pieces they were given.
Given == UNION {{block[i].p + q.off : q \in Elems(block[i].alloc)} : i \in DOMAIN block}

Next ==
    /\ panicked = "no"
    /\ \/ \E len \in Lengths : mempool_allocmem(len)
       \/ \E v \in Given : mempool_freemem(v)

Spec == mempool_new /\ [][Next]_vars
----------------------------------------------------------------------------
(* A block that mempool_freemem gives back has no piece in use and only    *)
(* the one free piece: ASSERT (LIST1_POP (p->alloc) == NULL) and the two   *)
(* assertions after it (core/mm.c:938) never fail.                         *)
GivenBackIsFree == panicked # "assert"
=============================================================================

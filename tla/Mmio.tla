-------------------------------- MODULE Mmio --------------------------------
(***************************************************************************)
(* Hooks on guest-physical address ranges (core/x86/mmio.c).  A handle is  *)
(* on one list and, sorted by address, on the list of every bucket its     *)
(* range meets.  The lists change under the exclusive lock and are walked  *)
(* under the shared one.  A virtual processor counts its nested            *)
(* mmio_lock calls and holds at most one share.  mmio_unregister only      *)
(* marks the handle when it cannot get the lock at once; a later           *)
(* mmio_unlock sweeps the marked handles.  Handlers registered as          *)
(* "unlocked" are called with the share given up.                          *)
(* Address arithmetic wraps at SPACE, which lies above every physical      *)
(* address; the last bucket takes all addresses above the others.          *)
(***************************************************************************)
EXTENDS Integers, FiniteSets, List1

CONSTANTS
    Cpus,           \* the virtual processors of the machine
    SIGN,           \* the writer bit of the lock word
    Handles,        \* chunks of memory for a struct mmio_handle
    None,           \* NULL
    BUCKET,         \* 0x10000000
    LAST,           \* 16
    SPACE,          \* 2^64
    PHYS,           \* the physical addresses are 0..PHYS - 1
    Ranges,         \* what the clients register: [gphys, len, unlocked]
    Accesses,       \* what the guest accesses: [gphys, len]
    NEST            \* bound on nested mmio_lock calls

\* What a struct mmio_handle holds.
Chunk == [gphys : 0..SPACE - 1, len : 1..SPACE, unlocked : BOOLEAN, unregistered : BOOLEAN]

ASSUME MmioAssumption ==
    /\ LAST \in Nat /\ BUCKET \in Nat \ {0} /\ PHYS \in Nat /\ SPACE \in Nat /\ NEST \in Nat
    /\ LAST * BUCKET < PHYS /\ PHYS < SPACE
    /\ \A r \in Ranges : r \in [gphys : Nat, len : Nat, unlocked : BOOLEAN]
    /\ \A a \in Accesses : a \in [gphys : Nat, len : Nat]
    /\ \A r \in Ranges \cup Accesses : r.len > 0 /\ r.gphys + r.len <= PHYS
    /\ None \notin Handles \cup Chunk

VARIABLES
    l, lk,          \* the lock word; what each processor has of the lock
    lock_count,     \* current->mmio.lock_count
    handle,         \* the list of all handles
    mmio,           \* the list of each bucket
    mem,            \* what a chunk holds; None: free
    unregister_flag,
    owned,          \* handles whose clients may still unregister them
    at, ret,        \* where a processor is, and where mmio_... returns to
    un,             \* the handle mmio_unregister or the sweep is at
    nxt,            \* the next pointer left in the chunk just freed
    acc,            \* the access in progress
    stopped         \* "panic", or "undefined": garbage was used as a pointer

lists == <<handle, mmio, mem>>
lock == <<l, lk>>
vars == <<l, lk, lock_count, handle, mmio, mem, unregister_flag, owned,
          at, ret, un, nxt, acc, stopped>>

rw == INSTANCE RwSpinlock WITH pc <- lk
ASSUME RwBits == rw!RwAssumption
----------------------------------------------------------------------------
Buckets == 0..LAST
BucketOf(a) == IF a < LAST * BUCKET THEN a \div BUCKET ELSE LAST

scan(g, len) == BucketOf(g)..BucketOf(g + len - 1)

Sub(a, b) == (a - b) % SPACE

\* rangecheck computes relative to the start of the handle; Touches is what
\* it returns, Piece the part of the access that falls into the handle.
Touches(h, g, len) ==
    LET a == Sub(g, h.gphys)
        b == Sub(g + len - 1, h.gphys)
    IN  ~h.unregistered /\ ~(h.len - 1 < a /\ a <= b)

Piece(h, g, len) ==
    LET d == h.len - 1
        a == IF d < Sub(g, h.gphys) THEN 0 ELSE Sub(g, h.gphys)
        b == IF d < Sub(g + len - 1, h.gphys) THEN d ELSE Sub(g + len - 1, h.gphys)
    IN  [lo |-> (a + h.gphys) % SPACE, len |-> b - a + 1]

\* Mutant: before the last handle, whatever its address.
AddPlace_Any(s, g) == IF s = <<>> THEN 1 ELSE Len(s)
AddPlace(s, g) ==
    LET after == {k \in DOMAIN s : mem[s[k]].gphys > g}
    IN  IF after = {} THEN Len(s) + 1 ELSE CHOOSE k \in after : \A j \in after : k <= j

add(h, r) ==
    [i \in Buckets |->
        IF i \in scan(r.gphys, r.len)
        THEN LIST1_INSERT(mmio[i], AddPlace(mmio[i], r.gphys), h) ELSE mmio[i]]

del(h) ==
    [i \in Buckets |->
        IF i \in scan(mem[h].gphys, mem[h].len) /\ h \in Elems(mmio[i])
        THEN LIST1_DEL(mmio[i], h) ELSE mmio[i]]
----------------------------------------------------------------------------
Init ==
    /\ rw!Init
    /\ lock_count = [c \in Cpus |-> 0]
    /\ handle = <<>>
    /\ mmio = [i \in Buckets |-> <<>>]
    /\ mem = [h \in Handles |-> None]
    /\ unregister_flag = FALSE
    /\ owned = {}
    /\ at = [c \in Cpus |-> "guest"]
    /\ ret = [c \in Cpus |-> "guest"]
    /\ un = [c \in Cpus |-> None]
    /\ nxt = [c \in Cpus |-> None]
    /\ acc = [c \in Cpus |-> None]
    /\ stopped = "no"

Goto(c, from, to) == at[c] = from /\ at' = [at EXCEPT ![c] = to]
Holds(c) == lk[c] = "sh"

mmio_lock(c) ==
    /\ at[c] \in {"guest", "exit"} /\ lock_count[c] < NEST
    /\ at[c] = "exit" => Holds(c)
    /\ lock_count' = [lock_count EXCEPT ![c] = @ + 1]
    /\ IF lock_count[c] = 0 THEN rw!rw_spinlock_lock_sh(c) ELSE UNCHANGED lock
    /\ at' = [at EXCEPT ![c] = "exit"]
    /\ UNCHANGED <<lists, unregister_flag, owned, ret, un, nxt, acc>>

wait_sh(c) ==
    /\ rw!rw_spinlock_wait_sh(c)
    /\ UNCHANGED <<lock_count, lists, unregister_flag, owned, at, ret, un, nxt, acc>>
----------------------------------------------------------------------------
\* do_mmio_access_memory.  The lists cannot change while the share is held,
\* so the elements still to be visited are fixed at its start; whether one of
\* them is unregistered is read when it is visited.
Visit(g, len) ==
    FlattenSeq([k \in 1..(LAST + 1) |->
        IF k - 1 \in BucketOf(g)..BucketOf(g + len - 1) THEN mmio[k - 1] ELSE <<>>])

\* A part of the access, whose handler it was put to (None: nobody's), and
\* whether it went to the memory behind.
Part(lo, len, by) ==
    IF len = 0 THEN <<>> ELSE <<[lo |-> lo, len |-> len, by |-> by, memory |-> by = None]>>

\* The handler of h has returned r: when r is 0, its part goes to the memory.
Returned(done, h, r) ==
    [k \in DOMAIN done |-> IF r = 0 /\ done[k].by = h
                           THEN [done[k] EXCEPT !.memory = TRUE] ELSE done[k]]

access(c) ==
    /\ Goto(c, "exit", "walk") /\ Holds(c)
    /\ \E a \in Accesses :
        acc' = [acc EXCEPT ![c] = [gphys |-> a.gphys, len |-> a.len, whole |-> a,
            todo |-> Visit(a.gphys, a.len), later |-> None, done |-> <<>>]]
    /\ UNCHANGED <<lock, lock_count, lists, unregister_flag, owned, ret, un, nxt>>

\* Mutant: the loop ends at a handle that starts behind the start.
Continues_Start(a) == a.todo # <<>> /\ a.len > 0 /\ mem[Head(a.todo)].gphys <= a.gphys
Continues(a) == a.todo # <<>> /\ a.len > 0 /\ mem[Head(a.todo)].gphys < a.gphys + a.len

Hit(a) == Touches(mem[Head(a.todo)], a.gphys, a.len)

Serve(a) ==
    LET h == Head(a.todo)
        p == Piece(mem[h], a.gphys, a.len)
    IN  [a EXCEPT !.todo = Tail(@), !.gphys = p.lo + p.len,
                  !.len = (a.gphys + a.len) - (p.lo + p.len),
                  !.later = IF mem[h].unlocked THEN h ELSE @,
                  !.done = @ \o Part(a.gphys, p.lo - a.gphys, None) \o Part(p.lo, p.len, h)]

walk_skip(c) ==
    /\ at[c] = "walk" /\ Continues(acc[c]) /\ ~Hit(acc[c])
    /\ acc' = [acc EXCEPT ![c].todo = Tail(@)]
    /\ UNCHANGED <<lock, lock_count, lists, unregister_flag, owned, at, ret, un, nxt>>

\* A locked handler is called at once, an unlocked one when the loop is over;
\* a second unlocked handler in one access is a panic.
walk_hit(c) ==
    /\ at[c] = "walk" /\ Continues(acc[c]) /\ Hit(acc[c])
    /\ ~(mem[Head(acc[c].todo)].unlocked /\ acc[c].later # None)
    /\ acc' = [acc EXCEPT ![c] = Serve(@)]
    /\ at' = [at EXCEPT ![c] = IF mem[Head(acc[c].todo)].unlocked THEN "walk" ELSE "handler"]
    /\ UNCHANGED <<lock, lock_count, lists, unregister_flag, owned, ret, un, nxt>>

walk_panic(c) ==
    /\ at[c] = "walk" /\ Continues(acc[c]) /\ Hit(acc[c])
    /\ mem[Head(acc[c].todo)].unlocked /\ acc[c].later # None

\* The handler that returns is the one called last.
handler_return(c) ==
    /\ Goto(c, "handler", "walk")
    /\ \E r \in {0, 1} :
        acc' = [acc EXCEPT ![c].done = Returned(@, Last(@).by, r)]
    /\ UNCHANGED <<lock, lock_count, lists, unregister_flag, owned, ret, un, nxt>>

\* The rest goes to the memory when a handler was found; without one the
\* access is left to the caller (mmio_access_memory returns 0).
walk_out(c) ==
    /\ at[c] = "walk" /\ ~Continues(acc[c])
    /\ acc' = [acc EXCEPT ![c].len = 0,
                  ![c].done = IF @ = <<>> THEN @ ELSE @ \o Part(acc[c].gphys, acc[c].len, None)]
    /\ at' = [at EXCEPT ![c] = "served"]
    /\ UNCHANGED <<lock, lock_count, lists, unregister_flag, owned, ret, un, nxt>>

\* The unlocked handler is called with the share given up; then the share is
\* taken again for mmio_unlock.
unlocked_call(c) ==
    /\ Goto(c, "served", "unlocked") /\ acc[c].later # None
    /\ rw!rw_spinlock_unlock_sh(c)
    /\ UNCHANGED <<lock_count, lists, unregister_flag, owned, ret, un, nxt, acc>>

unlocked_return(c) ==
    /\ Goto(c, "unlocked", "relocked")
    /\ \E r \in {0, 1} :
        acc' = [acc EXCEPT ![c].done = Returned(@, acc[c].later, r)]
    /\ rw!rw_spinlock_lock_sh(c)
    /\ UNCHANGED <<lock_count, lists, unregister_flag, owned, ret, un, nxt>>

access_return(c) ==
    /\ at[c] = "relocked" \/ (at[c] = "served" /\ acc[c].later = None)
    /\ Holds(c)
    /\ at' = [at EXCEPT ![c] = "exit"]
    /\ acc' = [acc EXCEPT ![c] = None]
    /\ UNCHANGED <<lock, lock_count, lists, unregister_flag, owned, ret, un, nxt>>
----------------------------------------------------------------------------
\* mmio_register waits for the exclusive lock, so its callers hold no share.
mmio_register(c) ==
    /\ at[c] \in {"guest", "unlocked"}
    /\ rw!rw_spinlock_lock_ex(c)
    /\ at' = [at EXCEPT ![c] = "register"]
    /\ ret' = [ret EXCEPT ![c] = at[c]]
    /\ UNCHANGED <<lock_count, lists, unregister_flag, owned, un, nxt, acc>>

Overlaps(r) == \E h \in Elems(handle) : Touches(mem[h], r.gphys, r.len)

registered(c) ==
    /\ at[c] = "register"
    /\ \E r \in Ranges, h \in {h \in Handles : mem[h] = None} :
        /\ ~Overlaps(r)
        /\ mem' = [mem EXCEPT ![h] = [gphys |-> r.gphys, len |-> r.len,
                       unlocked |-> r.unlocked, unregistered |-> FALSE]]
        /\ handle' = LIST1_ADD(handle, h)
        /\ mmio' = add(h, r)
        /\ owned' = owned \cup {h}
    /\ rw!rw_spinlock_unlock_ex(c)
    /\ at' = [at EXCEPT ![c] = ret[c]]
    /\ UNCHANGED <<lock_count, unregister_flag, ret, un, nxt, acc>>

\* The range overlaps a handle, or mmioclr_clear_gmap refuses it.
register_fail(c) ==
    /\ Goto(c, "register", ret[c])
    /\ rw!rw_spinlock_unlock_ex(c)
    /\ UNCHANGED <<lock_count, lists, unregister_flag, owned, ret, un, nxt, acc>>

\* Mutant: the lists are changed whoever holds the lock.
try_ex_Always(c) == l' = l /\ lk' = [lk EXCEPT ![c] = "ex"]
try_ex(c) == rw!rw_spinlock_lock_ex(c)

\* The trylock succeeds or fails; a handler holds a share, so its try fails.
mmio_unregister(c) ==
    /\ at[c] \in {"guest", "unlocked", "handler"}
    /\ \E p \in owned :
        /\ owned' = owned \ {p}
        /\ un' = [un EXCEPT ![c] = p]
    /\ ret' = [ret EXCEPT ![c] = at[c]]
    /\ UNCHANGED <<lock_count, lists, unregister_flag, nxt, acc>>
    /\ \/ try_ex(c) /\ at' = [at EXCEPT ![c] = "unreg_ex"]
       \/ ~rw!Idle /\ at' = [at EXCEPT ![c] = "unreg_mark"] /\ UNCHANGED lock

Discard(p) ==
    /\ handle' = LIST1_DEL(handle, p)
    /\ mmio' = del(p)
    /\ mem' = [mem EXCEPT ![p] = None]

unregister_now(c) ==
    /\ Goto(c, "unreg_ex", ret[c])
    /\ Discard(un[c])
    /\ un' = [un EXCEPT ![c] = None]
    /\ rw!rw_spinlock_unlock_ex(c)
    /\ UNCHANGED <<lock_count, unregister_flag, owned, ret, nxt, acc>>

unregister_mark(c) ==
    /\ Goto(c, "unreg_mark", "unreg_flag")
    /\ mem' = [mem EXCEPT ![un[c]].unregistered = TRUE]
    /\ un' = [un EXCEPT ![c] = None]
    /\ UNCHANGED <<lock, lock_count, handle, mmio, unregister_flag, owned, ret, nxt, acc>>

unregister_flagged(c) ==
    /\ Goto(c, "unreg_flag", ret[c])
    /\ unregister_flag' = TRUE
    /\ UNCHANGED <<lock, lock_count, lists, owned, ret, un, nxt, acc>>
----------------------------------------------------------------------------
Successor(s, p) == IF IndexOf(s, p) = Len(s) THEN None ELSE s[IndexOf(s, p) + 1]

\* Where mmio_unlock returns to.
After(c) == IF lock_count[c] = 0 THEN "guest" ELSE "exit"

LastUnlock(c) == lock_count[c] = 1

mmio_unlock(c) ==
    /\ Goto(c, "exit", "unlock_test") /\ Holds(c)
    /\ lock_count' = [lock_count EXCEPT ![c] = @ - 1]
    /\ IF LastUnlock(c) THEN rw!rw_spinlock_unlock_sh(c) ELSE UNCHANGED lock
    /\ UNCHANGED <<lists, unregister_flag, owned, ret, un, nxt, acc>>

unlock_test(c) ==
    /\ Goto(c, "unlock_test", IF unregister_flag THEN "unlock_try" ELSE After(c))
    /\ UNCHANGED <<lock, lock_count, lists, unregister_flag, owned, ret, un, nxt, acc>>

unlock_try(c) ==
    /\ at[c] = "unlock_try"
    /\ \/ try_ex(c) /\ at' = [at EXCEPT ![c] = "sweep_start"]
       \/ ~rw!Idle /\ at' = [at EXCEPT ![c] = After(c)] /\ UNCHANGED lock
    /\ UNCHANGED <<lock_count, lists, unregister_flag, owned, ret, un, nxt, acc>>

\* Mutant: the flag is cleared when the sweep is over.
clear_flag_Last(where) == unregister_flag' = (unregister_flag /\ where # "end")
clear_flag(where) == unregister_flag' = (unregister_flag /\ where # "start")

sweep_start(c) ==
    /\ Goto(c, "sweep_start", "sweep")
    /\ clear_flag("start")
    /\ un' = [un EXCEPT ![c] = IF handle = <<>> THEN None ELSE Head(handle)]
    /\ UNCHANGED <<lock, lock_count, lists, owned, ret, nxt, acc>>

sweep_keep(c) ==
    /\ at[c] = "sweep" /\ un[c] # None /\ ~mem[un[c]].unregistered
    /\ un' = [un EXCEPT ![c] = Successor(handle, un[c])]
    /\ UNCHANGED <<lock, lock_count, lists, unregister_flag, owned, at, ret, nxt, acc>>

sweep_free(c) ==
    /\ at[c] = "sweep" /\ un[c] # None /\ mem[un[c]].unregistered
    /\ at' = [at EXCEPT ![c] = "sweep_next"]
    /\ nxt' = [nxt EXCEPT ![c] = Successor(handle, un[c])]
    /\ Discard(un[c])
    /\ UNCHANGED <<lock, lock_count, unregister_flag, owned, ret, un, acc>>

\* LIST1_FOREACH reads p->next from the chunk just freed: the chunk is as it
\* was, or another processor has allocated and written it meanwhile.
sweep_next(c) ==
    /\ Goto(c, "sweep_next", "sweep")
    /\ un' = [un EXCEPT ![c] = nxt[c]]
    /\ nxt' = [nxt EXCEPT ![c] = None]
    /\ UNCHANGED <<lock, lock_count, lists, unregister_flag, owned, ret, acc>>

sweep_end(c) ==
    /\ Goto(c, "sweep", After(c)) /\ un[c] = None
    /\ clear_flag("end")
    /\ rw!rw_spinlock_unlock_ex(c)
    /\ UNCHANGED <<lock_count, lists, owned, ret, un, nxt, acc>>

\* Nothing can be said of what follows a panic or the use of garbage.
Stop(c) ==
    /\ stopped' = IF at[c] = "sweep_next" THEN "undefined" ELSE "panic"
    /\ walk_panic(c) \/ at[c] = "sweep_next"
    /\ UNCHANGED <<lock, lock_count, lists, unregister_flag, owned, at, ret, un, nxt, acc>>

Locking(c) ==
    mmio_lock(c) \/ wait_sh(c) \/ mmio_unlock(c) \/ unlock_test(c) \/ unlock_try(c)
Walking(c) ==
    \/ access(c) \/ walk_skip(c) \/ walk_hit(c) \/ handler_return(c)
    \/ walk_out(c) \/ unlocked_call(c) \/ unlocked_return(c) \/ access_return(c)
Changing(c) ==
    \/ mmio_register(c) \/ registered(c) \/ register_fail(c)
    \/ mmio_unregister(c) \/ unregister_now(c) \/ unregister_mark(c) \/ unregister_flagged(c)
Sweeping(c) ==
    sweep_start(c) \/ sweep_keep(c) \/ sweep_free(c) \/ sweep_next(c) \/ sweep_end(c)

Next ==
    \/ /\ stopped = "no"
       /\ \E c \in Cpus :
            \/ (Locking(c) \/ Walking(c) \/ Changing(c) \/ Sweeping(c)) /\ UNCHANGED stopped
            \/ Stop(c)
    \/ stopped # "no" /\ UNCHANGED vars

Spec == Init /\ [][Next]_vars
----------------------------------------------------------------------------
Where == {"guest", "exit", "walk", "handler", "served", "unlocked", "relocked", "register",
          "unreg_ex", "unreg_mark", "unreg_flag", "unlock_test", "unlock_try", "sweep_start",
          "sweep", "sweep_next"}

TypeOK ==
    /\ rw!LockWord
    /\ lock_count \in [Cpus -> 0..NEST]
    /\ handle \in Seq(Handles) /\ mmio \in [Buckets -> Seq(Handles)]
    /\ mem \in [Handles -> Chunk \cup {None}]
    /\ unregister_flag \in BOOLEAN /\ owned \subseteq Handles
    /\ at \in [Cpus -> Where] /\ ret \in [Cpus -> {"guest", "unlocked", "handler"}]
    /\ un \in [Cpus -> Handles \cup {None}] /\ nxt \in [Cpus -> Handles \cup {None}]
    /\ stopped \in {"no", "panic", "undefined"}

(* The bucket lists are an index of the handle list: each handle is on the *)
(* lists of the buckets its range meets and on no other, and each list is  *)
(* sorted by address, which the walks' early exit relies on.               *)
BucketsIndexHandles ==
    /\ IsList(handle) /\ Elems(handle) = {h \in Handles : mem[h] # None}
    /\ \A i \in Buckets :
        /\ IsList(mmio[i])
        /\ Elems(mmio[i]) = {h \in Elems(handle) :
            i \in BucketOf(mem[h].gphys)..BucketOf(mem[h].gphys + mem[h].len - 1)}
        /\ IsSorted(mmio[i], LAMBDA g, h : mem[g].gphys <= mem[h].gphys)

Bytes(g, len) == g..(g + len - 1)
Live == {h \in Elems(handle) : ~mem[h].unregistered}

Walkers ==
    {c \in Cpus : \/ at[c] \in {"walk", "handler"}
                  \/ at[c] \in {"unreg_mark", "unreg_flag"} /\ ret[c] = "handler"}

(* A handle that a walk has still to visit, or whose handler is running    *)
(* under the shared lock, is not freed.                                    *)
WalksSeeNoFreed ==
    \A c \in Walkers :
        /\ \A h \in Elems(acc[c].todo) : mem[h] # None
        /\ \A k \in DOMAIN acc[c].done : acc[c].done[k].by # None => mem[acc[c].done[k].by] # None

(* A marked handle is never forgotten: the flag is set, or the processor   *)
(* that marked it is about to set it, or a sweep is still to come to it.   *)
MarkedIsSwept ==
    \A h \in Elems(handle) : mem[h].unregistered =>
        \/ unregister_flag
        \/ \E c \in Cpus : at[c] = "unreg_flag"
        \/ \E c \in Cpus :
            LET p == IF at[c] = "sweep" THEN un[c] ELSE nxt[c]
            IN  at[c] \in {"sweep", "sweep_next"} /\ p # None /\ IndexOf(handle, p) <= IndexOf(handle, h)

(* The bytes that the access of c has had read from or written to the      *)
(* memory, or that its caller is about to: the parts between the handlers, *)
(* those whose handler returned 0, and all of the access when no handler   *)
(* took it.                                                                *)
ToMemory(c) ==
    LET a == acc[c]
    IN  (UNION {Bytes(a.done[k].lo, a.done[k].len) :
                    k \in {k \in DOMAIN a.done : a.done[k].memory}})
        \cup (IF at[c] = "served" /\ a.done = <<>>
              THEN Bytes(a.whole.gphys, a.whole.len) ELSE {})

\* The bytes that were put to the handler of h.
PutTo(c, h) ==
    UNION {Bytes(acc[c].done[k].lo, acc[c].done[k].len) :
               k \in {k \in DOMAIN acc[c].done : acc[c].done[k].by = h}}

(* The device is asked first: while the share is held, no byte of a        *)
(* registered range has gone to the memory behind it, or is left to the    *)
(* caller, unless the handler of that range was called for it and returned *)
(* 0 (mmio.c:159), and none was put to the handler of another range.       *)
DeviceAskedFirst ==
    \A c \in Cpus : c \in Walkers \/ at[c] = "served" =>
        \A h \in Live :
            LET bytes == Bytes(mem[h].gphys, mem[h].len)
            IN  /\ bytes \cap ToMemory(c) \subseteq PutTo(c, h)
                /\ \A g \in Handles \ {h} : bytes \cap PutTo(c, g) = {}
=============================================================================

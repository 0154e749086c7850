---------------------------- MODULE TimerProofs ----------------------------
(***************************************************************************)
(* Proofs about the timers of Timer, for every number of timers and        *)
(* clients, all intervals, every skew of the clocks and every bound on the *)
(* time.                                                                   *)
(***************************************************************************)
EXTENDS Timer, CoreTheorems

on == Elems(list1_timer_on)
off == Elems(list1_timer_off)
free == Elems(list1_timer_free)

(* The three lists share out the timers; the enable flag marks the first.  *)
ListInv ==
    /\ IsList(list1_timer_on) /\ IsList(list1_timer_off) /\ IsList(list1_timer_free)
    /\ on \cap off = {} /\ on \cap free = {} /\ off \cap free = {}
    /\ on \cup off \cup free = Timers
    /\ \A p \in Timers : enable[p] <=> p \in on

(* A timer that is not free and its client know each other.                *)
OwnerInv ==
    /\ \A p \in on \cup off : client[p] \in Clients /\ handle[client[p]] = p
    /\ \A x \in Clients : handle[x] # NULL =>
          client[handle[x]] = x /\ handle[x] \notin free

\* When a timer is due.
Deadlines == [p \in Timers |-> settime[p] + interval[p]]

\* The timers that were set by a clock behind.
Behind == {p \in Timers : behind[p]}

(* The armed timers are sorted by their deadlines, but for the ones that   *)
(* were set by a clock behind, which may be too far back.                  *)
OrderInv == SortedBut(list1_timer_on, Deadlines, Behind)

(* The timer thread was started before it is anywhere, and between the     *)
(* unlock and the end of the callback it knows whom to call.               *)
ThreadInv ==
    /\ pc # "none" => timer_thread_run
    /\ pc \in {"unlocked", "callback"} => callback \in Timers \X Clients

TimerInv ==
    TypeOK /\ ListInv /\ OwnerInv /\ OrderInv /\ ThreadInv /\ CalledOncePerArming
----------------------------------------------------------------------------
\* NULL is neither a timer nor a client, and times are numbers.
LEMMA Constants ==
    /\ NULL \notin Timers /\ NULL \notin Clients
    /\ MaxTime \in Nat /\ SKEW \in Nat /\ \A u \in Intervals : u \in Nat
    /\ WRAP \in Nat /\ WRAP > 2 * MaxTime
  BY TimerAssumption

\* timer_init_global puts every timer on the free list.
LEMMA TimerInitInv == Init => TimerInv
<1> SUFFICES ASSUME Init PROVE TimerInv
  OBVIOUS
<1> DEFINE n == Cardinality(Timers)
           l == list1_timer_free
<1>1. n \in Nat
  BY TimerAssumption, FS_CardinalityType
<1>2. /\ l \in [1 .. n -> Timers]
      /\ \A i, j \in 1 .. n : i # j => l[i] # l[j]
  BY DEF Init, SetToSeqs
<1>3. l \in Seq(Timers) /\ IsList(l)
  BY <1>1, <1>2, SeqDef DEF IsList, IsInjective
<1>4. Range(l) = Timers
  <2>1. l \in Injection(1 .. n, Timers)
    BY <1>2 DEF Injection, IsInjective
  <2>2. Cardinality(1 .. n) = n
    BY <1>1, FS_Interval
  <2>3. l \in Surjection(1 .. n, Timers)
    BY <2>1, <2>2, TimerAssumption, FS_Injection
  <2> QED
    BY <1>2, <2>3 DEF Surjection, Range
<1>5. /\ list1_timer_on = <<>> /\ list1_timer_off = <<>>
      /\ <<>> \in Seq(Timers) /\ IsList(<<>>) /\ Elems(<<>>) = {} /\ Len(<<>>) = 0
  BY EmptySeq DEF Init, IsList, IsInjective, Elems, Range
<1>6. TypeOK
  <2>1. \A s \in {list1_timer_on, list1_timer_off, list1_timer_free} : s \in Seq(Timers)
    BY <1>3, <1>5
  <2>2. 0 \in 0 .. MaxTime
    BY Constants
  <2>3. callback \in (Timers \cup {NULL}) \X (Clients \cup {NULL})
    BY DEF Init
  <2>4. /\ enable \in [Timers -> BOOLEAN]
        /\ settime \in [Timers -> 0 .. MaxTime]
        /\ interval \in [Timers -> 0 .. MaxTime]
        /\ client \in [Timers -> Clients \cup {NULL}]
        /\ handle \in [Clients -> Timers \cup {NULL}]
        /\ owed \in [Clients -> Int]
        /\ behind \in [Timers -> BOOLEAN]
    BY <2>2 DEF Init
  <2>5. /\ timer_lock \in {"free", "leaked"}
        /\ timer_thread_run \in BOOLEAN
        /\ time \in 0 .. MaxTime
        /\ pc \in {"none", "loop", "unlocked", "callback"}
    BY <2>2 DEF Init
  <2> QED
    BY <2>1, <2>2, <2>3, <2>4, <2>5 DEF TypeOK
<1>7. ListInv /\ OrderInv
  BY <1>3, <1>4, <1>5 DEF Init, ListInv, OrderInv, SortedBut, on, off, free, Elems
<1>8. OwnerInv /\ ThreadInv /\ CalledOncePerArming
  BY <1>5 DEF Init, OwnerInv, ThreadInv, CalledOncePerArming, on, off
<1> QED
  BY <1>6, <1>7, <1>8 DEF TimerInv
----------------------------------------------------------------------------
\* A difference of two times wraps when it is negative.
LEMMA Wraps ==
    ASSUME NEW w \in Nat, NEW n \in Int, n < w, -w <= n, w > 0
    PROVE  n % w = IF n >= 0 THEN n ELSE n + w
  OBVIOUS

\* For a clock that is not behind the time a timer was set at, what it has to
\* say about the timer is a matter of the deadline; for one that is, the timer
\* seems to have expired.
LEMMA DeadlineFacts ==
    ASSUME TypeOK, NEW t \in get_time
    PROVE  /\ Deadlines \in [Timers -> Nat]
           /\ t \in Nat /\ t <= time
           /\ \A d \in Timers : Deadlines[d] = settime[d] + interval[d]
           /\ \A d \in Timers : settime[d] <= t => (Expired(d, t) <=> Deadlines[d] <= t)
           /\ \A d \in Timers, u \in Nat :
                 settime[d] <= t => (Later(d, t, u) <=> Deadlines[d] > t + u)
           /\ \A d \in Timers : ~(settime[d] <= t) => Expired(d, t)
           /\ \A d \in Timers, u \in Nat : Later(d, t, u) => settime[d] <= t
<1>1. /\ time \in Nat /\ time <= MaxTime /\ t \in Nat /\ t <= time
      /\ \A d \in Timers : /\ settime[d] \in Nat /\ interval[d] \in Nat
                            /\ settime[d] <= MaxTime /\ interval[d] <= MaxTime
  BY Constants DEF TypeOK, get_time
<1>2. ASSUME NEW d \in Timers
      PROVE  Elapsed(d, t) = IF settime[d] <= t THEN t - settime[d] ELSE t - settime[d] + WRAP
  <2>1. t - settime[d] \in Int /\ t - settime[d] < WRAP /\ -WRAP <= t - settime[d] /\ WRAP > 0
    BY <1>1, Constants
  <2>2. PICK n \in Int : n = t - settime[d]
    BY <2>1
  <2>3. n % WRAP = IF n >= 0 THEN n ELSE n + WRAP
    BY <2>1, <2>2, Constants, Wraps
  <2> QED
    BY <1>1, <2>2, <2>3 DEF Elapsed
<1>3. \A d \in Timers : ~(settime[d] <= t) => Elapsed(d, t) >= interval[d] /\ Elapsed(d, t) \in Nat
  BY <1>1, <1>2, Constants
<1> QED
  BY <1>1, <1>2, <1>3 DEF Deadlines, Expired, Later

\* The place a timer set at t to u gets: no timer before it is due later, the one
\* that was there is.
LEMMA InsertPlaceFacts ==
    ASSUME NEW l \in Seq(Timers), NEW t, NEW u
    PROVE  /\ InsertPlace(l, t, u) \in 1 .. Len(l) + 1
           /\ \A j \in 1 .. InsertPlace(l, t, u) - 1 : ~Later(l[j], t, u)
           /\ InsertPlace(l, t, u) \in 1 .. Len(l) => Later(l[InsertPlace(l, t, u)], t, u)
<1> DEFINE I == {i \in 1 .. Len(l) : Later(l[i], t, u)}
           k == InsertPlace(l, t, u)
<1>1. Len(l) \in Nat
  BY LenProperties
<1>2. CASE I = {}
  <2>1. k = Len(l) + 1
    BY <1>2 DEF InsertPlace, SelectInSeq
  <2> HIDE DEF k
  <2> QED
    BY <1>1, <1>2, <2>1 DEF k
<1>3. CASE I # {}
  <2>1. \E x \in I : \A y \in I : x <= y
    <3>1. I \subseteq Nat /\ I # {}
      BY <1>1, <1>3
    <3> HIDE DEF I
    <3> QED
      BY <3>1, LeastExists
  <2>2. Min(I) \in I /\ \A y \in I : Min(I) <= y
    BY <2>1 DEF Min
  <2>3. k = Min(I)
    BY <1>1, <1>3, <2>2 DEF InsertPlace, SelectInSeq
  <2>4. k \in I /\ \A y \in I : k <= y
    BY <2>2, <2>3
  <2> HIDE DEF k
  <2>5. \A j \in 1 .. k - 1 : ~Later(l[j], t, u)
    BY <1>1, <2>4
  <2> QED
    BY <1>1, <2>4, <2>5 DEF k
<1> QED
  BY <1>2, <1>3
----------------------------------------------------------------------------
\* What the invariant says about a timer that a client holds, and about a
\* list.
LEMMA HeldFacts ==
    ASSUME TimerInv
    PROVE  /\ list1_timer_on \in Seq(Timers) /\ list1_timer_off \in Seq(Timers)
           /\ list1_timer_free \in Seq(Timers)
           /\ on \subseteq Timers /\ off \subseteq Timers /\ free \subseteq Timers
           /\ \A x \in Clients : handle[x] # NULL =>
                 /\ handle[x] \in Timers /\ handle[x] \in on \cup off
                 /\ client[handle[x]] = x
                 /\ \A y \in Clients : handle[y] = handle[x] => y = x
           /\ \A p \in on \cup off : /\ p \in Timers /\ p # NULL
                                     /\ client[p] \in Clients /\ handle[client[p]] = p
<1>1. /\ list1_timer_on \in Seq(Timers) /\ list1_timer_off \in Seq(Timers)
      /\ list1_timer_free \in Seq(Timers)
  BY DEF TimerInv, TypeOK
<1>2. on \subseteq Timers /\ off \subseteq Timers /\ free \subseteq Timers
  BY <1>1, ElemsFacts DEF on, off, free
<1>3. \A x \in Clients : handle[x] \in Timers \cup {NULL}
  BY DEF TimerInv, TypeOK
<1> QED
  BY <1>1, <1>2, <1>3, Constants DEF TimerInv, ListInv, OwnerInv

\* Time passes.
LEMMA TickInv == ASSUME TimerInv, Tick PROVE TimerInv'
<1>1. TypeOK'
  <2>1. time' \in 0 .. MaxTime
    BY Constants DEF TimerInv, TypeOK, Tick
  <2> QED
    BY <2>1 DEF TimerInv, TypeOK, Tick, lists, thread
<1>2. ListInv' /\ OrderInv'
  BY DEF TimerInv, ListInv, OrderInv, Deadlines, SortedBut, Behind, Tick, lists, on, off, free
<1>3. OwnerInv' /\ ThreadInv' /\ CalledOncePerArming'
  BY DEF TimerInv, OwnerInv, ThreadInv, CalledOncePerArming, Tick, lists, thread, on, off, free
<1> QED
  BY <1>1, <1>2, <1>3 DEF TimerInv

\* The lock is leaked, or the head of the free list becomes the idle timer of
\* x.
LEMMA NewInv ==
    ASSUME TimerInv, NEW x \in Clients, timer_new(x)
    PROVE  TimerInv'
<1>1. CASE list1_timer_free = <<>>
  <2>0. /\ timer_lock' = "leaked"
        /\ UNCHANGED <<lists, enable, settime, interval, client, timer_thread_run,
                       time, handle, thread, owed, behind>>
    BY <1>1 DEF timer_new, lists
  <2>1. TypeOK'
    BY <2>0 DEF TimerInv, TypeOK, lists, thread
  <2>2. ListInv' /\ OrderInv'
    BY <2>0 DEF TimerInv, ListInv, OrderInv, Deadlines, SortedBut, Behind, lists, on, off, free
  <2>3. OwnerInv' /\ ThreadInv' /\ CalledOncePerArming'
    BY <2>0 DEF TimerInv, OwnerInv, ThreadInv, CalledOncePerArming, lists, thread, on, off, free
  <2> QED
    BY <2>1, <2>2, <2>3 DEF TimerInv
<1>2. CASE list1_timer_free # <<>>
  <2> DEFINE p == Head(list1_timer_free)
  <2>1. /\ handle[x] = NULL
        /\ enable' = [enable EXCEPT ![p] = FALSE]
        /\ client' = [client EXCEPT ![p] = x]
        /\ handle' = [handle EXCEPT ![x] = p]
        /\ list1_timer_off' = LIST1_ADD(list1_timer_off, p)
        /\ list1_timer_free' = LIST1_POP(list1_timer_free)
        /\ UNCHANGED <<list1_timer_on, settime, interval, timer_lock, timer_thread_run,
                       time, pc, callback, owed, behind>>
    BY <1>2 DEF timer_new, thread
  <2>2. /\ p \in free /\ LIST1_POP(list1_timer_free) \in Seq(Timers)
        /\ IsList(list1_timer_free') /\ free' = free \ {p}
    BY <1>2, <2>1, HeldFacts, PopFacts DEF TimerInv, ListInv, free
  <2> HIDE DEF p
  <2>3. p \in Timers /\ p \notin on /\ p \notin off /\ p # NULL
    BY <2>2, HeldFacts, Constants DEF TimerInv, ListInv
  <2>4. /\ list1_timer_off' \in Seq(Timers) /\ IsList(list1_timer_off')
        /\ off' = off \cup {p} /\ on' = on
    BY <2>1, <2>3, HeldFacts, AddFacts DEF TimerInv, ListInv, on, off
  <2>5. /\ enable \in [Timers -> BOOLEAN] /\ client \in [Timers -> Clients \cup {NULL}]
        /\ handle \in [Clients -> Timers \cup {NULL}]
    BY DEF TimerInv, TypeOK
  <2>6. TypeOK'
    <3>1. /\ enable' \in [Timers -> BOOLEAN] /\ client' \in [Timers -> Clients \cup {NULL}]
          /\ handle' \in [Clients -> Timers \cup {NULL}]
      BY <2>1, <2>3, <2>5
    <3>2. \A l \in {list1_timer_on, list1_timer_off, list1_timer_free}' : l \in Seq(Timers)
      BY <2>1, <2>2, <2>4, HeldFacts
    <3> QED
      BY <2>1, <3>1, <3>2 DEF TimerInv, TypeOK
  <2>7. ListInv'
    <3>1. \A q \in Timers : enable'[q] <=> q \in on'
      BY <2>1, <2>3, <2>4, <2>5 DEF TimerInv, ListInv
    <3>2. IsList(list1_timer_on')
      BY <2>1 DEF TimerInv, ListInv
    <3>3. /\ on' \cap off' = {} /\ on' \cap free' = {} /\ off' \cap free' = {}
          /\ on' \cup off' \cup free' = Timers
      BY <2>2, <2>3, <2>4 DEF TimerInv, ListInv
    <3> QED
      BY <2>2, <2>4, <3>1, <3>2, <3>3 DEF ListInv
  <2>8. OwnerInv'
    <3>1. ASSUME NEW q \in on' \cup off'
          PROVE  client'[q] \in Clients /\ handle'[client'[q]] = q
      BY <2>1, <2>3, <2>4, <2>5, HeldFacts
    <3>2. ASSUME NEW y \in Clients, handle'[y] # NULL
          PROVE  client'[handle'[y]] = y /\ handle'[y] \notin free'
      <4>1. CASE y = x
        BY <2>1, <2>2, <2>3, <2>5, <4>1
      <4>2. CASE y # x
        <5>1. handle'[y] = handle[y] /\ handle[y] \in Timers /\ client[handle[y]] = y /\ handle[y] \notin free
          BY <2>1, <2>5, <3>2, <4>2, HeldFacts DEF TimerInv, OwnerInv
        <5> QED
          BY <2>1, <2>2, <2>5, <5>1
      <4> QED
        BY <4>1, <4>2
    <3> QED
      BY <3>1, <3>2 DEF OwnerInv
  <2>9. OrderInv' /\ ThreadInv'
    BY <2>1 DEF TimerInv, OrderInv, ThreadInv, Deadlines, SortedBut, Behind
  <2>10. CalledOncePerArming'
    <3> SUFFICES ASSUME NEW y \in Clients
                 PROVE  (handle'[y] # NULL /\ enable'[handle'[y]])
                            <=> (handle[y] # NULL /\ enable[handle[y]])
      BY <2>1 DEF TimerInv, CalledOncePerArming
    <3>1. CASE y = x
      BY <2>1, <2>3, <2>5, <3>1
    <3>2. CASE y # x
      <4>1. handle'[y] = handle[y] /\ (handle[y] # NULL => handle[y] \in Timers /\ handle[y] # p)
        BY <2>1, <2>3, <2>5, <3>2, HeldFacts
      <4> QED
        BY <2>1, <2>5, <4>1
    <3> QED
      BY <3>1, <3>2
  <2> QED
    BY <2>6, <2>7, <2>8, <2>9, <2>10 DEF TimerInv
<1> QED
  BY <1>1, <1>2
----------------------------------------------------------------------------
\* timer_set takes an idle or armed timer to its place among the armed ones.
LEMMA SetLists ==
    ASSUME TimerInv, NEW p \in on \cup off, NEW u \in Intervals, NEW t \in get_time,
           timer_set(p, t, u)
    PROVE  /\ list1_timer_on' \in Seq(Timers) /\ IsList(list1_timer_on')
           /\ list1_timer_off' \in Seq(Timers) /\ IsList(list1_timer_off')
           /\ on' = on \cup {p} /\ off' = off \ {p}
           /\ OrderInv'
<1> DEFINE l == IF enable[p] THEN LIST1_DEL(list1_timer_on, p) ELSE list1_timer_on
           i == InsertPlace(l, t, u)
           B == Behind'
<1>1. /\ list1_timer_on' = LIST1_INSERT(l, i, p)
      /\ list1_timer_off' = IF enable[p] THEN list1_timer_off
                            ELSE LIST1_DEL(list1_timer_off, p)
      /\ settime' = [settime EXCEPT ![p] = t]
      /\ interval' = [interval EXCEPT ![p] = u]
      /\ behind' = [behind EXCEPT ![p] = \E d \in Elems(l) : settime[d] > t]
  BY DEF timer_set, stamp
<1>2. p \in Timers /\ u \in Nat /\ (enable[p] <=> p \in on) /\ (~enable[p] => p \in off)
  BY HeldFacts, Constants DEF TimerInv, ListInv
<1>3. l \in Seq(Timers) /\ IsList(l) /\ Elems(l) = on \ {p} /\ SortedBut(l, Deadlines, Behind)
  <2>1. CASE enable[p]
    <3>1. LIST1_DEL(list1_timer_on, p) = l /\ p \in Elems(list1_timer_on)
      BY <1>2, <2>1 DEF on
    <3> HIDE DEF l
    <3> QED
      BY <3>1, HeldFacts, DelFacts, DelSortedBut DEF TimerInv, ListInv, OrderInv, on
  <2>2. CASE ~enable[p]
    BY <1>2, <2>2, HeldFacts DEF TimerInv, ListInv, OrderInv, on
  <2> QED
    BY <2>1, <2>2
<1> HIDE DEF l
<1>4. /\ i \in 1 .. Len(l) + 1
      /\ \A j \in 1 .. i - 1 : ~Later(l[j], t, u)
      /\ i \in 1 .. Len(l) => Later(l[i], t, u)
  BY <1>3, InsertPlaceFacts
<1> HIDE DEF i
<1>5. /\ list1_timer_on' \in Seq(Timers) /\ IsList(list1_timer_on')
      /\ on' = on \cup {p}
  BY <1>1, <1>2, <1>3, <1>4, InsertFacts DEF on
<1>6. /\ list1_timer_off' \in Seq(Timers) /\ IsList(list1_timer_off')
      /\ off' = off \ {p}
  <2>1. CASE enable[p]
    BY <1>1, <1>2, <2>1, HeldFacts DEF TimerInv, ListInv, off
  <2>2. CASE ~enable[p]
    <3>1. list1_timer_off' = LIST1_DEL(list1_timer_off, p) /\ p \in Elems(list1_timer_off)
      BY <1>1, <1>2, <2>2 DEF off
    <3> QED
      BY <3>1, HeldFacts, DelFacts DEF TimerInv, ListInv, off
  <2> QED
    BY <2>1, <2>2
<1>7. OrderInv'
  <2> DEFINE k == Deadlines'
  <2>1. /\ Len(l) \in Nat
        /\ \A j \in 1 .. Len(l) : l[j] \in Timers /\ l[j] # p /\ l[j] \in Elems(l)
    BY <1>3, ElemsFacts, LenProperties
  <2>2. /\ settime \in [Timers -> 0 .. MaxTime] /\ interval \in [Timers -> 0 .. MaxTime]
        /\ behind \in [Timers -> BOOLEAN] /\ TypeOK
    BY DEF TimerInv, TypeOK
  <2>3. k = [q \in Timers |-> settime'[q] + interval'[q]]
    BY DEF Deadlines
  <2>4. k[p] = t + u /\ \A q \in Timers : q # p => k[q] = Deadlines[q]
    BY <1>1, <1>2, <2>2, <2>3 DEF Deadlines
  <2>5. k \in [Timers -> Int]
    <3>1. \A q \in Timers : k[q] \in Nat
      BY <1>2, <2>2, <2>4, DeadlineFacts
    <3> QED
      BY <2>3, <3>1
  <2>6. /\ \A q \in Timers : q # p => (q \in B <=> q \in Behind)
        /\ p \in B <=> \E d \in Elems(l) : settime[d] > t
    BY <1>1, <1>2, <2>2 DEF Behind
  <2> HIDE DEF k, B
  <2>7. SortedBut(l, k, B)
    BY <1>3, <2>1, <2>4, <2>6 DEF SortedBut
  <2>8. \A j \in 1 .. i - 1 : k[l[j]] <= k[p] \/ p \in B
    <3> SUFFICES ASSUME NEW j \in 1 .. i - 1 PROVE k[l[j]] <= k[p] \/ p \in B
      OBVIOUS
    <3>1. j \in 1 .. Len(l) /\ ~Later(l[j], t, u)
      BY <1>4, <2>1
    <3>2. l[j] \in Timers /\ k[l[j]] = Deadlines[l[j]] /\ l[j] \in Elems(l)
      BY <2>1, <2>4, <3>1
    <3>3. CASE settime[l[j]] <= t
      <4>1. ~(Deadlines[l[j]] > t + u)
        BY <1>2, <2>2, <3>1, <3>2, <3>3, DeadlineFacts
      <4> QED
        BY <1>2, <2>2, <2>4, <3>2, <4>1, DeadlineFacts
    <3>4. CASE ~(settime[l[j]] <= t)
      <4>1. settime[l[j]] \in Nat /\ t \in Nat
        BY <2>2, <3>2, Constants, DeadlineFacts
      <4>2. settime[l[j]] > t
        BY <3>4, <4>1
      <4> QED
        BY <2>6, <3>2, <4>2
    <3> QED
      BY <3>3, <3>4
  <2>9. i \in 1 .. Len(l) => k[p] <= k[l[i]]
    <3> SUFFICES ASSUME i \in 1 .. Len(l) PROVE k[p] <= k[l[i]]
      OBVIOUS
    <3>1. Later(l[i], t, u) /\ l[i] \in Timers /\ k[l[i]] = Deadlines[l[i]]
      BY <1>4, <2>1, <2>4
    <3>2. settime[l[i]] <= t
      BY <1>2, <2>2, <3>1, DeadlineFacts
    <3>3. /\ Deadlines[l[i]] > t + u
          /\ t \in Nat /\ Deadlines[l[i]] \in Nat
      BY <1>2, <2>2, <3>1, <3>2, DeadlineFacts
    <3> QED
      BY <1>2, <2>4, <3>1, <3>3
  <2>10. SortedBut(LIST1_INSERT(l, i, p), k, B)
    BY <1>2, <1>3, <1>4, <2>5, <2>7, <2>8, <2>9, InsertSortedBut
  <2> QED
    BY <1>1, <2>10 DEF OrderInv, k, B
<1> QED
  BY <1>5, <1>6, <1>7

\* timer_set, called by a client or by the callback: x, who holds p, is owed
\* one call for it from now on.
LEMMA SetInv ==
    ASSUME TimerInv, NEW p \in on \cup off, NEW u \in Intervals, NEW t \in get_time,
           timer_set(p, t, u),
           pc' \in {"none", "loop", "unlocked", "callback"},
           pc' = "unlocked" <=> pc = "unlocked",
           pc' = "callback" => pc = "callback"
    PROVE  TimerInv'
<1> DEFINE x == client[p]
<1>1. /\ time + u + SKEW <= MaxTime
      /\ enable' = [enable EXCEPT ![p] = TRUE]
      /\ settime' = [settime EXCEPT ![p] = t]
      /\ interval' = [interval EXCEPT ![p] = u]
      /\ timer_thread_run' = TRUE
      /\ owed' = [owed EXCEPT ![x] = IF enable[p] THEN @ ELSE @ + 1]
      /\ \E b \in BOOLEAN : behind' = [behind EXCEPT ![p] = b]
      /\ UNCHANGED <<list1_timer_free, client, timer_lock, time, handle, callback>>
  BY DEF timer_set, stamp
<1>2. p \in Timers /\ p # NULL /\ x \in Clients /\ handle[x] = p
  BY HeldFacts
<1> HIDE DEF x
<1>3. /\ list1_timer_on' \in Seq(Timers) /\ IsList(list1_timer_on')
      /\ list1_timer_off' \in Seq(Timers) /\ IsList(list1_timer_off')
      /\ on' = on \cup {p} /\ off' = off \ {p} /\ free' = free
      /\ OrderInv'
  BY <1>1, SetLists DEF free
<1>4. TypeOK /\ ListInv /\ OwnerInv /\ ThreadInv /\ CalledOncePerArming
  BY DEF TimerInv
<1>5. /\ enable \in [Timers -> BOOLEAN] /\ owed \in [Clients -> Int]
      /\ settime \in [Timers -> 0 .. MaxTime] /\ time \in 0 .. MaxTime
      /\ interval \in [Timers -> 0 .. MaxTime] /\ behind \in [Timers -> BOOLEAN]
      /\ MaxTime \in Nat /\ SKEW \in Nat /\ u \in Nat /\ t \in 0 .. time
  BY <1>4, Constants DEF TypeOK, get_time
<1>6. TypeOK'
  <2>1. /\ enable' \in [Timers -> BOOLEAN] /\ settime' \in [Timers -> 0 .. MaxTime]
        /\ interval' \in [Timers -> 0 .. MaxTime] /\ behind' \in [Timers -> BOOLEAN]
    BY <1>1, <1>2, <1>5
  <2>2. owed' \in [Clients -> Int]
    BY <1>1, <1>2, <1>5
  <2>3. \A l \in {list1_timer_on, list1_timer_off, list1_timer_free}' : l \in Seq(Timers)
    BY <1>1, <1>3, HeldFacts
  <2> QED
    BY <1>1, <1>4, <2>1, <2>2, <2>3 DEF TypeOK
<1>7. ListInv'
  <2>1. \A q \in Timers : enable'[q] <=> q \in on'
    BY <1>1, <1>2, <1>3, <1>4, <1>5 DEF ListInv
  <2>2. /\ on' \cap off' = {} /\ on' \cap free' = {} /\ off' \cap free' = {}
        /\ on' \cup off' \cup free' = Timers
    BY <1>3, <1>4 DEF ListInv
  <2> QED
    BY <1>1, <1>3, <1>4, <2>1, <2>2 DEF ListInv
<1>8. OwnerInv' /\ ThreadInv'
  BY <1>1, <1>3, <1>4 DEF OwnerInv, ThreadInv
<1>9. CalledOncePerArming'
  <2> SUFFICES ASSUME NEW y \in Clients
               PROVE  owed'[y] = (IF handle'[y] # NULL /\ enable'[handle'[y]] THEN 1 ELSE 0)
                                 + (IF pc' = "unlocked" /\ callback'[2] = y THEN 1 ELSE 0)
    BY DEF CalledOncePerArming
  <2>1. owed[y] = (IF handle[y] # NULL /\ enable[handle[y]] THEN 1 ELSE 0)
                  + (IF pc = "unlocked" /\ callback[2] = y THEN 1 ELSE 0)
    BY <1>4 DEF CalledOncePerArming
  <2>2. CASE y = x
    <3>1. enable'[p] = TRUE /\ handle[y] = p /\ handle'[y] = p
      BY <1>1, <1>2, <1>5, <2>2
    <3>2. owed'[y] = IF enable[p] THEN owed[y] ELSE owed[y] + 1
      BY <1>1, <1>2, <1>5, <2>2
    <3> QED
      BY <1>1, <1>2, <2>1, <3>1, <3>2
  <2>3. CASE y # x
    <3>1. owed'[y] = owed[y] /\ handle'[y] = handle[y] /\ callback' = callback
      BY <1>1, <1>2, <1>5, <2>3
    <3>2. handle[y] # NULL => handle[y] \in Timers /\ handle[y] # p
      BY <1>2, <2>3, HeldFacts
    <3>3. handle[y] # NULL => enable'[handle[y]] = enable[handle[y]]
      BY <1>1, <1>5, <3>2
    <3> QED
      BY <2>1, <3>1, <3>3
  <2> QED
    BY <2>2, <2>3
<1> QED
  BY <1>3, <1>6, <1>7, <1>8, <1>9 DEF TimerInv

LEMMA ClientSetInv ==
    ASSUME TimerInv, NEW x \in Clients, NEW u \in Intervals, client_set(x, u)
    PROVE  TimerInv'
<1>1. handle[x] \in on \cup off /\ \E t \in get_time : timer_set(handle[x], t, u)
  BY HeldFacts DEF client_set
<1>2. /\ pc \in {"none", "loop", "unlocked", "callback"}
      /\ pc # "none" => timer_thread_run
      /\ pc' = IF timer_thread_run THEN pc ELSE "loop"
  BY DEF client_set, TimerInv, TypeOK, ThreadInv
<1> QED
  BY <1>1, <1>2, SetInv

LEMMA CallbackSetInv ==
    ASSUME TimerInv, NEW u \in Intervals, callback_set(u)
    PROVE  TimerInv'
<1>1. callback[1] \in on \cup off /\ \E t \in get_time : timer_set(callback[1], t, u)
  <2>1. callback \in Timers \X Clients /\ handle[callback[2]] = callback[1]
    BY DEF callback_set, TimerInv, ThreadInv
  <2>2. callback[1] # NULL /\ callback[2] \in Clients
    BY <2>1, Constants
  <2> QED
    BY <2>1, <2>2, HeldFacts DEF callback_set
<1>2. pc = "callback" /\ pc' = "loop"
  BY DEF callback_set
<1> QED
  BY <1>1, <1>2, SetInv

\* timer_free: an armed or idle timer goes to the free list, and x gives up
\* the call it was owed for it.
LEMMA FreeInv ==
    ASSUME TimerInv, NEW x \in Clients, timer_free(x)
    PROVE  TimerInv'
<1> DEFINE p == handle[x]
<1>1. /\ p # NULL
      /\ list1_timer_on' = IF enable[p] THEN LIST1_DEL(list1_timer_on, p) ELSE list1_timer_on
      /\ list1_timer_off' = IF enable[p] THEN list1_timer_off
                            ELSE LIST1_DEL(list1_timer_off, p)
      /\ enable' = [enable EXCEPT ![p] = FALSE]
      /\ list1_timer_free' = LIST1_ADD(list1_timer_free, p)
      /\ handle' = [handle EXCEPT ![x] = NULL]
      /\ owed' = [owed EXCEPT ![x] = IF enable[p] THEN @ - 1 ELSE @]
      /\ UNCHANGED <<settime, interval, client, timer_lock, timer_thread_run,
                     time, pc, callback, behind>>
  BY DEF timer_free, disable, thread
<1>2. /\ p \in Timers /\ p \in on \cup off /\ p \notin free
      /\ \A y \in Clients : handle[y] = p => y = x
      /\ enable[p] <=> p \in on
      /\ ~(p \in on /\ p \in off)
  BY <1>1, HeldFacts DEF TimerInv, ListInv, OwnerInv
<1>3. handle[x] = p
  OBVIOUS
<1> HIDE DEF p
<1>4. TypeOK /\ ListInv /\ OwnerInv /\ OrderInv /\ ThreadInv /\ CalledOncePerArming
  BY DEF TimerInv
<1>5. /\ list1_timer_on' \in Seq(Timers) /\ IsList(list1_timer_on')
      /\ on' = on \ {p} /\ SortedBut(list1_timer_on', Deadlines, Behind)
  <2>1. CASE enable[p]
    <3>1. list1_timer_on' = LIST1_DEL(list1_timer_on, p) /\ p \in Elems(list1_timer_on)
      BY <1>1, <1>2, <2>1 DEF on
    <3> QED
      BY <1>4, <3>1, HeldFacts, DelFacts, DelSortedBut DEF ListInv, OrderInv, on
  <2>2. CASE ~enable[p]
    BY <1>1, <1>2, <1>4, <2>2, HeldFacts DEF ListInv, OrderInv, on
  <2> QED
    BY <2>1, <2>2
<1>6. /\ list1_timer_off' \in Seq(Timers) /\ IsList(list1_timer_off')
      /\ off' = off \ {p}
  <2>1. CASE enable[p]
    BY <1>1, <1>2, <1>4, <2>1, HeldFacts DEF ListInv, off
  <2>2. CASE ~enable[p]
    <3>1. list1_timer_off' = LIST1_DEL(list1_timer_off, p) /\ p \in Elems(list1_timer_off)
      BY <1>1, <1>2, <2>2 DEF off
    <3> QED
      BY <1>4, <3>1, HeldFacts, DelFacts DEF ListInv, off
  <2> QED
    BY <2>1, <2>2
<1>7. /\ list1_timer_free' \in Seq(Timers) /\ IsList(list1_timer_free')
      /\ free' = free \cup {p}
  BY <1>1, <1>2, <1>4, HeldFacts, AddFacts DEF ListInv, free
<1>8. /\ enable \in [Timers -> BOOLEAN] /\ owed \in [Clients -> Int]
      /\ handle \in [Clients -> Timers \cup {NULL}]
  BY <1>4 DEF TypeOK
<1>9. TypeOK'
  <2>1. /\ enable' \in [Timers -> BOOLEAN] /\ handle' \in [Clients -> Timers \cup {NULL}]
    BY <1>1, <1>2, <1>8
  <2>2. owed' \in [Clients -> Int]
    BY <1>1, <1>8
  <2>3. \A l \in {list1_timer_on, list1_timer_off, list1_timer_free}' : l \in Seq(Timers)
    BY <1>5, <1>6, <1>7
  <2> QED
    BY <1>1, <1>4, <2>1, <2>2, <2>3 DEF TypeOK
<1>10. ListInv'
  <2>1. \A q \in Timers : enable'[q] <=> q \in on'
    BY <1>1, <1>2, <1>4, <1>5, <1>8 DEF ListInv
  <2>2. /\ on' \cap off' = {} /\ on' \cap free' = {} /\ off' \cap free' = {}
        /\ on' \cup off' \cup free' = Timers
    BY <1>2, <1>4, <1>5, <1>6, <1>7 DEF ListInv
  <2> QED
    BY <1>5, <1>6, <1>7, <2>1, <2>2 DEF ListInv
<1>11. OwnerInv'
  <2>1. ASSUME NEW q \in on' \cup off'
        PROVE  client'[q] \in Clients /\ handle'[client'[q]] = q
    <3>1. q \in on \cup off /\ q # p /\ client[q] \in Clients /\ handle[client[q]] = q
      BY <1>5, <1>6, HeldFacts
    <3>2. client[q] # x
      BY <1>3, <3>1
    <3> QED
      BY <1>1, <1>8, <3>1, <3>2
  <2>2. ASSUME NEW y \in Clients, handle'[y] # NULL
        PROVE  client'[handle'[y]] = y /\ handle'[y] \notin free'
    <3>1. y # x
      BY <1>1, <1>8, <2>2
    <3>2. handle'[y] = handle[y] /\ handle[y] # p
      BY <1>1, <1>2, <1>8, <3>1
    <3> QED
      BY <1>1, <1>4, <1>7, <2>2, <3>2 DEF OwnerInv
  <2> QED
    BY <2>1, <2>2 DEF OwnerInv
<1>12. OrderInv' /\ ThreadInv'
  BY <1>1, <1>4, <1>5 DEF OrderInv, ThreadInv, Deadlines, Behind
<1>13. CalledOncePerArming'
  <2> SUFFICES ASSUME NEW y \in Clients
               PROVE  owed'[y] = (IF handle'[y] # NULL /\ enable'[handle'[y]] THEN 1 ELSE 0)
                                 + (IF pc' = "unlocked" /\ callback'[2] = y THEN 1 ELSE 0)
    BY DEF CalledOncePerArming
  <2>1. owed[y] = (IF handle[y] # NULL /\ enable[handle[y]] THEN 1 ELSE 0)
                  + (IF pc = "unlocked" /\ callback[2] = y THEN 1 ELSE 0)
    BY <1>4 DEF CalledOncePerArming
  <2>2. CASE y = x
    <3>1. handle'[y] = NULL /\ owed'[y] = IF enable[p] THEN owed[y] - 1 ELSE owed[y]
      BY <1>1, <1>8, <2>2
    <3> QED
      BY <1>1, <1>3, <2>1, <2>2, <3>1
  <2>3. CASE y # x
    <3>1. owed'[y] = owed[y] /\ handle'[y] = handle[y] /\ callback' = callback /\ pc' = pc
      BY <1>1, <1>8, <2>3
    <3>2. handle[y] # NULL => handle[y] \in Timers /\ handle[y] # p
      BY <1>2, <2>3, HeldFacts
    <3>3. handle[y] # NULL => enable'[handle[y]] = enable[handle[y]]
      BY <1>1, <1>8, <3>2
    <3> QED
      BY <2>1, <3>1, <3>3
  <2> QED
    BY <2>2, <2>3
<1> QED
  BY <1>9, <1>10, <1>11, <1>12, <1>13 DEF TimerInv

\* The timer thread takes the head of the armed timers: its client is no
\* longer owed a call for an armed timer, but for the one the thread makes.
LEMMA FoundInv == ASSUME TimerInv, timer_thread_found PROVE TimerInv'
<1> DEFINE p == Head(list1_timer_on)
<1>1. /\ pc = "loop" /\ list1_timer_on # <<>>
      /\ list1_timer_on' = LIST1_POP(list1_timer_on)
      /\ enable' = [enable EXCEPT ![p] = FALSE]
      /\ callback' = <<p, client[p]>>
      /\ list1_timer_off' = LIST1_ADD(list1_timer_off, p)
      /\ pc' = "unlocked"
      /\ UNCHANGED <<list1_timer_free, settime, interval, client, timer_lock,
                     timer_thread_run, time, handle, owed, behind>>
  BY DEF timer_thread_found, disable, LIST1_POP
<1>2. TypeOK /\ ListInv /\ OwnerInv /\ OrderInv /\ ThreadInv /\ CalledOncePerArming
  BY DEF TimerInv
<1>3. /\ p \in on
      /\ list1_timer_on' \in Seq(Timers) /\ IsList(list1_timer_on') /\ on' = on \ {p}
  BY <1>1, <1>2, HeldFacts, PopFacts DEF ListInv, on
<1>4. SortedBut(list1_timer_on', Deadlines, Behind)
  BY <1>1, <1>2, <1>3, HeldFacts, DelSortedBut DEF OrderInv, LIST1_POP, on
<1> HIDE DEF p
<1>5. /\ p \in Timers /\ p \notin off /\ p \notin free /\ enable[p]
      /\ client[p] \in Clients /\ handle[client[p]] = p /\ p # NULL
  BY <1>2, <1>3, HeldFacts DEF ListInv
<1>6. /\ list1_timer_off' \in Seq(Timers) /\ IsList(list1_timer_off')
      /\ off' = off \cup {p} /\ free' = free
  BY <1>1, <1>2, <1>5, HeldFacts, AddFacts DEF ListInv, off, free
<1>7. enable \in [Timers -> BOOLEAN] /\ owed \in [Clients -> Int]
  BY <1>2 DEF TypeOK
<1>8. TypeOK'
  <2>1. enable' \in [Timers -> BOOLEAN]
    BY <1>1, <1>5, <1>7
  <2>2. callback' \in (Timers \cup {NULL}) \X (Clients \cup {NULL})
    BY <1>1, <1>5
  <2>3. \A l \in {list1_timer_on, list1_timer_off, list1_timer_free}' : l \in Seq(Timers)
    BY <1>1, <1>3, <1>6, HeldFacts
  <2> QED
    BY <1>1, <1>2, <2>1, <2>2, <2>3 DEF TypeOK
<1>9. ListInv'
  <2>1. \A q \in Timers : enable'[q] <=> q \in on'
    BY <1>1, <1>2, <1>3, <1>5, <1>7 DEF ListInv
  <2>2. /\ on' \cap off' = {} /\ on' \cap free' = {} /\ off' \cap free' = {}
        /\ on' \cup off' \cup free' = Timers
    BY <1>2, <1>3, <1>5, <1>6 DEF ListInv
  <2> QED
    BY <1>1, <1>2, <1>3, <1>6, <2>1, <2>2 DEF ListInv
<1>10. OwnerInv' /\ OrderInv'
  BY <1>1, <1>2, <1>3, <1>4, <1>6 DEF OwnerInv, OrderInv, Deadlines, Behind
<1>11. ThreadInv'
  <2>1. callback' \in Timers \X Clients
    BY <1>1, <1>5
  <2> QED
    BY <1>1, <1>2, <2>1 DEF ThreadInv
<1>12. CalledOncePerArming'
  <2> SUFFICES ASSUME NEW y \in Clients
               PROVE  owed'[y] = (IF handle'[y] # NULL /\ enable'[handle'[y]] THEN 1 ELSE 0)
                                 + (IF pc' = "unlocked" /\ callback'[2] = y THEN 1 ELSE 0)
    BY DEF CalledOncePerArming
  <2>1. owed[y] = IF handle[y] # NULL /\ enable[handle[y]] THEN 1 ELSE 0
    BY <1>1, <1>2 DEF CalledOncePerArming
  <2>2. owed'[y] = owed[y] /\ handle'[y] = handle[y] /\ callback'[2] = client[p]
    BY <1>1
  <2>3. CASE y = client[p]
    <3>1. handle[y] = p /\ enable'[p] = FALSE /\ enable[p] = TRUE
      BY <1>1, <1>5, <1>7, <2>3
    <3> QED
      BY <1>1, <1>5, <2>1, <2>2, <2>3, <3>1
  <2>4. CASE y # client[p]
    <3>1. handle[y] # NULL => handle[y] \in Timers /\ handle[y] # p
      BY <1>5, <2>4, HeldFacts
    <3>2. handle[y] # NULL => enable'[handle[y]] = enable[handle[y]]
      BY <1>1, <1>7, <3>1
    <3> QED
      BY <2>1, <2>2, <2>4, <3>2
  <2> QED
    BY <2>3, <2>4
<1> QED
  BY <1>8, <1>9, <1>10, <1>11, <1>12 DEF TimerInv

\* The thread calls the client it copied under the lock.
LEMMA CallInv == ASSUME TimerInv, timer_thread_call PROVE TimerInv'
<1>1. /\ pc = "unlocked" /\ pc' = "callback"
      /\ owed' = [owed EXCEPT ![callback[2]] = @ - 1]
      /\ UNCHANGED <<lists, enable, settime, interval, client, timer_lock,
                     timer_thread_run, time, handle, callback, behind>>
  BY DEF timer_thread_call
<1>2. owed \in [Clients -> Int] /\ callback[2] \in Clients
  BY <1>1 DEF TimerInv, TypeOK, ThreadInv
<1>3. TypeOK'
  <2>1. owed' \in [Clients -> Int]
    BY <1>1, <1>2
  <2> QED
    BY <1>1, <2>1 DEF TimerInv, TypeOK, lists
<1>4. ListInv' /\ OrderInv'
  BY <1>1 DEF TimerInv, ListInv, OrderInv, Deadlines, SortedBut, Behind, lists, on, off, free
<1>5. OwnerInv' /\ ThreadInv'
  BY <1>1 DEF TimerInv, OwnerInv, ThreadInv, lists, on, off, free
<1>6. CalledOncePerArming'
  <2> SUFFICES ASSUME NEW y \in Clients
               PROVE  owed'[y] = IF handle[y] # NULL /\ enable[handle[y]] THEN 1 ELSE 0
    BY <1>1 DEF CalledOncePerArming
  <2>1. owed[y] = (IF handle[y] # NULL /\ enable[handle[y]] THEN 1 ELSE 0)
                  + (IF callback[2] = y THEN 1 ELSE 0)
    BY <1>1 DEF TimerInv, CalledOncePerArming
  <2>2. owed'[y] = IF callback[2] = y THEN owed[y] - 1 ELSE owed[y]
    BY <1>1, <1>2
  <2> QED
    BY <2>1, <2>2
<1> QED
  BY <1>3, <1>4, <1>5, <1>6 DEF TimerInv

LEMMA ReturnInv == ASSUME TimerInv, callback_return PROVE TimerInv'
<1>1. /\ pc = "callback" /\ pc' = "loop"
      /\ UNCHANGED <<lists, enable, settime, interval, client, timer_lock,
                     timer_thread_run, time, handle, callback, owed, behind>>
  BY DEF callback_return
<1>2. TypeOK'
  BY <1>1 DEF TimerInv, TypeOK, lists
<1>3. ListInv' /\ OrderInv'
  BY <1>1 DEF TimerInv, ListInv, OrderInv, Deadlines, SortedBut, Behind, lists, on, off, free
<1>4. OwnerInv' /\ ThreadInv' /\ CalledOncePerArming'
  BY <1>1 DEF TimerInv, OwnerInv, ThreadInv, CalledOncePerArming, lists, on, off, free
<1> QED
  BY <1>2, <1>3, <1>4 DEF TimerInv
----------------------------------------------------------------------------
LEMMA TimerNextInv == TimerInv /\ [Next]_vars => TimerInv'
<1> SUFFICES ASSUME TimerInv, [Next]_vars PROVE TimerInv'
  OBVIOUS
<1>1. CASE UNCHANGED vars
  <2>1. TypeOK'
    BY <1>1 DEF TimerInv, TypeOK, vars, lists, thread
  <2>2. ListInv' /\ OrderInv'
    BY <1>1 DEF TimerInv, ListInv, OrderInv, Deadlines, SortedBut, Behind, vars, lists, on, off, free
  <2>3. OwnerInv' /\ ThreadInv' /\ CalledOncePerArming'
    BY <1>1 DEF TimerInv, OwnerInv, ThreadInv, CalledOncePerArming, vars, lists, thread,
                on, off, free
  <2> QED
    BY <2>1, <2>2, <2>3 DEF TimerInv
<1> QED
  BY <1>1, TickInv, NewInv, FreeInv, ClientSetInv, FoundInv, CallInv, CallbackSetInv,
     ReturnInv DEF Next

(* The inductive invariant of the timers.                                  *)
THEOREM TimerInvariance == Spec => []TimerInv
  BY TimerInitInv, TimerNextInv, PTL DEF Spec

(* The times, lists and flags keep their types.                            *)
THEOREM TimerTypeCorrect == Spec => []TypeOK
<1>1. TimerInv => TypeOK
  BY DEF TimerInv
<1> QED
  BY <1>1, TimerInvariance, PTL

(* A timer is in exactly one list, the one its enable flag names, and held *)
(* by one client or free.                                                  *)
THEOREM TimersInOneList == Spec => []InOneList
<1>1. TimerInv => InOneList
  <2> SUFFICES ASSUME TimerInv PROVE InOneList
    OBVIOUS
  <2> DEFINE b == list1_timer_on \o list1_timer_off
             l == b \o list1_timer_free
  <2>1. ListInv /\ OwnerInv
    BY DEF TimerInv
  <2>2. b \in Seq(Timers) /\ IsList(b) /\ Elems(b) = on \cup off
    BY <2>1, HeldFacts, ConcatFacts DEF ListInv, on, off
  <2> HIDE DEF b
  <2>3. Elems(b) \cap Elems(list1_timer_free) = {}
    BY <2>1, <2>2 DEF ListInv, free
  <2>4. IsList(l) /\ Elems(l) = Timers
    <3>1. list1_timer_free \in Seq(Timers) /\ IsList(list1_timer_free)
      BY <2>1, HeldFacts DEF ListInv
    <3>2. IsList(l) /\ Elems(l) = Elems(b) \cup Elems(list1_timer_free)
      BY <2>2, <2>3, <3>1, ConcatFacts
    <3> QED
      BY <2>1, <2>2, <3>2 DEF ListInv, free
  <2>5. \A p \in Elems(list1_timer_on) \cup Elems(list1_timer_off) : handle[client[p]] = p
    BY <2>1 DEF OwnerInv, on, off
  <2> QED
    BY <2>1, <2>4, <2>5 DEF InOneList, ListInv, OwnerInv, on, free, b
<1> QED
  BY <1>1, TimerInvariance, PTL

(* When the head of the armed timers has not expired by a processor's      *)
(* clock, the timer thread may stop there: the timers it misses were set   *)
(* by a clock that was behind.                                             *)
THEOREM TimerHeadDecides == Spec => []HeadDecides
<1>1. TimerInv => HeadDecides
  <2> SUFFICES ASSUME TimerInv, list1_timer_on # <<>>, NEW t \in get_time,
                      ~Expired(Head(list1_timer_on), t),
                      NEW p \in Elems(list1_timer_on),
                      settime[p] + interval[p] <= t
               PROVE  behind[p]
    BY DEF HeadDecides
  <2> DEFINE l == list1_timer_on
  <2>1. l \in Seq(Timers) /\ Len(l) \in Nat /\ Len(l) > 0 /\ DOMAIN l = 1 .. Len(l)
    BY HeldFacts, LenProperties, EmptySeq
  <2>2. Head(l) = l[1] /\ l[1] \in Timers /\ p \in Timers
    BY <2>1, ElemsFacts
  <2>3. PICK i \in 1 .. Len(l) : l[i] = p
    BY <2>1 DEF Elems, Range
  <2>4. SortedBut(l, Deadlines, Behind) /\ TypeOK
    BY DEF TimerInv, OrderInv
  <2>5. i = 1 \/ Deadlines[l[1]] <= Deadlines[p] \/ p \in Behind
    BY <2>1, <2>3, <2>4 DEF SortedBut
  <2>6. Deadlines[l[1]] \in Nat /\ Deadlines[p] \in Nat /\ t \in Nat
    BY <2>2, <2>4, DeadlineFacts
  <2>7. settime[l[1]] <= t
    BY <2>2, <2>4, DeadlineFacts
  <2>8. ~(Deadlines[l[1]] <= t)
    BY <2>2, <2>4, <2>7, DeadlineFacts
  <2>9. Deadlines[p] <= t
    BY <2>2, <2>4, DeadlineFacts
  <2>10. p \in Behind
    BY <2>3, <2>5, <2>6, <2>8, <2>9
  <2> QED
    BY <2>10 DEF Behind
<1> QED
  BY <1>1, TimerInvariance, PTL

(* A client gets one call for each arming of its timer that it did not     *)
(* take back, and none for another's.                                      *)
THEOREM TimerCalledOncePerArming == Spec => []CalledOncePerArming
<1>1. TimerInv => CalledOncePerArming
  BY DEF TimerInv
<1> QED
  BY <1>1, TimerInvariance, PTL
=============================================================================

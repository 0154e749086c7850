------------------------------ MODULE SmpProofs ------------------------------
(***************************************************************************)
(* Proofs about what the processors share.  The two locks of spinlock.h:   *)
(* the ticket lock, for every number of processors and every width of the  *)
(* counters that can number them, and the reader-writer lock, for every    *)
(* number of processors and every width of the lock word that can count    *)
(* them.  The clocks of CpuTime, for every number of processors and        *)
(* however long they run.                                                  *)
(***************************************************************************)
EXTENDS MCSpinlock, CpuTime, CoreTheorems


\* How many steps of a counter lead from b to a.
Distance(a, b) == IF a >= b THEN a - b ELSE a - b + WRAP

Waiting == Cardinality(Ticketed)

(* The tickets in use are the ones from now_serving up to next_ticket,     *)
(* each with one processor.                                                *)
TicketInv ==
    /\ Distance(next_ticket, now_serving) = Waiting
    /\ \A c \in Ticketed : Distance(eax[c], now_serving) < Waiting
    /\ \A c, d \in Ticketed : eax[c] = eax[d] => c = d
    /\ \A i \in 0 .. Waiting - 1 :
          \E c \in Ticketed : Distance(eax[c], now_serving) = i

(* Who is in has the ticket that is served.                                *)
InInv == \A c \in Cpus : pc[c] = "in" => eax[c] = now_serving

LockInv == TypeOK /\ TicketInv /\ InInv
----------------------------------------------------------------------------
\* The remainders of the model are distances.
LEMMA Remainders ==
    ASSUME NEW a \in u32, NEW b \in u32
    PROVE  /\ (a - b) % WRAP = Distance(a, b)
           /\ Inc(a) = IF a = WRAP - 1 THEN 0 ELSE a + 1
  BY TicketAssumption DEF u32, Distance, Inc

\* There are fewer tickets in use than numbers.
LEMMA WaitingFits ==
    /\ IsFiniteSet(Ticketed) /\ Waiting \in Nat /\ Waiting < WRAP
    /\ IsFiniteSet(Ticketed') /\ Waiting' \in Nat /\ Waiting' < WRAP
<1>1. ASSUME NEW S \in SUBSET Cpus
      PROVE  IsFiniteSet(S) /\ Cardinality(S) \in Nat /\ Cardinality(S) < WRAP
  BY TicketAssumption, FS_Subset, FS_CardinalityType
<1>2. Ticketed \in SUBSET Cpus /\ Ticketed' \in SUBSET Cpus
  BY DEF Ticketed
<1> QED
  BY <1>1, <1>2 DEF Waiting

\* Two distances from the same point are equal only for equal tickets.
LEMMA DistanceInjective ==
    ASSUME NEW a \in u32, NEW b \in u32, NEW n \in u32
    PROVE  /\ Distance(a, n) \in 0 .. WRAP - 1
           /\ Distance(a, n) = Distance(b, n) => a = b
           /\ Distance(a, n) = 0 <=> a = n
           /\ Distance(a, n) < WRAP - 1 => Distance(Inc(a), n) = Distance(a, n) + 1
           /\ a # n => Distance(a, Inc(n)) = Distance(a, n) - 1
           /\ Inc(n) \in u32
<1>1. WRAP \in Nat /\ a \in Int /\ b \in Int /\ n \in Int
  BY TicketAssumption DEF u32
<1>2. /\ Inc(a) = IF a = WRAP - 1 THEN 0 ELSE a + 1
      /\ Inc(n) = IF n = WRAP - 1 THEN 0 ELSE n + 1
  BY Remainders
<1>3. 0 <= a /\ a < WRAP /\ 0 <= b /\ b < WRAP /\ 0 <= n /\ n < WRAP
  BY <1>1 DEF u32
<1>4. Inc(n) \in u32
  BY <1>1, <1>2, <1>3 DEF u32
<1> QED
  BY <1>1, <1>2, <1>3, <1>4 DEF Distance

\* No tickets are in use.
LEMMA LockInitInv == Init => LockInv
<1> SUFFICES ASSUME Init PROVE LockInv
  OBVIOUS
<1>1. TypeOK
  <2>1. 0 \in u32
    BY TicketAssumption, FS_CardinalityType DEF u32
  <2> QED
    BY <2>1 DEF Init, TypeOK
<1>2. Ticketed = {} /\ Waiting = 0
  BY FS_EmptySet DEF Init, Ticketed, Waiting
<1> QED
  BY <1>1, <1>2 DEF Init, LockInv, TicketInv, InInv, Distance

\* Reading next_ticket changes nothing that counts.
LEMMA LoadInv == ASSUME LockInv, NEW c \in Cpus, load(c) PROVE LockInv'
<1> USE DEF LockInv, TypeOK, load
<1>1. Ticketed' = Ticketed /\ Waiting' = Waiting /\ c \notin Ticketed
  BY DEF Ticketed, Waiting
<1>2. \A d \in Ticketed : eax'[d] = eax[d]
  BY <1>1 DEF Ticketed
<1> QED
  BY <1>1, <1>2 DEF TicketInv, InInv, Distance

\* The cmpxchg that succeeds: the new ticket is behind all in use.
LEMMA TakeInv ==
    ASSUME LockInv, NEW c \in Cpus, take(c), next_ticket = eax[c]
    PROVE  /\ LockInv'
           /\ c \notin Ticketed /\ Ticketed' = Ticketed \cup {c} /\ Waiting' = Waiting + 1
           /\ Distance(eax[c], now_serving) = Waiting
<1> USE DEF LockInv, TypeOK, take
<1>1. c \notin Ticketed /\ Ticketed' = Ticketed \cup {c}
  BY DEF Ticketed
<1>2. Waiting' = Waiting + 1
  BY <1>1, WaitingFits, FS_AddElement DEF Waiting
<1>3. next_ticket' \in u32 /\ Distance(next_ticket', now_serving) = Waiting + 1
  BY <1>2, WaitingFits, DistanceInjective, TicketAssumption DEF TicketInv
<1>4. Distance(eax[c], now_serving) = Waiting
  BY DEF TicketInv
<1>5. TicketInv'
  <2>1. ASSUME NEW d \in Ticketed PROVE eax[d] # eax[c] /\ Distance(eax[d], now_serving) < Waiting
    BY <1>4, <2>1, WaitingFits, DistanceInjective DEF TicketInv, Ticketed
  <2>2. \A d \in Ticketed' : Distance(eax[d], now_serving) < Waiting'
    BY <1>1, <1>2, <1>4, <2>1, WaitingFits, DistanceInjective DEF Ticketed
  <2>3. \A d, e \in Ticketed' : eax[d] = eax[e] => d = e
    BY <1>1, <2>1 DEF TicketInv
  <2>4. ASSUME NEW i \in 0 .. Waiting' - 1
        PROVE  \E d \in Ticketed' : Distance(eax[d], now_serving) = i
    <3>1. CASE i = Waiting
      BY <1>1, <1>4, <3>1
    <3>2. CASE i # Waiting
      <4>1. i \in 0 .. Waiting - 1
        BY <1>2, <2>4, <3>2, WaitingFits
      <4> QED
        BY <1>1, <4>1 DEF TicketInv
    <3> QED
      BY <3>1, <3>2
  <2>5. eax' = eax /\ now_serving' = now_serving
    OBVIOUS
  <2>6. Distance(next_ticket', now_serving') = Waiting'
    BY <1>2, <1>3, <2>5
  <2> HIDE DEF take, LockInv, TypeOK
  <2> QED
    BY <2>2, <2>3, <2>4, <2>5, <2>6 DEF TicketInv, Distance
<1>6. InInv' /\ TypeOK'
  BY <1>3 DEF InInv
<1> QED
  BY <1>1, <1>2, <1>4, <1>5, <1>6

\* The one that fails reads next_ticket again.
LEMMA TakeAgainInv ==
    ASSUME LockInv, NEW c \in Cpus, take(c), next_ticket # eax[c]
    PROVE  LockInv'
<1> USE DEF LockInv, TypeOK, take
<1>1. Ticketed' = Ticketed /\ Waiting' = Waiting /\ c \notin Ticketed
  BY DEF Ticketed, Waiting
<1>2. \A d \in Ticketed : eax'[d] = eax[d]
  BY <1>1 DEF Ticketed
<1> QED
  BY <1>1, <1>2 DEF TicketInv, InInv, Distance

\* The processor whose ticket is served goes in.
LEMMA WaitInv == ASSUME LockInv, NEW c \in Cpus, wait(c) PROVE LockInv'
<1> USE DEF LockInv, TypeOK, wait, served
<1>1. Ticketed' = Ticketed /\ Waiting' = Waiting
  BY DEF Ticketed, Waiting
<1> QED
  BY <1>1 DEF TicketInv, InInv, Distance

\* Whoever is in is alone: tickets are distinct.
LEMMA InAlone == LockInv => MutualExclusion
  BY DEF LockInv, TicketInv, InInv, MutualExclusion, Ticketed

\* The lowest ticket goes away, and all distances with it.
LEMMA UnlockInv ==
    ASSUME LockInv, NEW c \in Cpus, ticketlock_unlock(c)
    PROVE  /\ LockInv'
           /\ c \in Ticketed /\ Ticketed' = Ticketed \ {c} /\ Waiting' = Waiting - 1
           /\ \A d \in Ticketed' :
                 Distance(eax[d], now_serving') = Distance(eax[d], now_serving) - 1
<1> USE DEF LockInv, TypeOK, ticketlock_unlock
<1>1. c \in Ticketed /\ Ticketed' = Ticketed \ {c}
  BY DEF Ticketed
<1>2. Waiting' = Waiting - 1
  BY <1>1, WaitingFits, FS_RemoveElement DEF Waiting
<1>3. eax[c] = now_serving /\ Waiting > 0
  BY <1>1, <1>2, WaitingFits DEF InInv
<1>4. now_serving' \in u32
  BY DistanceInjective
<1>5. ASSUME NEW d \in Ticketed'
      PROVE  /\ d \in Ticketed /\ eax[d] \in u32 /\ eax[d] # now_serving
             /\ Distance(eax[d], now_serving') = Distance(eax[d], now_serving) - 1
  <2>1. d \in Ticketed /\ eax[d] # now_serving
    BY <1>1, <1>3, <1>5 DEF TicketInv
  <2>2. eax[d] \in u32
    BY <2>1 DEF Ticketed
  <2> QED
    BY <2>1, <2>2, DistanceInjective
<1>6. Distance(next_ticket, now_serving') = Waiting - 1
  <2>1. next_ticket # now_serving
    BY <1>3, WaitingFits, DistanceInjective DEF TicketInv
  <2> QED
    BY <2>1, DistanceInjective DEF TicketInv
<1>7. TicketInv'
  <2>1. \A d \in Ticketed' : Distance(eax[d], now_serving') < Waiting'
    <3>1. ASSUME NEW d \in Ticketed' PROVE Distance(eax[d], now_serving) < Waiting
      BY <1>5, <3>1 DEF TicketInv
    <3>2. ASSUME NEW d \in Ticketed' PROVE Distance(eax[d], now_serving) \in Int
      <4>1. now_serving \in u32 /\ eax[d] \in u32
        BY <1>5, <3>2
      <4> QED
        BY <4>1, DistanceInjective
    <3> QED
      BY <1>2, <1>5, <3>1, <3>2, WaitingFits
  <2>2. \A d, e \in Ticketed' : eax[d] = eax[e] => d = e
    BY <1>1 DEF TicketInv
  <2>3. ASSUME NEW i \in 0 .. Waiting' - 1
        PROVE  \E d \in Ticketed' : Distance(eax[d], now_serving') = i
    <3>1. i + 1 \in 0 .. Waiting - 1
      BY <1>2, <2>3, WaitingFits
    <3>2. PICK d \in Ticketed : Distance(eax[d], now_serving) = i + 1
      BY <3>1 DEF TicketInv
    <3>3. d # c
      BY <1>3, <3>1, <3>2, DistanceInjective
    <3> QED
      BY <1>1, <1>5, <3>1, <3>2, <3>3
  <2>4. eax' = eax /\ next_ticket' = next_ticket
    OBVIOUS
  <2> HIDE DEF ticketlock_unlock, LockInv, TypeOK
  <2> QED
    BY <1>2, <1>6, <2>1, <2>2, <2>3, <2>4 DEF TicketInv, Distance
<1>8. TypeOK'
  BY <1>4
<1>9. InInv'
  BY InAlone DEF InInv, MutualExclusion
<1> QED
  BY <1>1, <1>2, <1>5, <1>7, <1>8, <1>9

\* Every step preserves the invariant.
LEMMA LockNextInv == LockInv /\ [Next]_vars => LockInv'
<1> SUFFICES ASSUME LockInv, [Next]_vars PROVE LockInv'
  OBVIOUS
<1>1. CASE UNCHANGED vars
  BY <1>1 DEF vars, LockInv, TypeOK, TicketInv, InInv, Ticketed, Waiting, Distance
<1> QED
  BY <1>1, LoadInv, TakeInv, TakeAgainInv, WaitInv, UnlockInv DEF Next, Step

\* The inductive invariant holds in every reachable state.
THEOREM LockInvariance == Spec => []LockInv
  BY LockInitInv, LockNextInv, PTL DEF Spec

\* The lock excludes, for any number of processors and however often the
\* counters wrap, as long as there are more numbers than processors.
THEOREM LockExcludes == Spec => []MutualExclusion
  BY InAlone, LockInvariance, PTL
----------------------------------------------------------------------------
(* The refinement of FifoMutex.                                            *)

\* s lists the processors with a ticket by the distance of their tickets.
ByDistance(s) ==
    /\ Len(s) = Waiting
    /\ \A i \in 1 .. Waiting : s[i] \in Ticketed /\ Distance(eax[s[i]], now_serving) = i - 1

\* Ahead, in terms of distances.
LEMMA AheadIsDistance ==
    LockInv => \A c \in Ticketed : Ahead(c) = Distance(eax[c], now_serving)
  BY Remainders DEF LockInv, TypeOK, Ahead, Ticketed

\* The queue of the refinement mapping lists the processors so.
LEMMA QueueByDistance == LockInv => Queue \in Seq(Cpus) /\ ByDistance(Queue)
<1> SUFFICES ASSUME LockInv PROVE Queue \in Seq(Cpus) /\ ByDistance(Queue)
  OBVIOUS
<1>1. Waiting \in Nat
  BY WaitingFits
<1>2. ASSUME NEW i \in 1 .. Waiting
      PROVE  Queue[i] \in Ticketed /\ Distance(eax[Queue[i]], now_serving) = i - 1
  <2>1. i - 1 \in 0 .. Waiting - 1
    BY <1>1
  <2>2. \E c \in Ticketed : Distance(eax[c], now_serving) = i - 1
    BY <2>1 DEF LockInv, TicketInv
  <2>3. \E c \in Ticketed : Ahead(c) = i - 1
    BY <2>2, AheadIsDistance
  <2>4. Queue[i] = CHOOSE c \in Ticketed : Ahead(c) = i - 1
    BY DEF Queue, Waiting
  <2>5. Queue[i] \in Ticketed /\ Ahead(Queue[i]) = i - 1
    BY <2>3, <2>4
  <2> QED
    BY <2>5, AheadIsDistance
<1>3. Queue = [i \in 1 .. Waiting |-> Queue[i]]
  BY DEF Queue, Waiting
<1>4. \A i \in 1 .. Waiting : Queue[i] \in Cpus
  BY <1>2 DEF Ticketed
<1>5. Queue \in Seq(Cpus) /\ Len(Queue) = Waiting
  BY <1>1, <1>3, <1>4
<1> QED
  BY <1>2, <1>5 DEF ByDistance

\* There is only one such sequence.
OnlyQueue == \A s \in Seq(Cpus) : ByDistance(s) => Queue = s
LEMMA QueueIs == LockInv => OnlyQueue
<1> SUFFICES ASSUME LockInv, NEW s \in Seq(Cpus), ByDistance(s) PROVE Queue = s
  BY DEF OnlyQueue
<1>1. Waiting \in Nat /\ Queue \in Seq(Cpus) /\ ByDistance(Queue)
  BY WaitingFits, QueueByDistance
<1>2. ASSUME NEW i \in 1 .. Waiting PROVE Queue[i] = s[i]
  <2>1. /\ Queue[i] \in Ticketed /\ s[i] \in Ticketed
        /\ Distance(eax[Queue[i]], now_serving) = Distance(eax[s[i]], now_serving)
    BY <1>1 DEF ByDistance
  <2>2. eax[Queue[i]] \in u32 /\ eax[s[i]] \in u32 /\ now_serving \in u32
    BY <2>1 DEF LockInv, TypeOK, Ticketed
  <2>3. eax[Queue[i]] = eax[s[i]]
    BY <2>1, <2>2, DistanceInjective
  <2> QED
    BY <2>1, <2>3 DEF LockInv, TicketInv
<1> QED
  BY <1>1, <1>2 DEF ByDistance

Holders == {c \in Cpus : pc[c] = "in"}

\* A step that leaves the tickets as they are leaves the queue.
LEMMA SameQueue ==
    ASSUME LockInv, LockInv', Ticketed' = Ticketed, now_serving' = now_serving,
           \A d \in Ticketed : eax'[d] = eax[d]
    PROVE  Queue' = Queue
<1>1. LockInv' => OnlyQueue'
  BY QueueIs, PTL
<1>2. Waiting' = Waiting
  BY DEF Waiting
<1>3. ASSUME NEW q, q = Queue PROVE Queue' = q
  <2>1. q \in Seq(Cpus) /\ ByDistance(q)
    BY <1>3, QueueByDistance
  <2>2. ByDistance(q)'
    BY <1>2, <2>1 DEF ByDistance, Distance
  <2> QED
    BY <1>1, <2>1, <2>2 DEF OnlyQueue
<1> QED
  BY <1>3

\* A ticket taken is a place at the end of the queue.
LEMMA TakeAsks ==
    ASSUME LockInv, NEW c \in Cpus, take(c), next_ticket = eax[c]
    PROVE  Fifo!Ask(c)
<1>1. /\ LockInv'
      /\ c \notin Ticketed /\ Ticketed' = Ticketed \cup {c} /\ Waiting' = Waiting + 1
      /\ Distance(eax[c], now_serving) = Waiting
  BY TakeInv
<1>2. LockInv' => OnlyQueue'
  BY QueueIs, PTL
<1>3. Waiting \in Nat
  BY WaitingFits
<1>4. eax' = eax /\ now_serving' = now_serving
  BY DEF take
<1>5. ASSUME NEW q, q = Queue PROVE ~(\E i \in 1 .. Len(q) : q[i] = c) /\ Queue' = Append(q, c)
  <2>1. q \in Seq(Cpus) /\ ByDistance(q)
    BY <1>5, QueueByDistance
  <2>2. Append(q, c) \in Seq(Cpus) /\ Len(Append(q, c)) = Waiting + 1
    BY <1>3, <2>1 DEF ByDistance
  <2>3. ASSUME NEW i \in 1 .. Waiting + 1
        PROVE  /\ Append(q, c)[i] \in Ticketed \cup {c}
               /\ Distance(eax[Append(q, c)[i]], now_serving) = i - 1
    <3>1. CASE i = Waiting + 1
      BY <1>1, <1>3, <2>1, <3>1 DEF ByDistance
    <3>2. CASE i \in 1 .. Waiting
      <4>1. Append(q, c)[i] = q[i]
        BY <1>3, <2>1, <3>2 DEF ByDistance
      <4> QED
        BY <2>1, <3>2, <4>1 DEF ByDistance
    <3>3. i = Waiting + 1 \/ i \in 1 .. Waiting
      BY <1>3
    <3> QED
      BY <3>1, <3>2, <3>3
  <2>4. ByDistance(Append(q, c))'
    BY <1>1, <1>4, <2>2, <2>3 DEF ByDistance, Distance
  <2>5. Queue' = Append(q, c)
    BY <1>1, <1>2, <2>2, <2>4 DEF OnlyQueue
  <2>6. \A i \in 1 .. Len(q) : q[i] # c
    BY <1>1, <2>1 DEF ByDistance
  <2> QED
    BY <2>5, <2>6
<1>6. Holders' = Holders
  BY DEF take, Holders, LockInv, TypeOK
<1> QED
  BY <1>5, <1>6 DEF Fifo!Ask, Fifo!Contains, Holders

\* The head of the queue gets a lock that nobody holds.
LEMMA WaitGets ==
    ASSUME LockInv, NEW c \in Cpus, wait(c)
    PROVE  Fifo!Get(c)
<1>1. /\ LockInv' /\ Ticketed' = Ticketed /\ c \in Ticketed
      /\ eax' = eax /\ now_serving' = now_serving /\ eax[c] = now_serving
  BY WaitInv DEF wait, served, Ticketed, LockInv, TypeOK
<1>2. Queue' = Queue
  BY <1>1, SameQueue
<1>3. Queue \in Seq(Cpus) /\ ByDistance(Queue) /\ Waiting \in Nat
  BY WaitingFits, QueueByDistance
<1>4. Waiting > 0
  <2>1. Distance(eax[c], now_serving) = 0
    BY <1>1, DistanceInjective DEF LockInv, TypeOK
  <2> QED
    BY <1>1, <1>3, <2>1 DEF LockInv, TicketInv
<1>5. Queue # <<>> /\ Head(Queue) = Queue[1]
  BY <1>3, <1>4 DEF ByDistance
<1>6. Queue[1] = c
  <2>1. Queue[1] \in Ticketed /\ Distance(eax[Queue[1]], now_serving) = 0
    BY <1>3, <1>4 DEF ByDistance
  <2>2. eax[Queue[1]] = now_serving
    <3>1. eax[Queue[1]] \in u32 /\ now_serving \in u32
      BY <2>1 DEF LockInv, TypeOK, Ticketed
    <3> QED
      BY <2>1, <3>1, DistanceInjective
  <2> QED
    BY <1>1, <2>1, <2>2 DEF LockInv, TicketInv
<1>7. Holders = {}
  BY <1>1 DEF LockInv, TicketInv, InInv, Ticketed, Holders, wait
<1>8. Holders' = {c}
  BY <1>7 DEF LockInv, TypeOK, Holders, wait
<1> QED
  BY <1>2, <1>5, <1>6, <1>7, <1>8 DEF Fifo!Get, Holders

\* The holder leaves, and with it the head of the queue.
LEMMA UnlockReleases ==
    ASSUME LockInv, NEW c \in Cpus, ticketlock_unlock(c)
    PROVE  Fifo!Release(c)
<1>1. /\ LockInv'
      /\ c \in Ticketed /\ Ticketed' = Ticketed \ {c} /\ Waiting' = Waiting - 1
      /\ \A d \in Ticketed' :
            Distance(eax[d], now_serving') = Distance(eax[d], now_serving) - 1
  BY UnlockInv
<1>2. LockInv' => OnlyQueue'
  BY QueueIs, PTL
<1>3. Waiting \in Nat /\ Waiting > 0
  BY <1>1, WaitingFits
<1>4. eax' = eax /\ eax[c] = now_serving /\ pc[c] = "in"
  BY DEF ticketlock_unlock, LockInv, InInv
<1>5. ASSUME NEW q, q = Queue PROVE Queue' = Tail(q)
  <2>1. q \in Seq(Cpus) /\ ByDistance(q)
    BY <1>5, QueueByDistance
  <2>2. Tail(q) \in Seq(Cpus) /\ Len(Tail(q)) = Waiting - 1
    BY <1>3, <2>1 DEF ByDistance
  <2>3. ASSUME NEW i \in 1 .. Waiting - 1
        PROVE  /\ Tail(q)[i] \in Ticketed \ {c}
               /\ Distance(eax[Tail(q)[i]], now_serving) = i
    <3>1. Tail(q)[i] = q[i + 1]
      BY <1>3, <2>1 DEF ByDistance
    <3>2. q[i + 1] \in Ticketed /\ Distance(eax[q[i + 1]], now_serving) = i
      BY <1>3, <2>1 DEF ByDistance
    <3>3. Distance(eax[c], now_serving) = 0
      BY <1>4, DistanceInjective DEF LockInv, TypeOK
    <3>4. q[i + 1] # c
      BY <1>3, <3>2, <3>3
    <3> QED
      BY <3>1, <3>2, <3>4, Zenon
  <2>4. ByDistance(Tail(q))'
    <3> SUFFICES ASSUME NEW s, s = Tail(q) PROVE ByDistance(s)'
      OBVIOUS
    <3>1. \A i \in 1 .. Waiting - 1 :
             s[i] \in Ticketed' /\ Distance(eax[s[i]], now_serving') = i - 1
      BY <1>1, <2>3
    <3>2. Len(s) = Waiting' /\ Waiting' = Waiting - 1 /\ eax' = eax
      BY <1>1, <1>4, <2>2
    <3> QED
      BY <3>1, <3>2 DEF ByDistance, Distance
  <2> QED
    BY <1>1, <1>2, <2>2, <2>4 DEF OnlyQueue
<1>6. Holders = {c}
  BY <1>4, InAlone DEF MutualExclusion, Holders
<1>7. Holders' = {}
  BY <1>6 DEF ticketlock_unlock, LockInv, TypeOK, Holders
<1> QED
  BY <1>5, <1>6, <1>7 DEF Fifo!Release, Holders

\* The ticket lock is a fair lock: at most one holder, served in the order of
\* the tickets, for any number of processors and however often the counters
\* wrap.
THEOREM LockIsFifo == Spec => FirstComeFirstServed
<1>1. Init => Fifo!Init
  <2> SUFFICES ASSUME Init PROVE Fifo!Init
    OBVIOUS
  <2>1. LockInv /\ Waiting = 0
    BY LockInitInv, FS_EmptySet DEF Init, Waiting, Ticketed
  <2>2. Queue \in Seq(Cpus) /\ Len(Queue) = 0
    BY <2>1, QueueByDistance DEF ByDistance
  <2>3. Queue = <<>>
    BY <2>2
  <2> QED
    BY <2>3 DEF Init, Fifo!Init
<1>2. LockInv /\ LockInv' /\ [Next]_vars => [Fifo!Next]_(Fifo!vars)
  <2> SUFFICES ASSUME LockInv, LockInv', [Next]_vars PROVE [Fifo!Next]_(Fifo!vars)
    OBVIOUS
  <2> USE DEF Fifo!vars
  <2>1. CASE UNCHANGED vars
    <3>1. Ticketed' = Ticketed
      BY <2>1 DEF vars, Ticketed
    <3>2. Queue' = Queue
      BY <2>1, <3>1, SameQueue DEF vars
    <3> QED
      BY <2>1, <3>2 DEF vars
  <2>2. ASSUME NEW c \in Cpus, load(c) \/ (take(c) /\ next_ticket # eax[c])
        PROVE  UNCHANGED Fifo!vars
    <3>1. Ticketed' = Ticketed /\ now_serving' = now_serving
      BY <2>2 DEF load, take, Ticketed, LockInv, TypeOK
    <3>2. \A d \in Ticketed : eax'[d] = eax[d]
      BY <2>2 DEF load, take, Ticketed, LockInv, TypeOK
    <3>3. Queue' = Queue
      BY <3>1, <3>2, SameQueue
    <3>4. Holders' = Holders
      BY <2>2 DEF load, take, Holders, LockInv, TypeOK
    <3> QED
      BY <3>3, <3>4 DEF Holders
  <2> QED
    BY <2>1, <2>2, TakeAsks, WaitGets, UnlockReleases DEF Next, Step, Fifo!Next
<1> QED
  BY <1>1, <1>2, LockInvariance, PTL DEF Spec, FirstComeFirstServed, Fifo!Spec
----------------------------------------------------------------------------
(* The reader-writer lock: its word agrees with where the processors are.  *)
RwInv == RwLock(Cpus, SIGN, l, rwpc)

\* What the lock word can count.
LEMMA RwBitsFacts == IsFiniteSet(Cpus) /\ SIGN \in Nat /\ Cardinality(Cpus) < SIGN
  BY RwBits DEF rw!RwAssumption, rw!IsFiniteSet, rw!Cardinality, IsFiniteSet, Cardinality

\* Nobody has the lock at first.
LEMMA RwInitInv == rw!Init => RwInv
<1> SUFFICES ASSUME rw!Init PROVE RwInv
  OBVIOUS
<1>1. RwReaders(Cpus, rwpc) = {} /\ rwpc \in [Cpus -> {"out", "wait_sh", "sh", "ex"}]
  BY DEF RwReaders, rw!Init
<1> QED
  BY <1>1, FS_EmptySet DEF RwInv, RwLock, rw!Init

\* Every step of the lock keeps the agreement.
LEMMA RwNextInv == RwInv /\ [rw!Next]_(rw!vars) => RwInv'
<1> SUFFICES ASSUME RwInv, [rw!Next]_(rw!vars) PROVE RwInv'
  OBVIOUS
<1>1. CASE UNCHANGED rw!vars
  BY <1>1 DEF rw!vars, RwInv
<1>2. ASSUME NEW c \in Cpus,
             \/ rw!rw_spinlock_lock_sh(c) \/ rw!rw_spinlock_wait_sh(c) \/ rw!rw_spinlock_unlock_sh(c)
             \/ rw!rw_spinlock_lock_ex(c) \/ rw!rw_spinlock_unlock_ex(c)
      PROVE  RwInv'
  <2>1. RwLock(Cpus, SIGN, l, rwpc)
    BY DEF RwInv
  <2>2. /\ rwpc[c] = "out" => RwLock(Cpus, SIGN, (l + 1) % (2 * SIGN),
                                     [rwpc EXCEPT ![c] = IF l >= SIGN THEN "wait_sh" ELSE "sh"])
        /\ rwpc[c] = "wait_sh" /\ ~(l >= SIGN) => RwLock(Cpus, SIGN, l, [rwpc EXCEPT ![c] = "sh"])
        /\ rwpc[c] = "sh" => RwLock(Cpus, SIGN, (l - 1) % (2 * SIGN), [rwpc EXCEPT ![c] = "out"])
        /\ rwpc[c] = "out" /\ l = 0 => RwLock(Cpus, SIGN, SIGN, [rwpc EXCEPT ![c] = "ex"])
        /\ rwpc[c] = "ex" => RwLock(Cpus, SIGN, l % SIGN, [rwpc EXCEPT ![c] = "out"])
    BY <2>1, RwBitsFacts, RwOperations
  <2> QED
    BY <1>2, <2>2
    DEF RwInv, rw!Goto, rw!Negative, rw!Idle, rw!WithoutWriter, rw!rw_spinlock_lock_sh,
        rw!rw_spinlock_wait_sh, rw!rw_spinlock_unlock_sh, rw!rw_spinlock_lock_ex,
        rw!rw_spinlock_unlock_ex
<1> QED
  BY <1>1, <1>2 DEF rw!Next

\* The inductive invariant holds in every reachable state.
THEOREM RwInvariance == rw!Spec => []RwInv
  BY RwInitInv, RwNextInv, PTL DEF rw!Spec

(* A writer has the lock alone, for any number of processors: readers that *)
(* come while it has it count themselves in the word and wait.             *)
THEOREM WriterExcludes == rw!Spec => []rw!WriterAlone
<1>1. RwInv => rw!WriterAlone
  BY DEF RwInv, RwLock, rw!WriterAlone, rw!At
<1> QED
  BY <1>1, RwInvariance, PTL

(* The lock word is what the tests of its sign and its zero take it for.   *)
THEOREM WordCountsReaders == rw!Spec => []rw!LockWord
<1>1. RwInv => rw!LockWord
  <2> SUFFICES ASSUME RwInv PROVE rw!LockWord
    OBVIOUS
  <2>1. rw!At({"wait_sh", "sh"}) = RwReaders(Cpus, rwpc)
    BY DEF rw!At, RwReaders
  <2>2. PICK n : n = Cardinality(RwReaders(Cpus, rwpc))
    OBVIOUS
  <2>3. n \in Nat /\ n < SIGN
    BY <2>2, RwBitsFacts, RwReadersFit
  <2>4. rw!Cardinality(rw!At({"wait_sh", "sh"})) = n
    BY <2>1, <2>2 DEF rw!Cardinality, Cardinality
  <2>5. CASE rw!At({"ex"}) = {}
    <3>1. l = n
      BY <2>2, <2>5 DEF RwInv, RwLock, rw!At
    <3> QED
      BY <2>3, <2>4, <2>5, <3>1, RwBitsFacts, RwArithmetic DEF rw!LockWord, rw!Negative
  <2>6. CASE rw!At({"ex"}) # {}
    <3>1. l = SIGN + n
      BY <2>2, <2>6 DEF RwInv, RwLock, rw!At
    <3> QED
      BY <2>3, <2>4, <2>6, <3>1, RwBitsFacts, RwArithmetic DEF rw!LockWord, rw!Negative
  <2> QED
    BY <2>5, <2>6
<1> QED
  BY <1>1, RwInvariance, PTL

(* Beside other locks it behaves as on its own: a writer is alone, for any *)
(* number of processors that the lock word can count.                      *)
THEOREM WriterAloneBeside == LocksSpec => []WriterAlone
<1>1. LocksInit => rw!Init
  BY DEF LocksInit
<1>2. [LocksNext]_both => [rw!Next]_(rw!vars)
  BY DEF LocksNext, both, rwvars, rw!vars
<1>3. LocksSpec => rw!Spec
  BY <1>1, <1>2, PTL DEF LocksSpec, rw!Spec
<1>4. rw!WriterAlone => WriterAlone
  BY DEF WriterAlone
<1> QED
  BY <1>3, <1>4, WriterExcludes, PTL
----------------------------------------------------------------------------
(* The clocks.                                                             *)

Places == {"off", "sync1", "sync2", "tsc2", "timediff", "wakeup", "idle", "rdtsc", "publish"}

(* What the arithmetic needs; Times of TimeTypeOK is bounded for TLC.      *)
NumbersInv ==
    /\ now \in Int /\ reset \in Int /\ reset <= now
    /\ uefi \in BOOLEAN /\ initsync \in BOOLEAN
    /\ at \in [CPUs -> Places]
    /\ tsc \in [CPUs -> Int] /\ timediff \in [CPUs -> Int]
    /\ lasttime \in [CPUs -> Int] /\ time \in [CPUs -> Int]
    /\ lastcputime \in Int /\ atsync \in Int

(* Only between the reset of the counters and time_wakeup may the value    *)
(* read at the start be ahead of the counter.                              *)
TscInv == \A c \in CPUs : at[c] # "wakeup" => tsc[c] <= now - reset

(* What a processor c started later can rely on.  While the boot processor *)
(* holds initsync, c is at most waiting for it, and the only call of       *)
(* get_cpu_time is the boot processor's: nobody changes lastcputime under  *)
(* it.  Once initsync is released, lastcputime is not older than the       *)
(* barrier.                                                                *)
StartInv(c) ==
    /\ at[c] \in {"sync1", "sync2"} => initsync
    /\ initsync =>
        /\ at[c] \in {"sync1", "sync2", "tsc2", "timediff"}
        /\ at[BSP] \in {"sync1", "sync2", "idle", "rdtsc", "publish"}
        /\ at[BSP] \in {"idle", "rdtsc", "publish"} =>
              at[c] \in {"tsc2", "timediff"} /\ atsync <= Clock(BSP)
        /\ at[BSP] \in {"rdtsc", "publish"} => lasttime[BSP] = lastcputime
        /\ at[BSP] = "publish" => atsync <= time[BSP]
    /\ at[c] \in {"tsc2", "timediff"} /\ ~initsync => atsync <= lastcputime

LateInv == uefi => \A c \in CPUs \ {BSP} : StartInv(c)

TimeInv == NumbersInv /\ TscInv /\ LateInv
----------------------------------------------------------------------------
\* The counters start at zero, and with UEFI the others are off.
LEMMA TimeInitInv == TimeInit => TimeInv
<1> SUFFICES ASSUME TimeInit PROVE TimeInv
  OBVIOUS
<1> USE CpuTimeAssumption DEF TimeInit, All
<1>1. NumbersInv
  <2>1. at \in [CPUs -> Places]
    BY DEF Places
  <2>2. uefi \in BOOLEAN /\ initsync \in BOOLEAN
    BY Zenon
  <2>3. now \in Int /\ reset \in Int /\ reset <= now /\ lastcputime \in Int /\ atsync \in Int
    OBVIOUS
  <2>4. \A f \in {tsc, timediff, lasttime, time} : f \in [CPUs -> Int]
    OBVIOUS
  <2> QED
    BY <2>1, <2>2, <2>3, <2>4 DEF NumbersInv
<1>2. TscInv
  BY DEF TscInv
<1>3. LateInv
  BY DEF LateInv, StartInv
<1> QED
  BY <1>1, <1>2, <1>3 DEF TimeInv

\* Time passes: every clock only goes forward.
LEMMA TickInv == TimeInv /\ tick => TimeInv'
<1> SUFFICES ASSUME TimeInv, tick PROVE TimeInv'
  OBVIOUS
<1> USE CpuTimeAssumption DEF TimeInv, tick, calls
<1>1. NumbersInv'
  BY DEF NumbersInv
<1>2. TscInv'
  BY DEF NumbersInv, TscInv
<1>3. LateInv'
  BY DEF NumbersInv, LateInv, StartInv, Clock, Rdtsc
<1> QED
  BY <1>1, <1>2, <1>3

\* A barrier.  If a processor started later takes part, initsync is held.
LEMMA SyncInv ==
    ASSUME NEW n \in {"sync1", "sync2"}, NEW to \in [CPUs -> Places \ {"wakeup", "off"}],
           TimeInv, Sync(n, to),
           n = "sync1" => \A c \in CPUs : to[c] = "sync2",
           n = "sync2" => /\ \A c \in CPUs \ {BSP} : to[c] = "tsc2"
                          /\ initsync => to[BSP] = "idle"
    PROVE  TimeInv'
<1> USE CpuTimeAssumption DEF TimeInv, Sync, calls
<1>1. NumbersInv'
  BY DEF NumbersInv, Clock, Rdtsc, Places
<1>2. TscInv'
  BY DEF NumbersInv, TscInv, Places
<1>3. LateInv'
  <2> SUFFICES ASSUME uefi, NEW d \in CPUs \ {BSP} PROVE StartInv(d)'
    BY DEF LateInv
  <2>1. StartInv(d)
    BY DEF LateInv
  <2>2. CASE at[d] = "off"
    BY <2>1, <2>2 DEF NumbersInv, StartInv
  <2>3. CASE at[d] # "off"
    <3>1. at[d] = n /\ initsync /\ at[BSP] = n
      BY <2>1, <2>3 DEF StartInv
    <3> QED
      BY <3>1 DEF NumbersInv, StartInv, Clock, Rdtsc
  <2> QED
    BY <2>2, <2>3
<1> QED
  BY <1>1, <1>2, <1>3

\* A processor reads its counter: it is not ahead of itself.
LEMMA Rdtsc2Inv ==
    ASSUME NEW c \in CPUs, TimeInv, rdtsc2(c)
    PROVE  TimeInv'
<1> USE CpuTimeAssumption DEF TimeInv, rdtsc2, calls, Go
<1>1. NumbersInv'
  BY DEF NumbersInv, Rdtsc, Places
<1>2. TscInv'
  BY DEF NumbersInv, TscInv, Rdtsc
<1>3. LateInv'
  BY DEF NumbersInv, LateInv, StartInv, Clock, Rdtsc
<1> QED
  BY <1>1, <1>2, <1>3

\* A clock starts from lastcputime; a late one waits for initsync.
LEMMA InitTimediffInv ==
    ASSUME NEW c \in CPUs, TimeInv, init_timediff(c)
    PROVE  TimeInv'
<1> USE CpuTimeAssumption DEF TimeInv, init_timediff, calls, Go, sh
<1>1. NumbersInv'
  BY DEF NumbersInv, Rdtsc, Places
<1>2. TscInv'
  BY DEF NumbersInv, TscInv, Rdtsc
<1>3. LateInv'
  BY DEF NumbersInv, LateInv, StartInv, Clock, Rdtsc
<1> QED
  BY <1>1, <1>2, <1>3

\* The boot processor takes initsync and everybody goes to the barrier.
LEMMA InitDbspInv ==
    ASSUME TimeInv, time_init_dbsp
    PROVE  TimeInv'
<1> USE CpuTimeAssumption DEF TimeInv, time_init_dbsp, calls, All
<1>1. NumbersInv'
  BY DEF NumbersInv, Rdtsc, Places
<1>2. TscInv'
  BY DEF NumbersInv, TscInv, Rdtsc
<1>3. LateInv'
  BY DEF NumbersInv, LateInv, StartInv, Clock, Rdtsc
<1> QED
  BY <1>1, <1>2, <1>3

\* All are idle when the machine sleeps, so nobody holds initsync.
LEMMA SleepInv ==
    ASSUME TimeInv, sleep
    PROVE  TimeInv'
<1> USE CpuTimeAssumption DEF TimeInv, sleep, calls, All
<1>1. NumbersInv'
  BY DEF NumbersInv, Rdtsc, Places
<1>2. TscInv'
  BY DEF NumbersInv, TscInv, Rdtsc
<1>3. LateInv'
  BY DEF NumbersInv, LateInv, StartInv, Clock, Rdtsc
<1> QED
  BY <1>1, <1>2, <1>3

\* The counters were reset: each processor reads its own again.
LEMMA WakeupInv ==
    ASSUME NEW c \in CPUs, TimeInv, time_wakeup(c)
    PROVE  TimeInv'
<1> USE CpuTimeAssumption DEF TimeInv, time_wakeup, calls, Go, wake_tsc
<1>1. NumbersInv'
  BY DEF NumbersInv, Rdtsc, Places
<1>2. TscInv'
  BY DEF NumbersInv, TscInv, Rdtsc
<1>3. LateInv'
  BY DEF NumbersInv, LateInv, StartInv, Clock, Rdtsc
<1> QED
  BY <1>1, <1>2, <1>3

\* The first step of get_cpu_time.
LEMMA ReadLastInv ==
    ASSUME NEW c \in CPUs, TimeInv, read_last(c)
    PROVE  TimeInv'
<1> USE CpuTimeAssumption DEF TimeInv, read_last, calls, Go
<1>1. NumbersInv'
  BY DEF NumbersInv, Rdtsc, Places
<1>2. TscInv'
  BY DEF NumbersInv, TscInv, Rdtsc
<1>3. LateInv'
  BY DEF NumbersInv, LateInv, StartInv, Clock, Rdtsc
<1> QED
  BY <1>1, <1>2, <1>3

\* The second: the converted time is the processor's clock.
LEMMA ReadTscInv ==
    ASSUME NEW c \in CPUs, TimeInv, read_tsc(c)
    PROVE  TimeInv'
<1> USE CpuTimeAssumption DEF TimeInv, read_tsc, calls, Go, converted
<1>1. NumbersInv'
  BY DEF NumbersInv, Rdtsc, Places
<1>2. TscInv'
  BY DEF NumbersInv, TscInv, Rdtsc
<1>3. LateInv'
  BY DEF NumbersInv, LateInv, StartInv, Clock, Rdtsc
<1> QED
  BY <1>1, <1>2, <1>3

\* The third: lastcputime never goes back, and the boot processor's own call
\* leaves it at or after the barrier.
LEMMA PublishInv ==
    ASSUME NEW c \in CPUs, TimeInv, publish(c)
    PROVE  TimeInv'
<1> USE CpuTimeAssumption DEF TimeInv, publish, calls, Go, cmpxchg, advance
<1>1. NumbersInv'
  BY DEF NumbersInv, Rdtsc, Places
<1>2. TscInv'
  BY DEF NumbersInv, TscInv, Rdtsc
<1>3. LateInv'
  <2> SUFFICES ASSUME uefi, NEW d \in CPUs \ {BSP} PROVE StartInv(d)'
    BY DEF LateInv
  <2>1. StartInv(d) /\ (c # BSP => StartInv(c))
    BY DEF LateInv
  <2>2. lastcputime <= lastcputime' /\ atsync' = atsync
    BY DEF NumbersInv
  <2>3. CASE c = BSP
    <3>1. ~initsync'
      BY <2>3
    <3>2. initsync => atsync <= lastcputime'
      BY <2>1, <2>3 DEF NumbersInv, StartInv
    <3>3. ~initsync /\ at[d] \in {"tsc2", "timediff"} => atsync <= lastcputime'
      BY <2>1, <2>2 DEF NumbersInv, StartInv
    <3>4. at'[d] = at[d]
      BY <2>3 DEF NumbersInv
    <3>5. ~(at'[d] \in {"sync1", "sync2"})
      BY <2>1, <2>3, <3>4 DEF NumbersInv, StartInv
    <3> QED
      BY <2>2, <3>1, <3>2, <3>3, <3>4, <3>5 DEF StartInv
  <2>4. CASE c # BSP
    <3>1. ~initsync /\ ~initsync'
      BY <2>1, <2>4 DEF StartInv
    <3>2. at'[d] = at[d] \/ at'[d] = "idle"
      BY DEF NumbersInv
    <3> QED
      BY <2>1, <2>2, <3>1, <3>2 DEF NumbersInv, StartInv
  <2> QED
    BY <2>3, <2>4
<1> QED
  BY <1>1, <1>2, <1>3

\* Every step preserves the invariant.
LEMMA TimeNextInv == TimeInv /\ [TimeNext]_timeVars => TimeInv'
<1> SUFFICES ASSUME TimeInv, [TimeNext]_timeVars PROVE TimeInv'
  OBVIOUS
<1>1. CASE UNCHANGED timeVars
  BY <1>1 DEF timeVars, calls, TimeInv, NumbersInv, TscInv, LateInv, StartInv, Clock, Rdtsc
<1>2. CASE sync1
  <2>1. All("sync2") \in [CPUs -> Places \ {"wakeup", "off"}]
    BY DEF All, Places
  <2> QED
    BY <1>2, <2>1, SyncInv, CpuTimeAssumption DEF sync1, All
<1>3. CASE sync2
  <2> DEFINE to == [c \in CPUs |-> IF c = BSP /\ initsync THEN "idle" ELSE "tsc2"]
  <2>1. to \in [CPUs -> Places \ {"wakeup", "off"}]
    BY DEF Places
  <2> QED
    BY <1>3, <2>1, SyncInv, CpuTimeAssumption DEF sync2
<1> QED
  BY <1>1, <1>2, <1>3, TickInv, InitDbspInv, SleepInv, Rdtsc2Inv, InitTimediffInv,
     WakeupInv, ReadLastInv, ReadTscInv, PublishInv DEF TimeNext

\* The inductive invariant holds in every reachable state.
THEOREM TimeInvariance == TimeSpec => []TimeInv
  BY TimeInitInv, TimeNextInv, PTL DEF TimeSpec

\* The unsigned difference that get_cpu_time converts is never negative, for
\* any number of processors and any time, with BIOS and UEFI, and after a
\* sleep.
THEOREM TscNeverBehind == TimeSpec => []TscNotBehind
<1>1. TimeInv => TscNotBehind
  BY DEF TimeInv, NumbersInv, TscInv, TscNotBehind, Running, Rdtsc, Places
<1> QED
  BY <1>1, TimeInvariance, PTL

\* With UEFI, a processor started later starts from a time that the boot
\* processor took after the barrier: initsync orders the two.
THEOREM LateProcessorsInTime == TimeSpec => StartsAtTimeOfBsp
<1> DEFINE A == \A c \in CPUs : at[c] = "timediff" /\ at'[c] = "idle" /\ uefi /\ c # BSP =>
                    timediff'[c] >= atsync
<1>1. TimeInv /\ [TimeNext]_timeVars => [A]_timeVars
  <2> SUFFICES ASSUME TimeInv, TimeNext, NEW c \in CPUs,
                      at[c] = "timediff", at'[c] = "idle", uefi, c # BSP
               PROVE  timediff'[c] >= atsync
    OBVIOUS
  <2> USE CpuTimeAssumption DEF TimeInv, NumbersInv
  <2>1. init_timediff(c)
    BY DEF TimeNext, tick, sync1, sync2, Sync, time_init_dbsp, sleep, rdtsc2, init_timediff,
           time_wakeup, read_last, read_tsc, publish, Go, All, calls
  <2>2. timediff'[c] = lastcputime /\ ~initsync
    BY <2>1 DEF init_timediff, sh
  <2> QED
    BY <2>2 DEF LateInv, StartInv
<1> QED
  BY <1>1, TimeInvariance, PTL DEF TimeSpec, StartsAtTimeOfBsp
----------------------------------------------------------------------------
(* A running clock never goes back, and a time returned since the machine  *)
(* started or woke up stays behind the clock of some processor that has    *)
(* started: the boot processor may be back at a barrier, holding initsync. *)
(* A call in progress keeps the difference between the highest time at its *)
(* start and its own clock, whatever the others do in between.  No call is *)
(* in progress when the machine sleeps, and the clocks start again.        *)
Started(d) == Running(d) \/ (d = BSP /\ initsync)

CallsInv(c) ==
    /\ at[c] = "rdtsc" => \E d \in CPUs : Running(d) /\ before[c] <= Clock(d)
    /\ at[c] = "publish" =>
         /\ time[c] <= Clock(c)
         /\ \E d \in CPUs : Running(d) /\ before[c] - time[c] <= Clock(d) - Clock(c)

SkewInv ==
    /\ highest \in Int /\ before \in [CPUs -> Int] /\ 0 <= lastcputime
    /\ \A c \in CPUs : 0 <= timediff[c] /\ CallsInv(c)
    /\ highest <= 0 \/ \E d \in CPUs : Started(d) /\ highest <= Clock(d)
    /\ initsync => uefi /\ at[BSP] \in {"sync1", "sync2", "idle", "rdtsc", "publish"}

\* Nothing has been returned yet.
LEMMA SkewInitInv == TimeInit => SkewInv
  BY CpuTimeAssumption, SMTT(30) DEF TimeInit, All, SkewInv, CallsInv, Started, Running

\* The later of two times.
LEMMA MaxOfTwo ==
    ASSUME NEW a \in Int, NEW b \in Int
    PROVE  /\ Max({a, b}) \in {a, b}
           /\ a <= Max({a, b}) /\ b <= Max({a, b})
  BY DEF Max

\* A step that changes no call in progress, after which every processor that
\* had started still has, and no started clock is behind where it was.
LEMMA SkewForward ==
    ASSUME TimeInv, TimeInv', SkewInv,
           UNCHANGED <<time, highest, before>>,
           \A c \in CPUs : 0 <= timediff'[c],
           0 <= lastcputime',
           \A c \in CPUs : at[c] # at'[c] => at'[c] \notin {"rdtsc", "publish"},
           \A c \in CPUs : at'[c] \in {"rdtsc", "publish"} => Clock(c)' - Clock(c) = now' - now,
           \A c \in CPUs : Running(c) => Clock(c)' - Clock(c) >= now' - now,
           now <= now',
           \A c \in CPUs : at'[c] \in {"rdtsc", "publish"} =>
               \A d \in CPUs : Running(d) => Running(d)',
           \A d \in CPUs : Started(d) => Started(d)' /\ Clock(d) <= Clock(d)',
           initsync' => uefi' /\ at'[BSP] \in {"sync1", "sync2", "idle", "rdtsc", "publish"}
    PROVE  SkewInv'
<1> USE DEF TimeInv, NumbersInv
<1>1. \A c \in CPUs : Clock(c) \in Int /\ Clock(c)' \in Int
  BY DEF Clock, Rdtsc
<1>2. ASSUME NEW c \in CPUs, at'[c] = "rdtsc"
      PROVE  \E d \in CPUs : Running(d)' /\ before'[c] <= Clock(d)'
  <2>1. PICK d \in CPUs : Running(d) /\ before[c] <= Clock(d)
    BY <1>2 DEF SkewInv, CallsInv
  <2>2. Running(d)' /\ Clock(d) <= Clock(d)'
    BY <1>2, <2>1 DEF Started
  <2> QED
    BY <1>1, <2>1, <2>2 DEF SkewInv
<1>3. ASSUME NEW c \in CPUs, at'[c] = "publish"
      PROVE  time'[c] <= Clock(c)'
  BY <1>1, <1>3 DEF SkewInv, CallsInv
<1>4. ASSUME NEW c \in CPUs, at'[c] = "publish"
      PROVE  \E d \in CPUs : Running(d)' /\ before'[c] - time'[c] <= Clock(d)' - Clock(c)'
  <2>1. PICK d \in CPUs : Running(d) /\ before[c] - time[c] <= Clock(d) - Clock(c)
    BY <1>4 DEF SkewInv, CallsInv
  <2>2. Running(d)' /\ Clock(d)' - Clock(d) >= now' - now /\ Clock(c)' - Clock(c) = now' - now
    BY <1>4, <2>1
  <2> QED
    BY <1>1, <2>1, <2>2 DEF SkewInv
<1>5. highest' <= 0 \/ \E d \in CPUs : Started(d)' /\ highest' <= Clock(d)'
  BY <1>1 DEF SkewInv
<1> QED
  BY <1>2, <1>3, <1>4, <1>5 DEF SkewInv, CallsInv

\* Only time passes, or a step outside get_cpu_time is made.
LEMMA SkewOutside ==
    ASSUME TimeInv, TimeInv', SkewInv,
           \/ tick \/ time_init_dbsp \/ sleep
           \/ \E c \in CPUs : rdtsc2(c) \/ init_timediff(c) \/ time_wakeup(c)
    PROVE  SkewInv'
<1> USE CpuTimeAssumption DEF TimeInv, NumbersInv, calls
<1>1. CASE sleep
  BY <1>1 DEF SkewInv, sleep, All, CallsInv
<1>2. CASE tick
  BY <1>2, SkewForward DEF tick, SkewInv, Started, Running, Clock, Rdtsc
<1>3. CASE time_init_dbsp
  <2>1. \A c \in CPUs : at'[c] = "sync1"
    BY <1>3 DEF time_init_dbsp, All
  <2>2. \A c \in CPUs : Clock(c)' = Clock(c) /\ (Started(c) => c = BSP)
    BY <1>3 DEF time_init_dbsp, Clock, Rdtsc, Started, Running
  <2>3. Started(BSP)'
    BY <1>3 DEF time_init_dbsp, Started
  <2>4. \A c \in CPUs : Clock(c) \in Int
    BY DEF Clock, Rdtsc
  <2>5. highest' <= 0 \/ \E d \in CPUs : Started(d)' /\ highest' <= Clock(d)'
    BY <1>3, <2>2, <2>3 DEF time_init_dbsp, SkewInv
  <2> QED
    BY <1>3, <2>1, <2>3, <2>5 DEF time_init_dbsp, SkewInv, CallsInv
<1>4. ASSUME NEW c \in CPUs, rdtsc2(c) PROVE SkewInv'
  BY <1>4, SkewForward DEF rdtsc2, Go, SkewInv, Started, Running, Clock, Rdtsc
<1>5. ASSUME NEW c \in CPUs, init_timediff(c) PROVE SkewInv'
  BY <1>5, SkewForward DEF init_timediff, Go, sh, SkewInv, Started, Running, Clock, Rdtsc
<1>6. ASSUME NEW c \in CPUs, time_wakeup(c) PROVE SkewInv'
  BY <1>6, SkewForward DEF time_wakeup, Go, SkewInv, Started, Running, Clock, Rdtsc
<1> QED
  BY <1>1, <1>2, <1>3, <1>4, <1>5, <1>6

\* A barrier: no call is in progress at it.
LEMMA SkewSync ==
    ASSUME TimeInv, TimeInv', SkewInv, sync1 \/ sync2
    PROVE  SkewInv'
<1> USE CpuTimeAssumption DEF TimeInv, NumbersInv, calls, Sync, sync1, sync2, All
<1>1. UNCHANGED <<slept, timediff, lastcputime, initsync, time, highest, before>>
  OBVIOUS
<1>2. \A c \in CPUs : Clock(c)' = Clock(c)
  BY DEF Clock, Rdtsc
<1>3. \A c \in CPUs : /\ at[c] \in {"off", "sync1", "sync2"}
                      /\ at'[c] \notin {"rdtsc", "publish"}
  OBVIOUS
<1>4. \A c \in CPUs : Started(c) => c = BSP /\ initsync
  BY <1>3 DEF Started, Running
<1>5. initsync => at'[BSP] \in {"sync1", "sync2", "idle", "rdtsc", "publish"}
  BY DEF SkewInv
<1>6. initsync => Started(BSP)'
  BY <1>1 DEF Started
<1> QED
  BY <1>1, <1>2, <1>3, <1>4, <1>5, <1>6 DEF SkewInv, CallsInv

\* The first step of get_cpu_time: some running clock has reached the highest
\* time, if only the processor's own.
LEMMA SkewReadLast ==
    ASSUME TimeInv, TimeInv', SkewInv, NEW c \in CPUs, read_last(c)
    PROVE  SkewInv'
<1> USE CpuTimeAssumption DEF TimeInv, NumbersInv, calls, Go, read_last
<1>1. \A d \in CPUs : /\ Clock(d)' = Clock(d) /\ Clock(d) \in Int
                      /\ Running(d)' = Running(d) /\ Started(d)' = Started(d)
  BY DEF Clock, Rdtsc, Running, Started
<1>2. 0 <= Clock(c) /\ Running(c)
  BY DEF SkewInv, TscInv, Clock, Rdtsc, Running
<1>3. initsync => c = BSP
  BY DEF SkewInv, LateInv, StartInv
<1>4. \E d \in CPUs : Running(d) /\ highest <= Clock(d)
  BY <1>1, <1>2, <1>3 DEF SkewInv, Started
<1>5. CallsInv(c)'
  BY <1>1, <1>4 DEF CallsInv, SkewInv
<1>6. \A d \in CPUs \ {c} : CallsInv(d)'
  BY <1>1 DEF CallsInv, SkewInv
<1> QED
  BY <1>1, <1>5, <1>6 DEF SkewInv

\* The second step: what the time read lacks of the highest one, the clock
\* lacks of a running one.
LEMMA SkewReadTsc ==
    ASSUME TimeInv, TimeInv', SkewInv, NEW c \in CPUs, read_tsc(c)
    PROVE  SkewInv'
<1> USE CpuTimeAssumption DEF TimeInv, NumbersInv, calls, Go, read_tsc
<1>1. \A d \in CPUs : /\ Clock(d)' = Clock(d) /\ Clock(d) \in Int
                      /\ Running(d)' = Running(d) /\ Started(d)' = Started(d)
  BY DEF Clock, Rdtsc, Running, Started
<1>2. time'[c] = Clock(c)
  BY DEF converted, Clock
<1>3. CallsInv(c)'
  BY <1>1, <1>2 DEF CallsInv, SkewInv
<1>4. \A d \in CPUs \ {c} : CallsInv(d)'
  BY <1>1 DEF CallsInv, SkewInv
<1> QED
  BY <1>1, <1>3, <1>4 DEF SkewInv

\* The third: the call returns a time not ahead of its clock, which at most
\* has been moved forward with the time returned.
LEMMA PublishClocks ==
    ASSUME TimeInv, SkewInv, NEW c \in CPUs, publish(c)
    PROVE  /\ \A d \in CPUs : Clock(d) \in Int /\ Clock(d)' \in Int /\ Clock(d) <= Clock(d)'
           /\ \A d \in CPUs \ {c} : Clock(d)' = Clock(d) /\ time'[d] = time[d]
           /\ \A d \in CPUs : 0 <= timediff'[d]
           /\ time'[c] \in Int /\ time'[c] - Clock(c)' = time[c] - Clock(c)
           /\ time'[c] <= Clock(c)'
           /\ lastcputime <= lastcputime'
<1> USE CpuTimeAssumption DEF TimeInv, NumbersInv, calls, Go, publish, cmpxchg, advance
<1>1. time[c] <= Clock(c)
  BY DEF SkewInv, CallsInv
<1>2. \A d \in CPUs : 0 <= timediff[d]
  BY DEF SkewInv
<1>3. CASE lasttime[c] <= time[c]
  BY <1>1, <1>2, <1>3 DEF Clock, Rdtsc
<1>4. CASE ~(lasttime[c] <= time[c])
  BY <1>1, <1>2, <1>4 DEF Clock, Rdtsc
<1> QED
  BY <1>3, <1>4

LEMMA SkewPublish ==
    ASSUME TimeInv, TimeInv', SkewInv, NEW c \in CPUs, publish(c)
    PROVE  SkewInv'
<1> USE CpuTimeAssumption DEF TimeInv, NumbersInv, calls
<1>1. /\ Go(c, "publish", "idle")
      /\ highest' = Max({highest, time'[c]})
      /\ initsync' = (initsync /\ c # BSP)
      /\ UNCHANGED <<slept, uefi, before>>
  BY DEF publish
<1>2. lastcputime <= lastcputime'
  BY DEF publish, cmpxchg
<1>3. highest' \in {highest, time'[c]}
  BY <1>1, MaxOfTwo DEF SkewInv
<1>4. /\ \A d \in CPUs : Clock(d) \in Int /\ Clock(d)' \in Int /\ Clock(d) <= Clock(d)'
      /\ \A d \in CPUs \ {c} : Clock(d)' = Clock(d) /\ time'[d] = time[d]
      /\ \A d \in CPUs : 0 <= timediff'[d]
      /\ time'[c] \in Int /\ time'[c] <= Clock(c)'
  BY PublishClocks
<1>5. \A d \in CPUs : Running(d)' = Running(d) /\ (Started(d) => Started(d)')
  BY <1>1 DEF Go, Running, Started
<1>6. Running(c)
  BY <1>1 DEF Go, Running
<1>7. \A d \in CPUs : CallsInv(d)'
  <2> SUFFICES ASSUME NEW d \in CPUs PROVE CallsInv(d)'
    OBVIOUS
  <2>1. CASE d = c
    BY <1>1, <2>1 DEF Go, CallsInv
  <2>2. CASE d # c
    BY <1>1, <1>4, <1>5, <2>2 DEF Go, CallsInv, SkewInv
  <2> QED
    BY <2>1, <2>2
<1>8. highest' <= 0 \/ \E d \in CPUs : Started(d)' /\ highest' <= Clock(d)'
  <2>1. CASE highest' = highest
    BY <1>4, <1>5, <2>1 DEF SkewInv
  <2>2. CASE highest' = time'[c]
    BY <1>4, <1>5, <1>6, <2>2 DEF Started
  <2> QED
    BY <1>3, <2>1, <2>2
<1>9. initsync' => uefi' /\ at'[BSP] \in {"sync1", "sync2", "idle", "rdtsc", "publish"}
  BY <1>1, <1>5 DEF Go, SkewInv
<1>10. highest' \in Int /\ before' \in [CPUs -> Int] /\ 0 <= lastcputime'
  BY <1>1, <1>2, <1>3, <1>4 DEF SkewInv
<1> QED
  BY <1>4, <1>7, <1>8, <1>9, <1>10 DEF SkewInv

\* Every step preserves it.
LEMMA SkewNextInv == TimeInv /\ TimeInv' /\ SkewInv /\ [TimeNext]_timeVars => SkewInv'
<1> SUFFICES ASSUME TimeInv, TimeInv', SkewInv, [TimeNext]_timeVars PROVE SkewInv'
  OBVIOUS
<1>1. CASE UNCHANGED timeVars
  BY <1>1 DEF timeVars, calls, SkewInv, CallsInv, Started, Running, Clock, Rdtsc
<1> QED
  BY <1>1, SkewOutside, SkewSync, SkewReadLast, SkewReadTsc, SkewPublish DEF TimeNext

\* A call returns a time older than one returned before it only by as much as
\* its clock is behind another running one, for any number of processors and
\* however their steps interleave.
THEOREM OnlyBehindBySkew == TimeSpec => BehindOnlyBySkew
<1> DEFINE A == \A c \in CPUs : at[c] = "publish" /\ at'[c] = "idle" =>
                    \E d \in CPUs : Running(d) /\ before[c] - time'[c] <= Clock(d)' - Clock(c)'
<1>1. TimeSpec => []SkewInv
  BY TimeInvariance, SkewInitInv, SkewNextInv, PTL DEF TimeSpec
<1>2. TimeInv /\ SkewInv /\ [TimeNext]_timeVars => [A]_timeVars
  <2> SUFFICES ASSUME TimeInv, SkewInv, TimeNext, NEW c \in CPUs,
                      at[c] = "publish", at'[c] = "idle"
               PROVE  \E d \in CPUs : Running(d) /\ before[c] - time'[c] <= Clock(d)' - Clock(c)'
    OBVIOUS
  <2> USE CpuTimeAssumption DEF TimeInv, NumbersInv
  <2>1. publish(c)
    BY DEF TimeNext, tick, sync1, sync2, Sync, time_init_dbsp, sleep, rdtsc2, init_timediff,
           time_wakeup, read_last, read_tsc, publish, Go, All, calls
  <2>2. /\ \A d \in CPUs : Clock(d) \in Int /\ Clock(d)' \in Int /\ Clock(d) <= Clock(d)'
        /\ time'[c] \in Int /\ time'[c] - Clock(c)' = time[c] - Clock(c)
    BY <2>1, PublishClocks
  <2>3. PICK d \in CPUs : Running(d) /\ before[c] - time[c] <= Clock(d) - Clock(c)
    BY DEF SkewInv, CallsInv
  <2>4. CASE d = c
    BY <2>2, <2>3, <2>4 DEF SkewInv
  <2>5. CASE d # c
    BY <2>2, <2>3, <2>5 DEF SkewInv
  <2> QED
    BY <2>4, <2>5
<1> QED
  BY <1>1, <1>2, TimeInvariance, PTL DEF TimeSpec, BehindOnlyBySkew
=============================================================================

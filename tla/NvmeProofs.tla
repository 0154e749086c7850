----------------------------- MODULE NvmeProofs -----------------------------
(***************************************************************************)
(* Proofs about the queue pair of NvmeQueue, for rings of any size and any *)
(* number of commands.                                                     *)
(***************************************************************************)
EXTENDS NvmeQueue, CoreTheorems

SQ == 0..N-1
CQ == 0..M-1
Bit == {0, 1}
Entry == [cid : Int, phase : Bit, head : SQ, req : Int]
Places == {"idle", "fetch", "submit", "comp", "loop", "deliver", "free", "relock", "again"}

NumbersInv ==
    /\ issued \in 0..MAXG /\ hosts \in 0..MAXH
    /\ gsq \in [SQ -> Int] /\ hsq \in [SQ -> Int \X Int] /\ req_slot \in [SQ -> Int]
    /\ inflight \subseteq Int \X Int
    /\ gtail \in SQ /\ gsqhd \in SQ /\ g_tail \in SQ /\ g_cur_tail \in SQ /\ g_new_tail \in SQ
    /\ h_tail \in SQ /\ h_head \in SQ /\ c_tail \in SQ /\ c_head \in SQ /\ next_slot \in SQ
    /\ gcq \in [CQ -> Entry] /\ hcq \in [CQ -> Entry] /\ cent \in Entry
    /\ gcqhead \in CQ /\ g_head \in CQ /\ g_new_head \in CQ
    /\ h_cqhead \in CQ /\ last_write \in CQ /\ c_cqtail \in CQ
    /\ gcqphase \in Bit /\ g_phase \in Bit /\ h_phase \in Bit /\ c_phase \in Bit
    /\ first = <<>> \/ first \in CQ \X Entry
    /\ answered \in [Guest -> Int]
    /\ queuing_g \in Seq(Int) /\ queuing_h \in Seq(Int)
    /\ n_slots_used \in Int /\ not_ack_g \in Int /\ not_ack_h \in Int /\ creq \in Int
    /\ pc \in [Contexts -> Places]

(* process_comp_queue has its lock, and a request in hand between taking   *)
(* it from its slot and freeing it.                                        *)
Delivering == \E c \in Contexts : pc[c] = "deliver"
LockInv ==
    /\ \A c \in Contexts : pc[c] \in {"loop", "deliver", "free"} <=> comp_lock = c
    /\ creq # None <=> \E c \in Contexts : pc[c] \in {"deliver", "free"}
    /\ Delivering => h_cqhead # c_cqtail /\ cent = hcq[h_cqhead] /\ creq = cent.req

(* b is between a and c in a ring of n entries.                            *)
Between(a, b, c, n) == Dist(a, b, n) + Dist(b, c, n) = Dist(a, c, n)

(* The heads of a submission ring that the entries of a completion ring    *)
(* report go forward and do not pass the consumer.                         *)
HeadsOK(head, cur, from, to, heads) ==
    /\ \A p \in Window(from, to, M) : Dist(head, heads[p], N) <= Dist(head, cur, N)
    /\ \A p, q \in Window(from, to, M) : Dist(from, p, M) <= Dist(from, q, M) =>
          Dist(head, heads[p], N) <= Dist(head, heads[q], N)

(* The phase bits tell the entries of this round from those of the last.   *)
PhasesOK(phases, tail, tphase, head, hphase) ==
    /\ \A p \in CQ : phases[p] = IF p < tail THEN tphase ELSE 1 - tphase
    /\ hphase = IF head <= tail THEN tphase ELSE 1 - tphase

(* The guest's completion ring as it is when the first answer is shown.    *)
Eff == IF first = <<>> THEN gcq ELSE [gcq EXCEPT ![first[1]] = first[2]]
Heads(ring) == [p \in CQ |-> ring[p].head]
Phases(ring) == [p \in CQ |-> ring[p].phase]

GuestRingsInv ==
    /\ Between(gsqhd, g_tail, gtail, N) /\ Between(g_tail, g_cur_tail, gtail, N)
    /\ Dist(g_cur_tail, g_new_tail, N) <= Dist(g_cur_tail, gtail, N)
    /\ HeadsOK(gsqhd, g_tail, gcqhead, g_head, Heads(Eff))
    /\ Between(g_new_head, gcqhead, g_head, M)
    /\ PhasesOK(Phases(Eff), g_head, g_phase, gcqhead, gcqphase)
    /\ first # <<>> => /\ first[1] \in Window(gcqhead, g_head, M)
                       /\ gcq[first[1]].phase = 1 - first[2].phase

HostRingsInv ==
    /\ c_tail = h_tail
    /\ Between(h_head, c_head, h_tail, N)
    /\ HeadsOK(h_head, c_head, h_cqhead, c_cqtail, Heads(hcq))
    /\ Between(last_write, h_cqhead, c_cqtail, M)
    /\ PhasesOK(Phases(hcq), c_cqtail, c_phase, h_cqhead, h_phase)

(* Where the identifier of a request at the controller is.                 *)
Holds(s, r) == s \in SQ /\ req_slot[s] = r /\ r # None
Unfetched == Window(c_head, c_tail, N)
Unseen == Window(h_cqhead, c_cqtail, M) \ (IF Delivering THEN {h_cqhead} ELSE {})
OwnInv ==
    /\ \A i \in Unfetched : Holds(hsq[i][1], hsq[i][2])
    /\ \A e \in inflight : Holds(e[1], e[2])
    /\ \A j \in Unseen : Holds(hcq[j].cid, hcq[j].req)
    /\ \A s \in SQ : req_slot[s] # None =>
          \/ \E i \in Unfetched : hsq[i][1] = s
          \/ \E e \in inflight : e[1] = s
          \/ \E j \in Unseen : hcq[j].cid = s
    /\ \A i, j \in Unfetched : hsq[i][1] = hsq[j][1] => i = j
    /\ \A i, j \in Unseen : hcq[i].cid = hcq[j].cid => i = j
    /\ \A i \in Unfetched, e \in inflight : hsq[i][1] # e[1]
    /\ \A i \in Unfetched, j \in Unseen : hsq[i][1] # hcq[j].cid
    /\ \A e \in inflight, j \in Unseen : e[1] # hcq[j].cid

(* The counters of the driver.                                             *)
SlotsOf(S) == {s \in SQ : req_slot[s] \in S}
InHand(S) == IF Delivering /\ creq \in S THEN 1 ELSE 0
CountsInv ==
    /\ n_slots_used = Cardinality(SlotsOf(Guest \cup Host))
    /\ not_ack_g = Cardinality(SlotsOf(Guest)) + InHand(Guest) + Dist(g_new_head, g_head, M)
    /\ not_ack_h = Cardinality(SlotsOf(Host)) + InHand(Host)
    /\ not_ack_g = 0 \/ not_ack_h = 0
    /\ n_slots_used <= N - 1
    /\ Dist(last_write, h_cqhead, M) = Dist(g_new_head, g_head, M)
    /\ \A i \in Window(last_write, h_cqhead, M) : hcq[i].req \in Guest

(* Every command of the guest is in one place: commands go through its     *)
(* ring and the queue in order, and from there on one by one.              *)
Fetched == issued - Dist(g_cur_tail, gtail, N)
Submitted == Fetched - Len(queuing_g)
Elsewhere(k) == (\A s \in SQ : req_slot[s] # k) /\ (Delivering => creq # k)
Answers == Window(gcqhead, g_head, M)
InQueuesInv ==
    /\ \A p \in Window(g_cur_tail, gtail, N) : gsq[p] = issued + 1 - Dist(p, gtail, N)
    /\ 0 <= Submitted
    /\ \A i \in 1..Len(queuing_g) : queuing_g[i] = Submitted + i
    /\ \A i \in 1..Len(queuing_h) : queuing_h[i] \in Host
InSlotsInv ==
    /\ \A s \in SQ : req_slot[s] \in 1..Submitted \cup Host \cup {None}
    /\ Delivering => creq \in 1..Submitted \cup Host
    /\ \A s, t \in SQ : req_slot[s] = req_slot[t] /\ req_slot[s] \in Guest => s = t
    /\ Delivering /\ creq \in Guest => \A s \in SQ : req_slot[s] # creq
AnswersInv ==
    /\ \A p \in Answers : Eff[p].cid \in 1..Submitted /\ Elsewhere(Eff[p].cid)
    /\ \A p, q \in Answers : Eff[p].cid = Eff[q].cid => p = q
    /\ \A k \in Guest : answered[k] \in {0, 1}
    /\ \A k \in Guest : answered[k] = 1 =>
          k <= Submitted /\ Elsewhere(k) /\ \A p \in Answers : Eff[p].cid # k
CommandsInv == InQueuesInv /\ InSlotsInv /\ AnswersInv
ExecutedInv ==
    /\ \A j \in Window(h_cqhead, c_cqtail, M) : hcq[j].req \in executed
    /\ Delivering => creq \in executed
    /\ \A p \in Answers : Eff[p].cid \in executed
    /\ \A k \in Guest : answered[k] = 1 => k \in executed

QueueInv == /\ NumbersInv /\ LockInv /\ GuestRingsInv /\ HostRingsInv /\ OwnInv
            /\ CountsInv /\ CommandsInv /\ ExecutedInv
----------------------------------------------------------------------------
(* Arithmetic of rings.                                                    *)

\* The remainder of a number below 2n.
LEMMA SmallRemainder ==
    ASSUME NEW n \in Nat \ {0}, NEW x \in 0 .. 2*n - 1
    PROVE  x % n = IF x < n THEN x ELSE x - n
  OBVIOUS

\* The next position, and the distance between two.
LEMMA IncValue ==
    ASSUME NEW n \in Nat \ {0}, NEW p \in 0..n-1
    PROVE  Inc(p, n) = IF p = n - 1 THEN 0 ELSE p + 1
<1>1. PICK x \in 0 .. 2*n - 1 : x = p + 1
  OBVIOUS
<1>2. x % n = IF x < n THEN x ELSE x - n
  BY SmallRemainder
<1>3. Inc(p, n) = x % n
  BY <1>1 DEF Inc
<1> QED
  BY <1>1, <1>2, <1>3

LEMMA DistValue ==
    ASSUME NEW n \in Nat \ {0}, NEW a \in 0..n-1, NEW b \in 0..n-1
    PROVE  Dist(a, b, n) = IF a <= b THEN b - a ELSE b - a + n
<1>1. PICK x \in 0 .. 2*n - 1 : x = b + n - a
  OBVIOUS
<1>2. x % n = IF x < n THEN x ELSE x - n
  BY SmallRemainder
<1>3. Dist(a, b, n) = x % n
  BY <1>1 DEF Dist
<1> QED
  BY <1>1, <1>2, <1>3

\* What the proofs use of them.
LEMMA DistFacts ==
    ASSUME NEW n \in Nat \ {0}, NEW a \in 0..n-1, NEW b \in 0..n-1
    PROVE  /\ Inc(a, n) \in 0..n-1 /\ Dist(a, b, n) \in 0..n-1
           /\ Dist(a, a, n) = 0 /\ (Dist(a, b, n) = 0 => a = b)
           /\ Dist(a, Inc(b, n), n) = IF Dist(a, b, n) = n - 1 THEN 0 ELSE Dist(a, b, n) + 1
           /\ Dist(Inc(a, n), b, n) = IF a = b THEN n - 1 ELSE Dist(a, b, n) - 1
           /\ Dist(a, b, n) = n - 1 <=> Inc(b, n) = a
<1>1. Inc(a, n) \in 0..n-1 /\ Inc(b, n) \in 0..n-1
  BY IncValue
<1>2. Dist(a, b, n) \in 0..n-1 /\ Dist(a, a, n) = 0 /\ (Dist(a, b, n) = 0 => a = b)
  BY DistValue
<1>a. PICK i \in 0..n-1 : i = Inc(a, n)
  BY <1>1
<1>b. PICK j \in 0..n-1 : j = Inc(b, n)
  BY <1>1
<1>c. (i = IF a = n - 1 THEN 0 ELSE a + 1) /\ (j = IF b = n - 1 THEN 0 ELSE b + 1)
  BY <1>a, <1>b, IncValue
<1>d. /\ Dist(a, b, n) = IF a <= b THEN b - a ELSE b - a + n
      /\ Dist(a, j, n) = IF a <= j THEN j - a ELSE j - a + n
      /\ Dist(i, b, n) = IF i <= b THEN b - i ELSE b - i + n
  BY DistValue
<1>3. Dist(a, j, n) = IF Dist(a, b, n) = n - 1 THEN 0 ELSE Dist(a, b, n) + 1
  BY <1>c, <1>d
<1>4. Dist(i, b, n) = IF a = b THEN n - 1 ELSE Dist(a, b, n) - 1
  BY <1>c, <1>d
<1>5. Dist(a, b, n) = n - 1 <=> j = a
  BY <1>c, <1>d
<1> QED
  BY <1>a, <1>b, <1>2, <1>3, <1>4, <1>5

LEMMA DistThree ==
    ASSUME NEW n \in Nat \ {0}, NEW a \in 0..n-1, NEW b \in 0..n-1, NEW c \in 0..n-1
    PROVE  /\ Dist(a, b, n) <= Dist(a, c, n) <=> Between(a, b, c, n)
           /\ Dist(a, b, n) + Dist(b, c, n) \in {Dist(a, c, n), Dist(a, c, n) + n}
           /\ Dist(a, b, n) = Dist(a, c, n) => b = c
           /\ Dist(a, c, n) = Dist(b, c, n) => a = b
  BY DistValue DEF Between

\* A position at a given distance.
LEMMA DistBack ==
    ASSUME NEW n \in Nat \ {0}, NEW d \in 0..n-1, NEW b \in 0..n-1
    PROVE  Dist(d, b, n) \in 0..n-1 /\ Dist(Dist(d, b, n), b, n) = d
  BY DistValue

\* A window grows and shrinks by one.
LEMMA WindowFacts ==
    ASSUME NEW n \in Nat \ {0}, NEW a \in 0..n-1, NEW b \in 0..n-1
    PROVE  /\ Window(a, b, n) \subseteq 0..n-1
           /\ Window(a, a, n) = {}
           /\ a # b => a \in Window(a, b, n)
           /\ b \notin Window(a, b, n)
           /\ a # b => Window(Inc(a, n), b, n) = Window(a, b, n) \ {a}
           /\ Inc(b, n) # a => Window(a, Inc(b, n), n) = Window(a, b, n) \cup {b}
<1>1. \A p \in 0..n-1 : p \in Window(a, b, n) <=> Dist(a, p, n) < Dist(a, b, n)
  BY DEF Window
<1>2. /\ Window(a, b, n) \subseteq 0..n-1
      /\ a # b => a \in Window(a, b, n)
      /\ b \notin Window(a, b, n)
  BY <1>1, DistFacts DEF Window
<1>3. Window(a, a, n) = {}
  BY DistFacts DEF Window
<1>4. ASSUME a # b PROVE Window(Inc(a, n), b, n) = Window(a, b, n) \ {a}
  <2>1. ASSUME NEW p \in 0..n-1
        PROVE  Dist(Inc(a, n), p, n) < Dist(Inc(a, n), b, n)
                 <=> Dist(a, p, n) < Dist(a, b, n) /\ p # a
    <3>1. Dist(Inc(a, n), p, n) = IF a = p THEN n - 1 ELSE Dist(a, p, n) - 1
      BY DistFacts
    <3>2. Dist(Inc(a, n), b, n) = Dist(a, b, n) - 1
      BY <1>4, DistFacts
    <3>3. Dist(a, p, n) \in 0..n-1 /\ Dist(a, b, n) \in 0..n-1 /\ Dist(a, a, n) = 0
      BY DistFacts
    <3> QED
      BY <3>1, <3>2, <3>3
  <2> QED
    BY <2>1 DEF Window
<1>5. ASSUME Inc(b, n) # a PROVE Window(a, Inc(b, n), n) = Window(a, b, n) \cup {b}
  <2>1. Dist(a, Inc(b, n), n) = Dist(a, b, n) + 1
    BY <1>5, DistFacts
  <2>2. ASSUME NEW p \in 0..n-1
        PROVE  Dist(a, p, n) < Dist(a, b, n) + 1 <=> Dist(a, p, n) < Dist(a, b, n) \/ p = b
    <3>1. /\ Dist(a, p, n) \in 0..n-1 /\ Dist(a, b, n) \in 0..n-1
          /\ Dist(a, p, n) = Dist(a, b, n) => p = b
      BY DistFacts, DistThree
    <3> QED
      BY <3>1
  <2> QED
    BY <2>1, <2>2 DEF Window
<1> QED
  BY <1>2, <1>3, <1>4, <1>5

\* The sizes of the rings as the lemmas want them.
LEMMA Sizes == N \in Nat \ {0} /\ M \in Nat \ {0} /\ MAXG \in Nat /\ MAXH \in Nat
  BY RingSizes

\* Between is kept when the ends and the middle go forward.
LEMMA BetweenFacts ==
    ASSUME NEW n \in Nat \ {0}, NEW a \in 0..n-1, NEW b \in 0..n-1, NEW c \in 0..n-1,
           Between(a, b, c, n)
    PROVE  /\ Dist(a, b, n) <= Dist(a, c, n) /\ Dist(b, c, n) <= Dist(a, c, n)
           /\ b # c => Between(a, Inc(b, n), c, n) /\ Inc(b, n) # a
           /\ Inc(c, n) # a => Between(a, b, Inc(c, n), n) /\ Inc(c, n) # b
           /\ Between(b, b, c, n)
<1>1. /\ Dist(a, b, n) \in 0..n-1 /\ Dist(b, c, n) \in 0..n-1 /\ Dist(a, c, n) \in 0..n-1
      /\ Dist(b, b, n) = 0
  BY DistFacts
<1>2. Dist(a, b, n) + Dist(b, c, n) = Dist(a, c, n)
  BY DEF Between
<1>3. ASSUME b # c PROVE Between(a, Inc(b, n), c, n) /\ Inc(b, n) # a
  <2>1. Dist(b, c, n) # 0 /\ Dist(Inc(b, n), c, n) = Dist(b, c, n) - 1
    BY <1>3, DistFacts
  <2>2. Dist(a, b, n) < n - 1
    BY <1>1, <1>2, <2>1
  <2>3. Dist(a, Inc(b, n), n) = Dist(a, b, n) + 1
    BY <2>2, DistFacts
  <2>4. Inc(b, n) # a
    BY <2>2, DistFacts
  <2> QED
    BY <1>1, <1>2, <2>1, <2>3, <2>4 DEF Between
<1>4. ASSUME Inc(c, n) # a PROVE Between(a, b, Inc(c, n), n) /\ Inc(c, n) # b
  <2>1. Dist(a, c, n) # n - 1 /\ Dist(a, Inc(c, n), n) = Dist(a, c, n) + 1
    BY <1>4, DistFacts
  <2>2. Dist(b, c, n) # n - 1
    BY <1>1, <1>2, <2>1
  <2>3. Inc(c, n) # b /\ Dist(b, Inc(c, n), n) = Dist(b, c, n) + 1
    BY <2>2, DistFacts
  <2> QED
    BY <1>1, <1>2, <2>1, <2>3 DEF Between
<1>5. Between(b, b, c, n)
  BY <1>1 DEF Between
<1>6. Dist(a, b, n) <= Dist(a, c, n) /\ Dist(b, c, n) <= Dist(a, c, n)
  BY <1>1, <1>2
<1> QED
  BY <1>3, <1>4, <1>5, <1>6

\* The producer reports the consumer's position in the next entry.
LEMMA HeadsPut ==
    ASSUME NEW head \in SQ, NEW cur \in SQ, NEW from \in CQ, NEW to \in CQ,
           NEW heads \in [CQ -> SQ], HeadsOK(head, cur, from, to, heads), Inc(to, M) # from
    PROVE  HeadsOK(head, cur, from, Inc(to, M), [heads EXCEPT ![to] = cur])
<1> DEFINE new == [heads EXCEPT ![to] = cur]
           W == Window(from, to, M)
<1>1. Window(from, Inc(to, M), M) = W \cup {to} /\ to \notin W /\ W \subseteq CQ
  BY Sizes, WindowFacts DEF CQ
<1>2. new[to] = cur /\ \A p \in W : new[p] = heads[p]
  BY <1>1
<1>3. /\ \A p \in W : Dist(head, heads[p], N) <= Dist(head, cur, N)
      /\ \A p, q \in W : Dist(from, p, M) <= Dist(from, q, M) =>
            Dist(head, heads[p], N) <= Dist(head, heads[q], N)
  BY DEF HeadsOK
<1>4. Dist(head, cur, N) <= Dist(head, cur, N)
  <2>1. Dist(head, cur, N) \in 0..N-1
    BY Sizes, DistFacts DEF SQ
  <2> QED
    BY <2>1
<1>5. \A p \in W : ~(Dist(from, to, M) <= Dist(from, p, M))
  <2> SUFFICES ASSUME NEW p \in W PROVE ~(Dist(from, to, M) <= Dist(from, p, M))
    OBVIOUS
  <2>1. Dist(from, p, M) < Dist(from, to, M) /\ p \in CQ
    BY <1>1 DEF Window
  <2>2. Dist(from, p, M) \in 0..M-1 /\ Dist(from, to, M) \in 0..M-1
    BY <2>1, Sizes, DistFacts DEF CQ
  <2> QED
    BY <2>1, <2>2
<1> HIDE DEF new, W
<1> QED
  BY <1>1, <1>2, <1>3, <1>4, <1>5 DEF HeadsOK, new

\* The consumer of the completions takes the next head.
LEMMA HeadsTake ==
    ASSUME NEW head \in SQ, NEW cur \in SQ, NEW from \in CQ, NEW to \in CQ,
           NEW heads \in [CQ -> SQ], HeadsOK(head, cur, from, to, heads), from # to
    PROVE  /\ Between(head, heads[from], cur, N)
           /\ HeadsOK(heads[from], cur, Inc(from, M), to, heads)
<1> DEFINE W == Window(from, to, M)
<1>1. PICK h \in SQ : h = heads[from]
  OBVIOUS
<1>2. Window(Inc(from, M), to, M) = W \ {from} /\ from \in W /\ W \subseteq CQ
  BY Sizes, WindowFacts DEF CQ
<1>3. Dist(head, h, N) <= Dist(head, cur, N) /\ Dist(head, h, N) \in 0..N-1
      /\ Dist(head, cur, N) \in 0..N-1
  BY <1>1, <1>2, Sizes, DistFacts DEF HeadsOK, SQ
<1>4. Between(head, h, cur, N)
  BY <1>3, Sizes, DistThree DEF SQ
<1>5. ASSUME NEW p \in W
      PROVE  /\ Dist(head, heads[p], N) \in 0..N-1 /\ Dist(h, heads[p], N) \in 0..N-1
             /\ Dist(head, h, N) <= Dist(head, heads[p], N)
             /\ Dist(h, heads[p], N) = Dist(head, heads[p], N) - Dist(head, h, N)
  <2>1. PICK x \in SQ : x = heads[p]
    BY <1>2
  <2>2. Dist(head, x, N) \in 0..N-1 /\ Dist(h, x, N) \in 0..N-1
    BY Sizes, DistFacts DEF SQ
  <2>3. p \in CQ /\ Dist(from, from, M) = 0 /\ Dist(from, p, M) \in 0..M-1
    BY <1>2, Sizes, DistFacts DEF CQ
  <2>4. Dist(from, from, M) <= Dist(from, p, M)
    BY <2>3
  <2>5. Dist(head, h, N) <= Dist(head, x, N)
    BY <1>1, <1>2, <2>1, <2>4 DEF HeadsOK
  <2>6. Between(head, h, x, N)
    BY <2>5, Sizes, DistThree DEF SQ
  <2> QED
    BY <1>3, <2>1, <2>2, <2>5, <2>6 DEF Between
<1>6. ASSUME NEW p \in W \ {from}
      PROVE  Dist(h, heads[p], N) <= Dist(h, cur, N)
  <2>1. Dist(head, heads[p], N) <= Dist(head, cur, N)
    BY DEF HeadsOK
  <2>2. Dist(h, cur, N) = Dist(head, cur, N) - Dist(head, h, N)
    <3>1. Dist(h, cur, N) \in 0..N-1
      BY Sizes, DistFacts DEF SQ
    <3> QED
      BY <1>3, <1>4, <3>1 DEF Between
  <2> QED
    BY <1>3, <1>5, <2>1, <2>2
<1>7. ASSUME NEW p \in W \ {from}, NEW q \in W \ {from},
             Dist(Inc(from, M), p, M) <= Dist(Inc(from, M), q, M)
      PROVE  Dist(h, heads[p], N) <= Dist(h, heads[q], N)
  <2>1. Dist(Inc(from, M), p, M) = Dist(from, p, M) - 1
    BY <1>2, Sizes, DistFacts DEF CQ
  <2>2. Dist(Inc(from, M), q, M) = Dist(from, q, M) - 1
    BY <1>2, Sizes, DistFacts DEF CQ
  <2>3. Dist(from, p, M) \in 0..M-1 /\ Dist(from, q, M) \in 0..M-1
    BY <1>2, Sizes, DistFacts DEF CQ
  <2>4. Dist(from, p, M) <= Dist(from, q, M)
    BY <1>7, <2>1, <2>2, <2>3
  <2>5. Dist(head, heads[p], N) <= Dist(head, heads[q], N)
    BY <2>4 DEF HeadsOK
  <2> QED
    BY <1>3, <1>5, <2>5
<1> HIDE DEF W
<1>8. HeadsOK(h, cur, Inc(from, M), to, heads)
  BY <1>2, <1>6, <1>7 DEF HeadsOK
<1> QED
  BY <1>1, <1>4, <1>8

\* The consumer of the submissions goes forward.
LEMMA HeadsForward ==
    ASSUME NEW head \in SQ, NEW cur \in SQ, NEW next \in SQ, NEW from \in CQ, NEW to \in CQ,
           NEW heads \in [CQ -> SQ], HeadsOK(head, cur, from, to, heads),
           Dist(head, cur, N) <= Dist(head, next, N)
    PROVE  HeadsOK(head, next, from, to, heads)
<1>1. \A p \in Window(from, to, M) : heads[p] \in SQ
  BY Sizes, WindowFacts DEF CQ
<1>2. \A p \in Window(from, to, M) : Dist(head, heads[p], N) \in 0..N-1
  BY <1>1, Sizes, DistFacts DEF SQ
<1>3. Dist(head, cur, N) \in 0..N-1 /\ Dist(head, next, N) \in 0..N-1
  BY Sizes, DistFacts DEF SQ
<1>4. \A p \in Window(from, to, M) : Dist(head, heads[p], N) <= Dist(head, next, N)
  BY <1>2, <1>3 DEF HeadsOK
<1> QED
  BY <1>4 DEF HeadsOK

\* An entry is written with the producer's phase.
LEMMA PhasesPut ==
    ASSUME NEW phases \in [CQ -> Bit], NEW tail \in CQ, NEW tphase \in Bit,
           NEW head \in CQ, NEW hphase \in Bit, NEW next \in CQ, NEW nphase \in Bit,
           PhasesOK(phases, tail, tphase, head, hphase), next = Inc(tail, M), next # head,
           nphase = Flip(tphase, next = 0)
    PROVE  PhasesOK([phases EXCEPT ![tail] = tphase], next, nphase, head, hphase)
<1>1. Inc(tail, M) = IF tail = M - 1 THEN 0 ELSE tail + 1
  BY Sizes, IncValue DEF CQ
<1>2. CASE tail = M - 1
  BY <1>1, <1>2, Sizes DEF PhasesOK, Flip, CQ, Bit
<1>3. CASE tail # M - 1
  BY <1>1, <1>3, Sizes DEF PhasesOK, Flip, CQ, Bit
<1> QED
  BY <1>2, <1>3

\* The consumer goes on.
LEMMA PhasesTake ==
    ASSUME NEW phases \in [CQ -> Bit], NEW tail \in CQ, NEW tphase \in Bit,
           NEW head \in CQ, NEW hphase \in Bit,
           PhasesOK(phases, tail, tphase, head, hphase), head # tail
    PROVE  PhasesOK(phases, tail, tphase, Inc(head, M), Flip(hphase, Inc(head, M) = 0))
<1>1. Inc(head, M) = IF head = M - 1 THEN 0 ELSE head + 1
  BY Sizes, IncValue DEF CQ
<1> QED
  BY <1>1, Sizes DEF PhasesOK, Flip, CQ, Bit

\* The consumer's phase says whether there is an entry.
LEMMA PhasesTest ==
    ASSUME NEW phases \in [CQ -> Bit], NEW tail \in CQ, NEW tphase \in Bit,
           NEW head \in CQ, NEW hphase \in Bit,
           PhasesOK(phases, tail, tphase, head, hphase)
    PROVE  phases[head] = hphase <=> head # tail
  BY Sizes DEF PhasesOK, CQ, Bit

\* The bits stay bits.
LEMMA FlipType == \A p \in Bit : \A w \in BOOLEAN : Flip(p, w) \in Bit
  BY DEF Flip, Bit
(* Positions one behind the other.                                         *)

LEMMA BetweenTrans ==
    ASSUME NEW n \in Nat \ {0}, NEW a \in 0..n-1, NEW b \in 0..n-1, NEW c \in 0..n-1,
           NEW d \in 0..n-1, Between(a, b, d, n), Between(b, c, d, n)
    PROVE  Between(a, c, d, n) /\ Dist(a, b, n) <= Dist(a, c, n)
<1>1. /\ Dist(a, b, n) \in 0..n-1 /\ Dist(b, c, n) \in 0..n-1 /\ Dist(c, d, n) \in 0..n-1
      /\ Dist(a, c, n) \in 0..n-1 /\ Dist(b, d, n) \in 0..n-1 /\ Dist(a, d, n) \in 0..n-1
  BY DistFacts
<1>2. Dist(a, b, n) + Dist(b, c, n) \in {Dist(a, c, n), Dist(a, c, n) + n}
  BY DistThree
<1>3. /\ Dist(a, b, n) + Dist(b, d, n) = Dist(a, d, n)
      /\ Dist(b, c, n) + Dist(c, d, n) = Dist(b, d, n)
  BY DEF Between
<1>4. Dist(a, b, n) + Dist(b, c, n) = Dist(a, c, n)
  BY <1>1, <1>2, <1>3
<1> QED
  BY <1>1, <1>3, <1>4 DEF Between

LEMMA BetweenInner ==
    ASSUME NEW n \in Nat \ {0}, NEW a \in 0..n-1, NEW x \in 0..n-1, NEW b \in 0..n-1,
           NEW c \in 0..n-1, Between(a, x, b, n), Between(a, b, c, n)
    PROVE  Between(x, b, c, n) /\ Between(a, x, c, n)
  BY DistValue DEF Between

LEMMA BetweenBack ==
    ASSUME NEW n \in Nat \ {0}, NEW a \in 0..n-1, NEW b \in 0..n-1, NEW c \in 0..n-1,
           Dist(b, c, n) <= Dist(a, c, n)
    PROVE  Between(a, b, c, n)
  BY DistValue DEF Between

LEMMA WindowSplit ==
    ASSUME NEW n \in Nat \ {0}, NEW a \in 0..n-1, NEW b \in 0..n-1, NEW c \in 0..n-1,
           Between(a, b, c, n)
    PROVE  /\ Window(a, c, n) = Window(a, b, n) \cup Window(b, c, n)
           /\ Window(a, b, n) \cap Window(b, c, n) = {}
<1>1. ASSUME NEW p \in 0..n-1
      PROVE  /\ Dist(a, p, n) < Dist(a, c, n)
                  <=> Dist(a, p, n) < Dist(a, b, n) \/ Dist(b, p, n) < Dist(b, c, n)
             /\ ~(Dist(a, p, n) < Dist(a, b, n) /\ Dist(b, p, n) < Dist(b, c, n))
  <2>1. /\ Dist(a, b, n) \in 0..n-1 /\ Dist(b, c, n) \in 0..n-1 /\ Dist(a, c, n) \in 0..n-1
        /\ Dist(a, p, n) \in 0..n-1 /\ Dist(b, p, n) \in 0..n-1
    BY DistFacts
  <2>2. Dist(a, b, n) + Dist(b, p, n) \in {Dist(a, p, n), Dist(a, p, n) + n}
    BY DistThree
  <2>3. Dist(a, b, n) + Dist(b, c, n) = Dist(a, c, n)
    BY DEF Between
  <2> QED
    BY ONLY <2>1, <2>2, <2>3, n \in Nat
<1> QED
  BY <1>1 DEF Window

\* A set is as large as one that it corresponds to.
LEMMA SameSize ==
    ASSUME NEW S, IsFiniteSet(S), NEW T, NEW f \in [S -> T],
           \A a, b \in S : f[a] = f[b] => a = b, \A t \in T : \E a \in S : f[a] = t
    PROVE  IsFiniteSet(T) /\ Cardinality(T) = Cardinality(S)
<1>1. f \in Injection(S, T) /\ f \in Surjection(S, T)
  BY DEF Injection, IsInjective, Surjection
<1>2. ExistsBijection(S, T)
  BY <1>1 DEF ExistsBijection, Bijection
<1> QED
  BY <1>2, FS_Bijection

\* There are as many positions in a window as it is long.
LEMMA WindowSize ==
    ASSUME NEW n \in Nat \ {0}, NEW a \in 0..n-1, NEW b \in 0..n-1
    PROVE  IsFiniteSet(Window(a, b, n)) /\ Cardinality(Window(a, b, n)) = Dist(a, b, n)
<1> DEFINE d == Dist(a, b, n)
           f == [k \in 1..d |-> IF a + k - 1 < n THEN a + k - 1 ELSE a + k - 1 - n]
<1>1. d \in 0..n-1
  BY DistFacts
<1>2. ASSUME NEW k \in 1..d
      PROVE  f[k] \in 0..n-1 /\ Dist(a, f[k], n) = k - 1
  <2>1. f[k] \in 0..n-1 /\ f[k] = IF a + k - 1 < n THEN a + k - 1 ELSE a + k - 1 - n
    BY <1>1
  <2>2. PICK x \in 0..n-1 : x = f[k]
    BY <2>1
  <2>3. Dist(a, x, n) = IF a <= x THEN x - a ELSE x - a + n
    BY DistValue
  <2> HIDE DEF f, d
  <2> QED
    BY <1>1, <2>1, <2>2, <2>3
<1>3. f \in [1..d -> Window(a, b, n)]
  <2>1. \A k \in 1..d : f[k] \in Window(a, b, n)
    <3> SUFFICES ASSUME NEW k \in 1..d PROVE f[k] \in Window(a, b, n)
      OBVIOUS
    <3>1. f[k] \in 0..n-1 /\ Dist(a, f[k], n) = k - 1 /\ k - 1 < d
      BY <1>1, <1>2
    <3> HIDE DEF f
    <3> QED
      BY <3>1 DEF Window
  <2> QED
    BY <2>1
<1>4. \A j, k \in 1..d : f[j] = f[k] => j = k
  <2> HIDE DEF f
  <2> QED
    BY <1>1, <1>2
<1>5. \A p \in Window(a, b, n) : \E k \in 1..d : f[k] = p
  <2> SUFFICES ASSUME NEW p \in Window(a, b, n) PROVE \E k \in 1..d : f[k] = p
    OBVIOUS
  <2>1. p \in 0..n-1 /\ Dist(a, p, n) < d /\ Dist(a, p, n) \in 0..n-1
    BY DistFacts DEF Window
  <2>2. PICK k \in 1..d : k = Dist(a, p, n) + 1
    BY <1>1, <2>1
  <2>3. PICK x \in 0..n-1 : x = f[k]
    BY <1>2
  <2>4. Dist(a, x, n) = Dist(a, p, n)
    BY <1>1, <1>2, <2>1, <2>2, <2>3
  <2>5. x = p
    BY <2>1, <2>4, DistThree
  <2> QED
    BY <2>3, <2>5
<1>6. IsFiniteSet(1..d) /\ Cardinality(1..d) = d
  <2> HIDE DEF d
  <2> QED
    BY <1>1, FS_Interval
<1> HIDE DEF f, d
<1>7. IsFiniteSet(Window(a, b, n)) /\ Cardinality(Window(a, b, n)) = Cardinality(1..d)
  BY <1>3, <1>4, <1>5, <1>6, SameSize
<1> QED
  BY <1>6, <1>7 DEF d
\* The slots are finitely many.
LEMMA SlotsFinite ==
    ASSUME NEW S PROVE IsFiniteSet(SlotsOf(S)) /\ Cardinality(SlotsOf(S)) \in Nat
<1>1. IsFiniteSet(0..N-1)
  BY Sizes, FS_Interval
<1>2. SlotsOf(S) \in SUBSET (0..N-1)
  BY DEF SlotsOf, SQ
<1>3. IsFiniteSet(SlotsOf(S))
  BY <1>1, <1>2, FS_Subset
<1> QED
  BY <1>3, FS_CardinalityType
----------------------------------------------------------------------------
(* What a step leaves alone.                                               *)

LEMMA RingTypes ==
    ASSUME NumbersInv
    PROVE  /\ Eff \in [CQ -> Entry]
           /\ Heads(Eff) \in [CQ -> SQ] /\ Phases(Eff) \in [CQ -> Bit]
           /\ Heads(hcq) \in [CQ -> SQ] /\ Phases(hcq) \in [CQ -> Bit]
<1>1. gcq \in [CQ -> Entry] /\ hcq \in [CQ -> Entry] /\ (first = <<>> \/ first \in CQ \X Entry)
  BY DEF NumbersInv
<1>2. Eff \in [CQ -> Entry]
  BY <1>1 DEF Eff
<1> QED
  BY <1>1, <1>2 DEF Heads, Phases, Entry

LEMMA GuestRingsFrame ==
    ASSUME GuestRingsInv,
           UNCHANGED <<gsqhd, g_tail, g_cur_tail, gtail, g_new_tail, gcqhead, g_head, g_new_head,
                       g_phase, gcqphase, gcq, first>>
    PROVE  GuestRingsInv'
  BY DEF GuestRingsInv, Eff, Heads, Phases, HeadsOK, PhasesOK, Between, Window, CQ

LEMMA HostRingsFrame ==
    ASSUME HostRingsInv,
           UNCHANGED <<c_tail, h_tail, h_head, c_head, h_cqhead, c_cqtail, last_write, c_phase,
                       h_phase, hcq>>
    PROVE  HostRingsInv'
  BY DEF HostRingsInv, Heads, Phases, HeadsOK, PhasesOK, Between, Window, CQ

LEMMA OwnFrame ==
    ASSUME OwnInv, Delivering' = Delivering,
           UNCHANGED <<hsq, c_head, c_tail, inflight, hcq, h_cqhead, c_cqtail, req_slot>>
    PROVE  OwnInv'
<1>1. Unfetched' = Unfetched /\ Unseen' = Unseen
  BY DEF Unfetched, Unseen, Window
<1> QED
  BY <1>1 DEF OwnInv, Holds, SQ

LEMMA CountsFrame ==
    ASSUME CountsInv, Delivering' = Delivering, Delivering => creq' = creq,
           UNCHANGED <<n_slots_used, req_slot, not_ack_g, not_ack_h, g_new_head, g_head,
                       last_write, h_cqhead, hcq>>
    PROVE  CountsInv'
<1>1. \A S : SlotsOf(S)' = SlotsOf(S) /\ InHand(S)' = InHand(S)
  BY DEF SlotsOf, InHand, SQ
<1> QED
  BY <1>1 DEF CountsInv, Window, Guest, Host

LEMMA InQueuesFrame ==
    ASSUME InQueuesInv, UNCHANGED <<gsq, issued, g_cur_tail, gtail, queuing_g, queuing_h>>
    PROVE  InQueuesInv'
<1>1. Submitted' = Submitted /\ Window(g_cur_tail, gtail, N)' = Window(g_cur_tail, gtail, N)
  BY DEF Submitted, Fetched, Window
<1> QED
  BY <1>1 DEF InQueuesInv, Host

LEMMA InSlotsFrame ==
    ASSUME InSlotsInv, Delivering' = Delivering, Delivering => creq' = creq,
           Submitted' = Submitted, UNCHANGED req_slot
    PROVE  InSlotsInv'
  BY DEF InSlotsInv, SQ, Guest, Host

LEMMA AnswersFrame ==
    ASSUME AnswersInv, Delivering' = Delivering, Delivering => creq' = creq,
           Submitted' = Submitted, UNCHANGED <<req_slot, gcqhead, g_head, Eff, answered>>
    PROVE  AnswersInv'
<1>1. Answers' = Answers /\ \A k : Elsewhere(k)' = Elsewhere(k)
  BY DEF Answers, Elsewhere, Window, SQ
<1> QED
  BY <1>1 DEF AnswersInv, Guest

LEMMA CommandsFrame ==
    ASSUME CommandsInv, Delivering' = Delivering, Delivering => creq' = creq,
           UNCHANGED <<gsq, issued, g_cur_tail, gtail, queuing_g, queuing_h, req_slot, gcqhead,
                       g_head, Eff, answered>>
    PROVE  CommandsInv'
<1>1. Submitted' = Submitted
  BY DEF Submitted, Fetched
<1> QED
  BY <1>1, InQueuesFrame, InSlotsFrame, AnswersFrame DEF CommandsInv

LEMMA ExecutedFrame ==
    ASSUME ExecutedInv, Delivering' = Delivering, Delivering => creq' = creq,
           executed \subseteq executed',
           UNCHANGED <<h_cqhead, c_cqtail, hcq, gcqhead, g_head, Eff, answered>>
    PROVE  ExecutedInv'
  BY DEF ExecutedInv, Answers, Window, Guest
----------------------------------------------------------------------------
(* Init, and the steps that only move a context or a lock.                 *)

LEMMA QueueInitInv == Init => QueueInv
<1> SUFFICES ASSUME Init PROVE QueueInv
  OBVIOUS
<1> USE Sizes DEF Init, None
<1>1. 0 \in SQ /\ 0 \in CQ
  BY DEF SQ, CQ
<1>2. NoEntry \in Entry
  BY <1>1 DEF NoEntry, Entry, Bit
<1>3. NumbersInv
  <2>1. gsq \in [SQ -> Int] /\ hsq \in [SQ -> Int \X Int] /\ req_slot \in [SQ -> Int]
    BY DEF SQ
  <2>2. gcq \in [CQ -> Entry] /\ hcq \in [CQ -> Entry] /\ cent \in Entry
    BY <1>2 DEF CQ
  <2>3. pc \in [Contexts -> Places]
    BY DEF Places
  <2>4. answered \in [Guest -> Int] /\ queuing_g \in Seq(Int) /\ queuing_h \in Seq(Int)
    OBVIOUS
  <2> QED
    BY <1>1, <2>1, <2>2, <2>3, <2>4 DEF NumbersInv, Bit
<1>4. ~Delivering /\ LockInv
  BY DEF Delivering, LockInv, Contexts
<1>5. Dist(0, 0, N) = 0 /\ Dist(0, 0, M) = 0 /\ Window(0, 0, N) = {} /\ Window(0, 0, M) = {}
  BY <1>1, DistFacts, WindowFacts DEF SQ, CQ
<1>6. GuestRingsInv
  BY <1>5 DEF GuestRingsInv, Between, HeadsOK, PhasesOK, Phases, Eff, CQ, NoEntry
<1>7. HostRingsInv
  BY <1>5 DEF HostRingsInv, Between, HeadsOK, PhasesOK, Phases, CQ, NoEntry
<1>8. OwnInv
  BY <1>5 DEF OwnInv, Unfetched, Unseen, SQ
<1>9. CountsInv
  <2>1. SlotsOf(Guest \cup Host) = {} /\ SlotsOf(Guest) = {} /\ SlotsOf(Host) = {}
    BY DEF SlotsOf, SQ, Guest, Host
  <2>2. InHand(Guest) = 0 /\ InHand(Host) = 0
    BY <1>4 DEF InHand
  <2>3. Cardinality({}) = 0
    BY FS_EmptySet
  <2>4. n_slots_used = 0 /\ not_ack_g = 0 /\ not_ack_h = 0
    OBVIOUS
  <2>5. /\ Dist(last_write, h_cqhead, M) = 0 /\ Dist(g_new_head, g_head, M) = 0
        /\ Window(last_write, h_cqhead, M) = {}
    BY <1>5
  <2>6. /\ n_slots_used = Cardinality(SlotsOf(Guest \cup Host)) /\ n_slots_used <= N - 1
        /\ not_ack_h = Cardinality(SlotsOf(Host)) + InHand(Host)
    BY ONLY <2>1, <2>2, <2>3, <2>4, Sizes
  <2>7. not_ack_g = Cardinality(SlotsOf(Guest)) + InHand(Guest) + Dist(g_new_head, g_head, M)
    BY ONLY <2>1, <2>2, <2>3, <2>4, <2>5
  <2> QED
    BY ONLY <2>4, <2>5, <2>6, <2>7 DEF CountsInv
<1>10. CommandsInv
  <2>1. Window(g_cur_tail, gtail, N) = {} /\ Answers = {} /\ Dist(g_cur_tail, gtail, N) = 0
    BY <1>5 DEF Answers
  <2>2. Len(queuing_g) = 0 /\ Len(queuing_h) = 0 /\ Submitted = 0
    BY <2>1 DEF Submitted, Fetched
  <2>3. \A s \in SQ : req_slot[s] = None
    BY DEF SQ
  <2>4. \A k \in Guest : answered[k] = 0
    OBVIOUS
  <2>5. None \notin Guest
    BY DEF Guest
  <2> QED
    BY ONLY <1>4, <2>1, <2>2, <2>3, <2>4, <2>5
       DEF CommandsInv, InQueuesInv, InSlotsInv, AnswersInv
<1>11. ExecutedInv
  BY <1>4, <1>5 DEF ExecutedInv, Answers
<1> QED
  BY <1>3, <1>4, <1>6, <1>7, <1>8, <1>9, <1>10, <1>11 DEF QueueInv

\* A step that changes none of the rings and requests.
Idle == UNCHANGED <<issued, gsq, gtail, gsqhd, gcqhead, gcqphase, answered, g_tail, g_cur_tail,
                    g_new_tail, gcq, g_head, g_phase, g_new_head, queuing_g, queuing_h, req_slot,
                    n_slots_used, next_slot, not_ack_g, not_ack_h, hsq, h_tail, h_head, h_cqhead,
                    h_phase, last_write, c_tail, c_head, inflight, hcq, c_cqtail, c_phase,
                    executed, first, hosts>>

LEMMA IdleInv ==
    ASSUME QueueInv, Idle, LockInv', Delivering' = Delivering, Delivering => creq' = creq,
           creq' \in Int, cent' \in Entry, pc' \in [Contexts -> Places]
    PROVE  QueueInv'
<1>1. NumbersInv'
  BY DEF QueueInv, Idle, NumbersInv
<1>2. Eff' = Eff
  BY DEF Idle, Eff
<1>3. GuestRingsInv' /\ HostRingsInv'
  BY GuestRingsFrame, HostRingsFrame DEF QueueInv, Idle
<1>4. OwnInv' /\ CountsInv'
  BY OwnFrame, CountsFrame DEF QueueInv, Idle
<1>5. CommandsInv' /\ ExecutedInv'
  BY <1>2, CommandsFrame, ExecutedFrame DEF QueueInv, Idle
<1> QED
  BY <1>1, <1>3, <1>4, <1>5 DEF QueueInv

LEMMA LockFrame ==
    ASSUME NumbersInv, LockInv, NEW c \in Contexts, NEW to \in {"idle", "fetch", "submit", "comp",
                                                              "relock", "again"},
           pc[c] \notin {"loop", "deliver", "free"}, pc' = [pc EXCEPT ![c] = to],
           UNCHANGED <<comp_lock, creq, cent, hcq, h_cqhead, c_cqtail>>
    PROVE  LockInv' /\ Delivering' = Delivering /\ pc' \in [Contexts -> Places]
<1>1. \A d \in Contexts : pc'[d] = IF d = c THEN to ELSE pc[d]
  BY DEF NumbersInv
<1>2. \A d \in Contexts : /\ pc'[d] \in {"loop", "deliver", "free"} <=>
                                pc[d] \in {"loop", "deliver", "free"}
                          /\ pc'[d] \in {"deliver", "free"} <=> pc[d] \in {"deliver", "free"}
                          /\ pc'[d] = "deliver" <=> pc[d] = "deliver"
  BY <1>1
<1>3. Delivering' <=> Delivering
  BY <1>2 DEF Delivering, Contexts
<1>4. LockInv'
  BY <1>2, <1>3 DEF LockInv, Contexts
<1>5. pc' \in [Contexts -> Places]
  BY DEF NumbersInv, Places
<1> QED
  BY <1>3, <1>4, <1>5 DEF Delivering

LEMMA MoveInv ==
    ASSUME QueueInv,
           \/ interrupt
           \/ \E c \in {"subm", "comp"} : \/ lock_comp_queue(c) \/ nvme_free_request(c)
                                          \/ lock_subm_queue(c)
    PROVE  QueueInv'
<1>0. NumbersInv /\ LockInv /\ creq \in Int /\ cent \in Entry
  BY DEF QueueInv, NumbersInv
<1> USE DEF guestVars, gq, gc, queues, slots, counts, hq, hc, ctrl, proc
<1>1. CASE interrupt
  <2>1. /\ pc["comp"] = "idle" /\ pc' = [pc EXCEPT !["comp"] = "comp"]
        /\ UNCHANGED <<comp_lock, creq, cent>> /\ Idle
    BY <1>1 DEF interrupt, Goto, Idle
  <2>2. LockInv' /\ Delivering' = Delivering /\ pc' \in [Contexts -> Places]
    BY <1>0, <2>1, LockFrame DEF Contexts, Idle
  <2> QED
    BY <1>0, <2>1, <2>2, IdleInv
<1>2. ASSUME NEW c \in {"subm", "comp"}, lock_comp_queue(c) PROVE QueueInv'
  <2>1. /\ pc[c] = "comp" /\ pc' = [pc EXCEPT ![c] = "loop"]
        /\ comp_lock = "nobody" /\ comp_lock' = c
        /\ UNCHANGED <<creq, cent>> /\ Idle
    BY <1>2 DEF lock_comp_queue, Goto, Idle
  <2>2. \A d \in Contexts : pc[d] \notin {"loop", "deliver", "free"}
    BY <1>0, <2>1 DEF LockInv, Contexts
  <2>3. \A d \in Contexts : pc'[d] = IF d = c THEN "loop" ELSE pc[d]
    BY <1>0, <2>1 DEF NumbersInv, Contexts
  <2>4. \A d \in Contexts : pc'[d] \in {"loop", "deliver", "free"} <=> comp_lock' = d
    BY <2>1, <2>2, <2>3 DEF Contexts
  <2>5. \A d \in Contexts : pc'[d] \notin {"deliver", "free"}
    BY <2>2, <2>3 DEF Contexts
  <2>6. ~Delivering /\ ~Delivering' /\ creq = None
    BY <1>0, <2>2, <2>5 DEF Delivering, LockInv
  <2>7. LockInv'
    BY <2>1, <2>4, <2>5, <2>6 DEF LockInv
  <2>8. pc' \in [Contexts -> Places]
    BY <1>0, <2>1 DEF NumbersInv, Places, Contexts
  <2>9. Delivering' = Delivering /\ (Delivering => creq' = creq)
    BY <2>6 DEF Delivering
  <2> QED
    BY <1>0, <2>1, <2>7, <2>8, <2>9, IdleInv
<1>3. ASSUME NEW c \in {"subm", "comp"}, nvme_free_request(c) PROVE QueueInv'
  <2>1. /\ pc[c] = "free" /\ pc' = [pc EXCEPT ![c] = "loop"]
        /\ creq' = None /\ cent' = NoEntry /\ UNCHANGED comp_lock /\ Idle
    BY <1>3 DEF nvme_free_request, Goto, Idle
  <2>2. comp_lock = c /\ \A d \in Contexts : d # c => pc[d] \notin {"loop", "deliver", "free"}
    BY <1>0, <2>1 DEF LockInv, Contexts
  <2>3. \A d \in Contexts : pc'[d] = IF d = c THEN "loop" ELSE pc[d]
    BY <1>0, <2>1 DEF NumbersInv, Contexts
  <2>4. \A d \in Contexts : pc'[d] \in {"loop", "deliver", "free"} <=> comp_lock' = d
    BY <2>1, <2>2, <2>3 DEF Contexts
  <2>5. \A d \in Contexts : pc'[d] \notin {"deliver", "free"}
    BY <2>2, <2>3 DEF Contexts
  <2>6. ~Delivering /\ ~Delivering'
    BY <2>1, <2>2, <2>5 DEF Delivering
  <2>7. LockInv'
    BY <2>1, <2>4, <2>5, <2>6 DEF LockInv
  <2>8. pc' \in [Contexts -> Places]
    BY <1>0, <2>1 DEF NumbersInv, Places, Contexts
  <2>9. NoEntry \in Entry /\ None \in Int
    BY Sizes DEF NoEntry, Entry, SQ, None, Bit
  <2>10. Delivering' = Delivering /\ (Delivering => creq' = creq)
    BY <2>6 DEF Delivering
  <2> QED
    BY <1>0, <2>1, <2>7, <2>8, <2>9, <2>10, IdleInv
<1>4. ASSUME NEW c \in {"subm", "comp"}, lock_subm_queue(c) PROVE QueueInv'
  <2>1. /\ pc[c] = "relock" /\ pc' = [pc EXCEPT ![c] = "again"]
        /\ UNCHANGED <<comp_lock, creq, cent>> /\ Idle
    BY <1>4 DEF lock_subm_queue, Goto, Idle
  <2>2. LockInv' /\ Delivering' = Delivering /\ pc' \in [Contexts -> Places]
    BY <1>0, <2>1, LockFrame DEF Contexts, Idle
  <2> QED
    BY <1>0, <2>1, <2>2, IdleInv
<1> QED
  BY <1>1, <1>2, <1>3, <1>4
----------------------------------------------------------------------------
(* The requests on their way into the queue.                               *)

\* Nothing the controller or process_comp_queue is at.
Behind == UNCHANGED <<gcqhead, gcqphase, answered, gcq, g_head, g_phase, g_new_head, req_slot,
                      n_slots_used, next_slot, not_ack_g, not_ack_h, hsq, h_tail, h_head,
                      h_cqhead, h_phase, last_write, c_tail, c_head, inflight, hcq, c_cqtail,
                      c_phase, executed, first, creq, cent>>

LEMMA BehindInv ==
    ASSUME QueueInv, Behind, NumbersInv', LockInv', Delivering' = Delivering, GuestRingsInv',
           InQueuesInv', Submitted' = Submitted
    PROVE  QueueInv'
<1>1. Eff' = Eff
  BY DEF Behind, Eff
<1>2. HostRingsInv' /\ OwnInv' /\ CountsInv'
  BY HostRingsFrame, OwnFrame, CountsFrame DEF QueueInv, Behind
<1>3. InSlotsInv' /\ AnswersInv' /\ ExecutedInv'
  BY <1>1, InSlotsFrame, AnswersFrame, ExecutedFrame DEF QueueInv, CommandsInv, Behind
<1> QED
  BY <1>2, <1>3 DEF QueueInv, CommandsInv

LEMMA RegisterHostInv == ASSUME QueueInv, register_host PROVE QueueInv'
<1>0. NumbersInv /\ LockInv /\ GuestRingsInv /\ InQueuesInv
  BY DEF QueueInv, CommandsInv
<1>1. /\ pc["host"] = "idle" /\ pc' = [pc EXCEPT !["host"] = "submit"]
      /\ hosts < MAXH /\ hosts' = hosts + 1 /\ queuing_h' = Append(queuing_h, -hosts')
      /\ UNCHANGED <<comp_lock, issued, gsq, gtail, gsqhd, g_tail, g_cur_tail, g_new_tail,
                     queuing_g>>
      /\ Behind
  BY DEF register_host, Goto, Behind, guestVars, gq, gc, slots, hq, hc, ctrl, proc
<1>2. LockInv' /\ Delivering' = Delivering /\ pc' \in [Contexts -> Places]
  BY <1>0, <1>1, LockFrame DEF Contexts, Behind
<1>3. PICK k \in 1..MAXH : k = hosts'
  <2>1. hosts \in 0..MAXH
    BY <1>0 DEF NumbersInv
  <2> QED
    BY <1>1, <2>1, Sizes
<1>a. PICK q \in Int : q = -k /\ q \in Host
  BY Sizes DEF Host
<1>4. queuing_h \in Seq(Int) /\ queuing_h' = Append(queuing_h, q) /\ queuing_h' \in Seq(Int)
  BY <1>0, <1>1, <1>3, <1>a DEF NumbersInv
<1>b. hosts' \in 0..MAXH
  BY <1>3, Sizes
<1>5. NumbersInv'
  BY <1>0, <1>1, <1>2, <1>4, <1>b DEF NumbersInv, Behind
<1>6. GuestRingsInv'
  BY <1>0, <1>1, GuestRingsFrame DEF Behind
<1>7. Submitted' = Submitted /\ Window(g_cur_tail, gtail, N)' = Window(g_cur_tail, gtail, N)
  BY <1>1 DEF Submitted, Fetched, Window
<1>8. \A i \in 1..Len(queuing_h') : queuing_h'[i] \in Host
  BY <1>0, <1>4, <1>a DEF InQueuesInv
<1>9. InQueuesInv'
  BY <1>0, <1>1, <1>7, <1>8 DEF InQueuesInv, Host
<1> QED
  BY <1>1, <1>2, <1>5, <1>6, <1>7, <1>9, BehindInv

LEMMA RingSqInv == ASSUME QueueInv, ring_sq PROVE QueueInv'
<1>0. NumbersInv /\ LockInv /\ GuestRingsInv /\ InQueuesInv
  BY DEF QueueInv, CommandsInv
<1>1. /\ pc["subm"] = "idle" /\ pc' = [pc EXCEPT !["subm"] = "fetch"] /\ g_new_tail' = gtail
      /\ UNCHANGED <<comp_lock, issued, hosts, gsq, gtail, gsqhd, g_tail, g_cur_tail, queuing_g,
                     queuing_h>>
      /\ Behind
  BY DEF ring_sq, Goto, Behind, guestVars, gc, queues, slots, counts, hq, hc, ctrl, proc
<1>2. LockInv' /\ Delivering' = Delivering /\ pc' \in [Contexts -> Places]
  BY <1>0, <1>1, LockFrame DEF Contexts, Behind
<1>3. NumbersInv'
  BY <1>0, <1>1, <1>2 DEF NumbersInv, Behind
<1>4. Dist(g_cur_tail, gtail, N) \in 0..N-1
  BY <1>0, Sizes, DistFacts DEF NumbersInv, SQ
<1>5. Dist(g_cur_tail, g_new_tail, N)' <= Dist(g_cur_tail, gtail, N)'
  BY <1>1, <1>4
<1>6. Eff' = Eff
  BY <1>1 DEF Behind, Eff
<1>7. GuestRingsInv'
  BY <1>0, <1>1, <1>5, <1>6
     DEF GuestRingsInv, Behind, Heads, Phases, HeadsOK, PhasesOK, Between, Window, CQ
<1>8. InQueuesInv' /\ Submitted' = Submitted
  BY <1>0, <1>1, InQueuesFrame DEF Submitted, Fetched
<1> QED
  BY <1>1, <1>2, <1>3, <1>7, <1>8, BehindInv

LEMMA FetchInv ==
    ASSUME QueueInv, NEW c \in {"subm", "comp"}, fetch(c) PROVE QueueInv'
<1>0. NumbersInv /\ LockInv /\ GuestRingsInv /\ InQueuesInv
  BY DEF QueueInv, CommandsInv
<1>1. /\ g_cur_tail # g_new_tail /\ queuing_g' = Append(queuing_g, gsq[g_cur_tail])
      /\ g_cur_tail' = Inc(g_cur_tail, N)
      /\ UNCHANGED <<pc, comp_lock, issued, hosts, gsq, gtail, gsqhd, g_tail, g_new_tail, queuing_h>>
      /\ Behind
  BY DEF fetch, Fetchable, Behind, guestVars, gc, slots, hq, hc, ctrl, proc
<1>2. Delivering' = Delivering /\ LockInv'
  BY <1>0, <1>1 DEF Delivering, LockInv, Behind
<1>3. /\ g_tail \in SQ /\ g_cur_tail \in SQ /\ gtail \in SQ /\ g_new_tail \in SQ /\ gsqhd \in SQ
      /\ gcqhead \in CQ
      /\ g_head \in CQ /\ gsq[g_cur_tail] \in Int /\ queuing_g \in Seq(Int) /\ issued \in Int
  BY <1>0 DEF NumbersInv
<1>4. PICK t \in SQ : t = Inc(g_cur_tail, N)
  BY <1>3, Sizes, DistFacts DEF SQ
<1>a. queuing_g' \in Seq(Int) /\ g_cur_tail' \in SQ
  BY <1>1, <1>3, <1>4
<1>5. NumbersInv'
  BY <1>0, <1>1, <1>a DEF NumbersInv, Behind
<1>6. /\ Dist(g_cur_tail, g_new_tail, N) <= Dist(g_cur_tail, gtail, N)
      /\ Between(g_tail, g_cur_tail, gtail, N)
  BY <1>0 DEF GuestRingsInv
<1>7. /\ Dist(g_cur_tail, g_new_tail, N) \in 1..N-1 /\ Dist(g_cur_tail, gtail, N) \in 1..N-1
      /\ g_cur_tail # gtail
  <2>1. Dist(g_cur_tail, g_new_tail, N) \in 0..N-1 /\ Dist(g_cur_tail, g_new_tail, N) # 0
    BY <1>1, <1>3, Sizes, DistFacts DEF SQ
  <2>2. Dist(g_cur_tail, gtail, N) \in 0..N-1 /\ Dist(g_cur_tail, g_cur_tail, N) = 0
    BY <1>3, Sizes, DistFacts DEF SQ
  <2> QED
    BY <1>6, <2>1, <2>2
<1>8. Dist(t, gtail, N) = Dist(g_cur_tail, gtail, N) - 1
  BY <1>3, <1>4, <1>7, Sizes, DistFacts DEF SQ
<1>9. Dist(t, g_new_tail, N) = Dist(g_cur_tail, g_new_tail, N) - 1
  BY <1>1, <1>3, <1>4, Sizes, DistFacts DEF SQ
<1>10. Between(g_tail, t, gtail, N)
  BY <1>3, <1>4, <1>6, <1>7, Sizes, BetweenFacts DEF SQ
<1>12. Eff' = Eff
  BY <1>1 DEF Behind, Eff
<1>13. GuestRingsInv'
  <2>1. Dist(t, g_new_tail, N) <= Dist(t, gtail, N)
    BY <1>6, <1>7, <1>8, <1>9
  <2> QED
    BY <1>0, <1>1, <1>4, <1>10, <1>12, <2>1
       DEF GuestRingsInv, Behind, Heads, Phases, HeadsOK, PhasesOK, Between, Window, CQ
<1>14. Len(queuing_g') = Len(queuing_g) + 1 /\ Len(queuing_g) \in Nat
  BY <1>1, <1>3
<1>15. Submitted' = Submitted /\ Submitted \in Int
  BY <1>1, <1>3, <1>4, <1>7, <1>8, <1>14 DEF Submitted, Fetched
<1>16. InQueuesInv'
  <2>1. Window(g_cur_tail, gtail, N)' = Window(g_cur_tail, gtail, N) \ {g_cur_tail}
    BY <1>1, <1>3, <1>7, Sizes, WindowFacts DEF SQ, Window
  <2>2. g_cur_tail \in Window(g_cur_tail, gtail, N)
    BY <1>3, <1>7, Sizes, WindowFacts DEF SQ
  <2>a. gsq[g_cur_tail] = issued + 1 - Dist(g_cur_tail, gtail, N)
    BY <1>0, <2>2 DEF InQueuesInv
  <2>b. Submitted = issued - Dist(g_cur_tail, gtail, N) - Len(queuing_g)
    BY DEF Submitted, Fetched
  <2>c. issued \in Int /\ Dist(g_cur_tail, gtail, N) \in Int /\ Len(queuing_g) \in Int
    BY <1>3, <1>7, <1>14
  <2>3. gsq[g_cur_tail] = Submitted + (Len(queuing_g) + 1)
    BY ONLY <2>a, <2>b, <2>c
  <2>4. \A i \in 1..Len(queuing_g') : queuing_g'[i] = Submitted' + i
    BY <1>0, <1>1, <1>3, <1>14, <1>15, <2>3 DEF InQueuesInv
  <2>5. \A p \in Window(g_cur_tail, gtail, N)' : gsq'[p] = issued' + 1 - Dist(p, gtail', N)
    BY <1>0, <1>1, <2>1 DEF InQueuesInv
  <2> QED
    BY <1>0, <1>1, <1>15, <2>4, <2>5 DEF InQueuesInv, Host
<1> QED
  BY <1>1, <1>2, <1>5, <1>13, <1>15, <1>16, BehindInv

\* The fetch is over and its position is shown: the heads that the answers
\* report are still not ahead of it.
LEMMA MoveTailInv ==
    ASSUME QueueInv, NEW c \in {"subm", "comp"}, move_tail(c) PROVE QueueInv'
<1>0. NumbersInv /\ LockInv /\ GuestRingsInv /\ InQueuesInv
  BY DEF QueueInv, CommandsInv
<1>1. /\ g_tail' = g_cur_tail
      /\ UNCHANGED <<pc, comp_lock, issued, hosts, gsq, gtail, gsqhd, g_cur_tail, g_new_tail,
                     queuing_g, queuing_h>>
      /\ Behind
  BY DEF move_tail, Behind, guestVars, gc, queues, slots, counts, hq, hc, ctrl, proc
<1>2. Delivering' = Delivering /\ LockInv'
  BY <1>0, <1>1 DEF Delivering, LockInv, Behind
<1>3. /\ g_tail \in SQ /\ g_cur_tail \in SQ /\ gtail \in SQ /\ gsqhd \in SQ
      /\ gcqhead \in CQ /\ g_head \in CQ
  BY <1>0 DEF NumbersInv
<1>4. NumbersInv'
  BY <1>0, <1>1, <1>3 DEF NumbersInv, Behind
<1>5. Between(gsqhd, g_tail, gtail, N) /\ Between(g_tail, g_cur_tail, gtail, N)
  BY <1>0 DEF GuestRingsInv
<1>6. /\ Between(gsqhd, g_cur_tail, gtail, N)
      /\ Dist(gsqhd, g_tail, N) <= Dist(gsqhd, g_cur_tail, N)
  BY <1>3, <1>5, Sizes, BetweenTrans DEF SQ
<1>7. Dist(g_cur_tail, g_cur_tail, N) = 0 /\ Dist(g_cur_tail, gtail, N) \in 0..N-1
  BY <1>3, Sizes, DistFacts DEF SQ
<1>8. Between(g_cur_tail, g_cur_tail, gtail, N)
  BY <1>7 DEF Between
<1>9. HeadsOK(gsqhd, g_cur_tail, gcqhead, g_head, Heads(Eff))
  <2>1. Heads(Eff) \in [CQ -> SQ] /\ HeadsOK(gsqhd, g_tail, gcqhead, g_head, Heads(Eff))
    BY <1>0, RingTypes DEF GuestRingsInv
  <2> QED
    BY <1>3, <1>6, <2>1, HeadsForward
<1>10. Eff' = Eff
  BY <1>1 DEF Behind, Eff
<1>11. GuestRingsInv'
  BY <1>0, <1>1, <1>6, <1>8, <1>9, <1>10
     DEF GuestRingsInv, Behind, Heads, Phases, HeadsOK, PhasesOK, Between, Window, CQ
<1>12. InQueuesInv' /\ Submitted' = Submitted
  BY <1>0, <1>1, InQueuesFrame DEF Submitted, Fetched
<1> QED
  BY <1>1, <1>2, <1>4, <1>11, <1>12, BehindInv

LEMMA IssueInv == ASSUME QueueInv, issue PROVE QueueInv'
<1>0. NumbersInv /\ LockInv /\ GuestRingsInv /\ InQueuesInv
  BY DEF QueueInv, CommandsInv
<1>1. /\ issued < MAXG /\ Inc(gtail, N) # gsqhd /\ issued' = issued + 1
      /\ gsq' = [gsq EXCEPT ![gtail] = issued'] /\ gtail' = Inc(gtail, N)
      /\ UNCHANGED <<pc, comp_lock, hosts, g_tail, g_cur_tail, gsqhd, g_new_tail, queuing_g,
                     queuing_h>>
      /\ Behind
  BY DEF issue, rest, Behind, gq, gc, queues, slots, counts, hq, hc, ctrl, proc
<1>2. Delivering' = Delivering /\ LockInv'
  BY <1>0, <1>1 DEF Delivering, LockInv, Behind
<1>3. /\ g_tail \in SQ /\ g_cur_tail \in SQ /\ gtail \in SQ /\ g_new_tail \in SQ /\ gsqhd \in SQ
      /\ gsq \in [SQ -> Int] /\ issued \in 0..MAXG /\ queuing_g \in Seq(Int)
  BY <1>0 DEF NumbersInv
<1>4. PICK t \in SQ : t = Inc(gtail, N)
  BY <1>3, Sizes, DistFacts DEF SQ
<1>5. issued' \in 0..MAXG /\ gsq' \in [SQ -> Int]
  BY <1>1, <1>3, Sizes
<1>6. NumbersInv'
  BY <1>0, <1>1, <1>4, <1>5 DEF NumbersInv, Behind
<1>7. /\ Dist(g_cur_tail, g_new_tail, N) <= Dist(g_cur_tail, gtail, N)
      /\ Between(gsqhd, g_tail, gtail, N) /\ Between(g_tail, g_cur_tail, gtail, N)
  BY <1>0 DEF GuestRingsInv
<1>a. Between(gsqhd, g_tail, t, N) /\ t # g_tail
  BY <1>1, <1>3, <1>4, <1>7, Sizes, BetweenFacts DEF SQ
<1>8. Between(g_tail, g_cur_tail, t, N) /\ t # g_cur_tail
  BY <1>3, <1>4, <1>7, <1>a, Sizes, BetweenFacts DEF SQ
<1>9. Dist(g_cur_tail, t, N) = Dist(g_cur_tail, gtail, N) + 1
  BY <1>3, <1>4, <1>8, Sizes, DistFacts DEF SQ
<1>10. /\ Dist(g_cur_tail, gtail, N) \in 0..N-1 /\ Dist(g_cur_tail, g_new_tail, N) \in 0..N-1
       /\ Dist(gtail, gtail, N) = 0
  BY <1>3, Sizes, DistFacts DEF SQ
<1>11. Eff' = Eff
  BY <1>1 DEF Behind, Eff
<1>12. GuestRingsInv'
  <2>1. Dist(g_cur_tail, g_new_tail, N) <= Dist(g_cur_tail, t, N)
    BY <1>7, <1>9, <1>10
  <2> QED
    BY <1>0, <1>1, <1>4, <1>a, <1>8, <1>11, <2>1
       DEF GuestRingsInv, Behind, Heads, Phases, HeadsOK, PhasesOK, Between, Window, CQ
<1>13. Submitted' = Submitted
  BY <1>1, <1>3, <1>4, <1>9, <1>10 DEF Submitted, Fetched
<1>14. InQueuesInv'
  <2>1. /\ Window(g_cur_tail, t, N) = Window(g_cur_tail, gtail, N) \cup {gtail}
        /\ gtail \notin Window(g_cur_tail, gtail, N) /\ Window(g_cur_tail, gtail, N) \subseteq SQ
    BY <1>3, <1>4, <1>8, Sizes, WindowFacts DEF SQ
  <2>2. Window(g_cur_tail, gtail, N)' = Window(g_cur_tail, gtail, N) \cup {gtail}
    BY <1>1, <1>4, <2>1 DEF Window
  <2>3. ASSUME NEW p \in Window(g_cur_tail, gtail, N) PROVE gsq'[p] = issued' + 1 - Dist(p, t, N)
    <3>1. p \in SQ /\ Dist(g_cur_tail, p, N) < Dist(g_cur_tail, gtail, N)
      BY <2>1 DEF Window
    <3>2. Dist(g_cur_tail, p, N) \in 0..N-1 /\ Dist(p, gtail, N) \in 0..N-1
      BY <1>3, <3>1, Sizes, DistFacts DEF SQ
    <3>3. Dist(g_cur_tail, p, N) <= Dist(g_cur_tail, gtail, N)
      BY <1>10, <3>1, <3>2
    <3>4. Between(g_cur_tail, p, gtail, N)
      BY <1>3, <3>1, <3>3, Sizes, DistThree DEF SQ
    <3>a. Dist(g_cur_tail, t, N) \in 0..N-1
      BY <1>3, Sizes, DistFacts DEF SQ
    <3>b. Dist(g_cur_tail, p, N) + Dist(p, gtail, N) = Dist(g_cur_tail, gtail, N)
      BY <3>4 DEF Between
    <3>5. Dist(p, gtail, N) # N - 1
      BY ONLY <1>9, <1>10, <3>2, <3>a, <3>b, Sizes
    <3>6. Dist(p, t, N) = Dist(p, gtail, N) + 1
      BY <1>3, <1>4, <3>1, <3>5, Sizes, DistFacts DEF SQ
    <3>7. gsq'[p] = issued + 1 - Dist(p, gtail, N)
      BY <1>0, <1>1, <1>3, <2>1, <3>1 DEF InQueuesInv
    <3>8. issued' = issued + 1 /\ issued \in Int
      BY <1>1, <1>3
    <3> QED
      BY ONLY <3>2, <3>6, <3>7, <3>8
  <2>4. gsq'[gtail] = issued' + 1 - Dist(gtail, t, N)
    <3>1. 0 # N - 1
      BY RingSizes
    <3>a. Dist(gtail, t, N) = IF Dist(gtail, gtail, N) = N - 1 THEN 0
                                                  ELSE Dist(gtail, gtail, N) + 1
      BY <1>3, <1>4, Sizes, DistFacts DEF SQ
    <3>2. Dist(gtail, t, N) = 1
      BY ONLY <1>10, <3>1, <3>a
    <3> QED
      BY <1>1, <1>3, <3>2
  <2>5. \A p \in Window(g_cur_tail, gtail, N)' : gsq'[p] = issued' + 1 - Dist(p, gtail, N)'
    BY <1>1, <1>4, <2>2, <2>3, <2>4
  <2> QED
    BY <1>0, <1>1, <1>13, <2>5 DEF InQueuesInv, Host
<1> QED
  BY <1>1, <1>2, <1>6, <1>12, <1>13, <1>14, BehindInv
----------------------------------------------------------------------------
(* The guest acknowledges completions.                                     *)

LEMMA AcknowledgeInv ==
    ASSUME QueueInv, not_ack_g' = not_ack_g - n_ack_reqs, g_new_head' = gcqhead,
           last_write' = doorbell(h_cqhead, g_head, gcqhead), ~Ignored,
           UNCHANGED <<gsqhd, g_tail, g_cur_tail, gtail, g_new_tail, gcqhead, g_head, g_phase,
                       gcqphase, gcq, first, c_tail, h_tail, h_head, c_head, h_cqhead, c_cqtail,
                       c_phase, h_phase, hcq, n_slots_used, req_slot, not_ack_h, creq>>,
           Delivering' = Delivering
    PROVE  GuestRingsInv' /\ HostRingsInv' /\ CountsInv' /\ last_write' \in CQ /\ not_ack_g' \in Int
<1>0. NumbersInv /\ GuestRingsInv /\ HostRingsInv /\ CountsInv
  BY DEF QueueInv
<1>1. /\ gcqhead \in CQ /\ g_head \in CQ /\ g_new_head \in CQ /\ h_cqhead \in CQ
      /\ last_write \in CQ /\ c_cqtail \in CQ /\ not_ack_g \in Int
  BY <1>0 DEF NumbersInv
<1>2. /\ Dist(g_new_head, gcqhead, M) \in 0..M-1 /\ Dist(gcqhead, g_head, M) \in 0..M-1
      /\ Dist(g_new_head, g_head, M) \in 0..M-1 /\ Dist(last_write, h_cqhead, M) \in 0..M-1
      /\ Dist(h_cqhead, c_cqtail, M) \in 0..M-1 /\ Dist(last_write, c_cqtail, M) \in 0..M-1
  BY <1>1, Sizes, DistFacts DEF CQ
<1>3. Dist(g_new_head, gcqhead, M) + Dist(gcqhead, g_head, M) = Dist(g_new_head, g_head, M)
  BY <1>0 DEF GuestRingsInv, Between
<1>4. PICK w \in CQ : w = last_write' /\ Dist(w, h_cqhead, M) = Dist(gcqhead, g_head, M)
  <2>1. PICK d \in 0..M-1 : d = Dist(gcqhead, g_head, M)
    BY <1>2
  <2>2. last_write' = Dist(d, h_cqhead, M)
    BY <2>1 DEF doorbell
  <2> QED
    BY <1>1, <2>1, <2>2, Sizes, DistBack DEF CQ
<1>5. Dist(last_write, h_cqhead, M) = Dist(g_new_head, g_head, M)
  BY <1>0 DEF CountsInv
<1>6. Between(last_write, w, h_cqhead, M)
  <2>1. Dist(w, h_cqhead, M) <= Dist(last_write, h_cqhead, M)
    BY <1>2, <1>3, <1>4, <1>5
  <2> QED
    BY <1>1, <2>1, Sizes, BetweenBack DEF CQ
<1>7. Between(w, h_cqhead, c_cqtail, M)
  BY <1>0, <1>1, <1>6, Sizes, BetweenInner DEF CQ, HostRingsInv
<1>8. HostRingsInv'
  BY <1>0, <1>4, <1>7 DEF HostRingsInv, Heads, Phases, HeadsOK, PhasesOK, Between, Window, CQ
<1>9. Eff' = Eff /\ Between(gcqhead, gcqhead, g_head, M)
  BY <1>0, <1>1, Sizes, BetweenFacts DEF Eff, CQ, GuestRingsInv
<1>10. GuestRingsInv'
  BY <1>0, <1>9 DEF GuestRingsInv, Heads, Phases, HeadsOK, PhasesOK, Between, Window, CQ
<1>11. CountsInv'
  <2>1. \A S : SlotsOf(S)' = SlotsOf(S) /\ InHand(S)' = InHand(S)
    BY DEF SlotsOf, InHand, SQ
  <2>2. Window(last_write, h_cqhead, M)' \subseteq Window(last_write, h_cqhead, M)
    <3>1. Window(w, h_cqhead, M) \subseteq Window(last_write, h_cqhead, M)
      BY <1>1, <1>6, Sizes, WindowSplit DEF CQ
    <3> QED
      BY <1>4, <3>1 DEF Window
  <2>3. \A i \in Window(last_write, h_cqhead, M)' : hcq'[i].req \in Guest'
    BY <1>0, <2>2 DEF CountsInv, Guest
  <2>4. not_ack_g' = not_ack_g - Dist(g_new_head, gcqhead, M) /\ not_ack_g' >= 0
    BY <1>1, <1>2 DEF n_ack_reqs, Ignored
  <2>5. not_ack_g' = Cardinality(SlotsOf(Guest)) + InHand(Guest) + Dist(gcqhead, g_head, M)
    <3>1. not_ack_g = Cardinality(SlotsOf(Guest)) + InHand(Guest) + Dist(g_new_head, g_head, M)
      BY <1>0 DEF CountsInv
    <3>2. InHand(Guest) \in Int /\ Cardinality(SlotsOf(Guest)) \in Int
      BY SlotsFinite DEF InHand
    <3> QED
      BY <1>2, <1>3, <2>4, <3>1, <3>2
  <2>6. not_ack_g = 0 => not_ack_g' = 0
    BY <1>1, <1>2, <2>4
  <2>7. Dist(last_write, h_cqhead, M)' = Dist(g_new_head, g_head, M)'
    BY <1>4
  <2>8. \A S : Cardinality(SlotsOf(S))' = Cardinality(SlotsOf(S))
    BY <2>1
  <2>9. /\ n_slots_used' = Cardinality(SlotsOf(Guest \cup Host))'
        /\ not_ack_h' = Cardinality(SlotsOf(Host))' + InHand(Host)'
        /\ n_slots_used' <= N - 1
    BY <1>0, <2>1 DEF CountsInv, Guest, Host
  <2>10. not_ack_g' = Cardinality(SlotsOf(Guest))' + InHand(Guest)' + Dist(g_new_head, g_head, M)'
    BY <2>1, <2>5 DEF Guest
  <2>11. not_ack_g' = 0 \/ not_ack_h' = 0
    BY <1>0, <2>6 DEF CountsInv
  <2> QED
    BY <2>3, <2>7, <2>9, <2>10, <2>11 DEF CountsInv
<1> QED
  BY <1>1, <1>2, <1>4, <1>8, <1>10, <1>11 DEF n_ack_reqs

LEMMA RingCqInv == ASSUME QueueInv, ring_cq PROVE QueueInv'
<1>0. NumbersInv /\ LockInv /\ GuestRingsInv /\ HostRingsInv /\ CountsInv
  BY DEF QueueInv
<1> DEFINE Kept == UNCHANGED <<issued, gsq, gtail, gsqhd, gcqhead, gcqphase, answered, g_tail,
                               g_cur_tail, g_new_tail, gcq, g_head, g_phase, queuing_g,
                               queuing_h, req_slot, n_slots_used, next_slot, not_ack_h, hsq,
                               h_tail, h_head, h_cqhead, h_phase, c_tail, c_head, inflight, hcq,
                               c_cqtail, c_phase, executed, first, hosts, creq, cent, comp_lock>>
<1>1. /\ pc["comp"] = "idle" /\ pc' = [pc EXCEPT !["comp"] = "comp"] /\ Kept
  BY DEF ring_cq, Goto, guestVars, gq, gc, queues, slots, hq, hc, ctrl, proc
<1>2. LockInv' /\ Delivering' = Delivering /\ pc' \in [Contexts -> Places]
  BY <1>0, <1>1, LockFrame DEF Contexts
<1>3. CASE Ignored
  <2>1. UNCHANGED <<not_ack_g, g_new_head, last_write>>
    BY <1>3 DEF ring_cq
  <2>2. Idle
    BY <1>1, <2>1 DEF Idle
  <2>3. creq' \in Int /\ cent' \in Entry /\ creq' = creq
    BY <1>0, <1>1 DEF NumbersInv
  <2> QED
    BY <1>2, <2>2, <2>3, IdleInv
<1>4. CASE ~Ignored
  <2>1. /\ not_ack_g' = not_ack_g - n_ack_reqs /\ g_new_head' = gcqhead
        /\ last_write' = doorbell(h_cqhead, g_head, gcqhead)
    BY <1>4 DEF ring_cq
  <2>2. GuestRingsInv' /\ HostRingsInv' /\ CountsInv' /\ last_write' \in CQ /\ not_ack_g' \in Int
    BY <1>1, <1>2, <1>4, <2>1, AcknowledgeInv
  <2>3. gcqhead \in CQ
    BY <1>0 DEF NumbersInv
  <2>4. NumbersInv'
    BY <1>0, <1>1, <1>2, <2>1, <2>2, <2>3 DEF NumbersInv
  <2>5. Eff' = Eff
    BY <1>1 DEF Eff
  <2>6. OwnInv' /\ CommandsInv' /\ ExecutedInv'
    BY <1>1, <1>2, <2>5, OwnFrame, CommandsFrame, ExecutedFrame DEF QueueInv
  <2> QED
    BY <1>2, <2>2, <2>4, <2>6 DEF QueueInv
<1> QED
  BY <1>3, <1>4

\* The first answer is shown to the guest.
LEMMA ShowFirstInv ==
    ASSUME QueueInv, NEW c \in {"subm", "comp"}, show_first(c) PROVE QueueInv'
<1>0. NumbersInv /\ LockInv /\ GuestRingsInv
  BY DEF QueueInv
<1> DEFINE Kept == UNCHANGED <<issued, gsq, gtail, gsqhd, gcqhead, gcqphase, answered, g_tail,
                               g_cur_tail, g_new_tail, g_head, g_phase, g_new_head, queuing_g,
                               queuing_h, req_slot, n_slots_used, next_slot, not_ack_g,
                               not_ack_h, hsq, h_tail, h_head, h_cqhead, h_phase, last_write,
                               c_tail, c_head, inflight, hcq, c_cqtail, c_phase, executed, hosts,
                               creq, cent>>
<1>1. /\ pc[c] = "loop" /\ pc' = [pc EXCEPT ![c] = "relock"] /\ comp_lock' = "nobody"
      /\ gcq' = Eff /\ first' = <<>> /\ Kept
  BY DEF show_first, Goto, Eff, guestVars, gq, queues, slots, counts, hq, hc, ctrl
<1>2. \A d \in Contexts : pc'[d] = IF d = c THEN "relock" ELSE pc[d]
  BY <1>0, <1>1 DEF NumbersInv, Contexts
<1>3. comp_lock = c /\ \A d \in Contexts : d # c => pc[d] \notin {"loop", "deliver", "free"}
  BY <1>0, <1>1 DEF LockInv, Contexts
<1>4. \A d \in Contexts : pc'[d] \notin {"loop", "deliver", "free"}
                          /\ pc[d] \notin {"deliver", "free"}
  BY <1>1, <1>2, <1>3 DEF Contexts
<1>5. ~Delivering /\ ~Delivering' /\ creq = None
  BY <1>0, <1>4 DEF Delivering, LockInv
<1>6. LockInv'
  BY <1>1, <1>4, <1>5 DEF LockInv, Contexts
<1>7. Delivering' = Delivering
  BY <1>5 DEF Delivering
<1>8. Eff' = Eff /\ Eff \in [CQ -> Entry]
  BY <1>0, <1>1, RingTypes DEF Eff
<1>9. NumbersInv'
  <2>1. pc' \in [Contexts -> Places]
    BY <1>0, <1>1 DEF NumbersInv, Places, Contexts
  <2> QED
    BY <1>0, <1>1, <1>8, <2>1 DEF NumbersInv
<1>10. GuestRingsInv'
  BY <1>0, <1>1, <1>8
     DEF GuestRingsInv, Heads, Phases, HeadsOK, PhasesOK, Between, Window, CQ
<1>11. HostRingsInv' /\ OwnInv' /\ CountsInv'
  BY <1>1, <1>7, HostRingsFrame, OwnFrame, CountsFrame DEF QueueInv
<1>12. CommandsInv' /\ ExecutedInv'
  BY <1>1, <1>7, <1>8, CommandsFrame, ExecutedFrame DEF QueueInv
<1> QED
  BY <1>6, <1>9, <1>10, <1>11, <1>12 DEF QueueInv
----------------------------------------------------------------------------
(* The guest takes an answer.                                              *)

LEMMA SubmittedBound ==
    ASSUME NumbersInv PROVE Submitted \in Int /\ 1..Submitted \subseteq Guest
<1>1. issued \in 0..MAXG /\ g_cur_tail \in SQ /\ gtail \in SQ /\ Len(queuing_g) \in Nat
  BY DEF NumbersInv
<1>2. Dist(g_cur_tail, gtail, N) \in 0..N-1
  BY <1>1, Sizes, DistFacts DEF SQ
<1> QED
  BY <1>1, <1>2, Sizes DEF Submitted, Fetched, Guest

\* What the guest sees with its phase is an answer, and not the one that is
\* kept back.
LEMMA SeesAnswer ==
    ASSUME NumbersInv, GuestRingsInv, gcq[gcqhead].phase = gcqphase
    PROVE  gcqhead # g_head /\ gcq[gcqhead] = Eff[gcqhead] /\ (first # <<>> => first[1] # gcqhead)
<1>1. /\ gcqhead \in CQ /\ g_head \in CQ /\ gcqphase \in Bit /\ g_phase \in Bit
      /\ gcq \in [CQ -> Entry] /\ (first = <<>> \/ first \in CQ \X Entry)
  BY DEF NumbersInv
<1>2. Phases(Eff) \in [CQ -> Bit] /\ PhasesOK(Phases(Eff), g_head, g_phase, gcqhead, gcqphase)
  BY RingTypes DEF GuestRingsInv
<1>3. Phases(Eff)[gcqhead] = gcqphase <=> gcqhead # g_head
  BY <1>1, <1>2, PhasesTest
<1>4. Phases(Eff)[gcqhead] = Eff[gcqhead].phase
  BY <1>1 DEF Phases
<1>5. ASSUME first # <<>> PROVE first[1] # gcqhead
  <2> SUFFICES ASSUME first[1] = gcqhead PROVE FALSE
    OBVIOUS
  <2>1. first[1] \in Window(gcqhead, g_head, M) /\ gcq[first[1]].phase = 1 - first[2].phase
    BY <1>5 DEF GuestRingsInv
  <2>2. gcqhead # g_head
    BY <1>1, <2>1, Sizes, WindowFacts DEF CQ
  <2>3. Eff[gcqhead] = first[2] /\ first[2] \in Entry
    BY <1>1, <1>5 DEF Eff
  <2>4. first[2].phase = gcqphase /\ first[2].phase \in Bit
    BY <1>3, <1>4, <2>2, <2>3 DEF Entry
  <2> QED
    BY <1>1, <2>1, <2>4 DEF Bit
<1>6. gcq[gcqhead] = Eff[gcqhead]
  BY <1>1, <1>5 DEF Eff
<1> QED
  BY <1>3, <1>4, <1>5, <1>6

LEMMA TakeAnswerInv == ASSUME QueueInv, take_answer PROVE QueueInv'
<1>0. NumbersInv /\ LockInv /\ GuestRingsInv /\ AnswersInv /\ ExecutedInv
  BY DEF QueueInv, CommandsInv
<1> DEFINE a == gcq[gcqhead]
           Kept == UNCHANGED <<issued, gsq, gtail, g_tail, g_cur_tail, g_new_tail, gcq, g_head,
                               g_phase, g_new_head, queuing_g, queuing_h, req_slot, n_slots_used,
                               next_slot, not_ack_g, not_ack_h, hsq, h_tail, h_head, h_cqhead,
                               h_phase, last_write, c_tail, c_head, inflight, hcq, c_cqtail,
                               c_phase, executed, first, hosts, creq, cent, comp_lock, pc>>
<1>1. /\ a.phase = gcqphase /\ answered' = [answered EXCEPT ![a.cid] = @ + 1]
      /\ gsqhd' = a.head /\ gcqhead' = Inc(gcqhead, M)
      /\ gcqphase' = Flip(gcqphase, gcqhead' = 0) /\ Kept
  BY DEF take_answer, rest, gq, gc, queues, slots, counts, hq, hc, ctrl, proc
<1>2. gcqhead # g_head /\ a = Eff[gcqhead] /\ (first # <<>> => first[1] # gcqhead)
  BY <1>0, <1>1, SeesAnswer
<1>3. /\ gcqhead \in CQ /\ g_head \in CQ /\ g_new_head \in CQ /\ gsqhd \in SQ
      /\ g_tail \in SQ /\ g_cur_tail \in SQ
      /\ gtail \in SQ /\ gcqphase \in Bit /\ g_phase \in Bit /\ answered \in [Guest -> Int]
  BY <1>0 DEF NumbersInv
<1>4. Eff \in [CQ -> Entry] /\ Heads(Eff) \in [CQ -> SQ] /\ Phases(Eff) \in [CQ -> Bit]
  BY <1>0, RingTypes
<1>5. Heads(Eff)[gcqhead] = a.head /\ a \in Entry /\ a.head \in SQ
  BY <1>2, <1>3, <1>4 DEF Heads, Entry
<1>6. gcqhead' \in CQ /\ gcqphase' \in Bit
  <2>1. Inc(gcqhead, M) \in CQ
    BY <1>3, Sizes, DistFacts DEF CQ
  <2>2. gcqphase' \in Bit
    BY <1>1, <1>3 DEF Flip, Bit
  <2> QED
    BY <1>1, <2>1, <2>2
<1> HIDE DEF a
<1>8. Delivering' = Delivering /\ LockInv' /\ Eff' = Eff
  BY <1>0, <1>1 DEF Delivering, LockInv, Eff
<1>9. Window(gcqhead, g_head, M)' = Window(gcqhead, g_head, M) \ {gcqhead}
  <2>1. Window(Inc(gcqhead, M), g_head, M) = Window(gcqhead, g_head, M) \ {gcqhead}
    BY <1>2, <1>3, Sizes, WindowFacts DEF CQ
  <2> QED
    BY <1>1, <2>1 DEF Window
<1>10. GuestRingsInv'
  <2>1. /\ Between(gsqhd, g_tail, gtail, N) /\ Between(g_new_head, gcqhead, g_head, M)
        /\ HeadsOK(gsqhd, g_tail, gcqhead, g_head, Heads(Eff))
        /\ PhasesOK(Phases(Eff), g_head, g_phase, gcqhead, gcqphase)
    BY <1>0 DEF GuestRingsInv
  <2>2. /\ Between(gsqhd, a.head, g_tail, N)
        /\ HeadsOK(a.head, g_tail, Inc(gcqhead, M), g_head, Heads(Eff))
    BY <1>2, <1>3, <1>4, <1>5, <2>1, HeadsTake
  <2>3. Between(a.head, g_tail, gtail, N)
    BY <1>3, <1>5, <2>1, <2>2, Sizes, BetweenInner DEF SQ
  <2>4. Between(g_new_head, Inc(gcqhead, M), g_head, M)
    BY <1>2, <1>3, <2>1, Sizes, BetweenFacts DEF CQ
  <2>5. PhasesOK(Phases(Eff), g_head, g_phase, Inc(gcqhead, M), Flip(gcqphase, Inc(gcqhead, M) = 0))
    BY <1>2, <1>3, <1>4, <2>1, PhasesTake
  <2>6. first' # <<>> => /\ first'[1] \in Window(gcqhead, g_head, M)'
                         /\ gcq'[first'[1]].phase = 1 - first'[2].phase
    BY <1>0, <1>1, <1>2, <1>9 DEF GuestRingsInv
  <2>7. HeadsOK(gsqhd', g_tail', gcqhead', g_head', Heads(Eff)')
    BY <1>1, <1>8, <2>2 DEF Heads, CQ
  <2>8. PhasesOK(Phases(Eff)', g_head', g_phase', gcqhead', gcqphase')
    BY <1>1, <1>8, <2>5 DEF Phases, CQ
  <2>9. /\ Between(gsqhd, g_tail, gtail, N)' /\ Between(g_tail, g_cur_tail, gtail, N)'
        /\ Between(g_new_head, gcqhead, g_head, M)'
        /\ Dist(g_cur_tail, g_new_tail, N)' <= Dist(g_cur_tail, gtail, N)'
    BY <1>0, <1>1, <2>3, <2>4 DEF GuestRingsInv, Between
  <2>10. HeadsOK(gsqhd, g_tail, gcqhead, g_head, Heads(Eff))'
    BY <2>7 DEF HeadsOK, Window
  <2>11. PhasesOK(Phases(Eff), g_head, g_phase, gcqhead, gcqphase)'
    BY <2>8 DEF PhasesOK, CQ
  <2> QED
    BY <2>6, <2>9, <2>10, <2>11 DEF GuestRingsInv
<1>11. HostRingsInv' /\ OwnInv' /\ CountsInv'
  BY <1>1, <1>8, HostRingsFrame, OwnFrame, CountsFrame DEF QueueInv
<1>12. Submitted' = Submitted
  BY <1>1 DEF Submitted, Fetched
<1>13. InQueuesInv' /\ InSlotsInv'
  BY <1>1, <1>8, <1>12, InQueuesFrame, InSlotsFrame DEF QueueInv, CommandsInv
<1>14. gcqhead \in Answers /\ Answers' = Answers \ {gcqhead}
  BY <1>2, <1>3, <1>9, Sizes, WindowFacts DEF Answers, CQ
<1>15. a.cid \in 1..Submitted /\ a.cid \in Guest /\ Elsewhere(a.cid) /\ a.cid \in executed
  BY <1>0, <1>2, <1>14, SubmittedBound DEF AnswersInv, ExecutedInv
<1>16. answered[a.cid] = 0
  BY <1>0, <1>2, <1>14, <1>15 DEF AnswersInv
<1>17. \A k \in Guest : answered'[k] = IF k = a.cid THEN 1 ELSE answered[k]
  BY <1>1, <1>3, <1>15, <1>16
<1>7. NumbersInv'
  <2>1. answered' \in [Guest -> Int]
    BY <1>1, <1>3, <1>15
  <2> QED
    BY <1>0, <1>1, <1>5, <1>6, <2>1 DEF NumbersInv, Guest
<1>18. \A k : Elsewhere(k)' = Elsewhere(k)
  BY <1>1, <1>8 DEF Elsewhere, SQ
<1>19. AnswersInv'
  <2>1. \A p \in Answers' : Eff'[p].cid # a.cid
    BY <1>0, <1>2, <1>8, <1>14 DEF AnswersInv
  <2>2. /\ (\A p \in Answers : Eff[p].cid \in 1..Submitted /\ Elsewhere(Eff[p].cid))'
        /\ (\A p, q \in Answers : Eff[p].cid = Eff[q].cid => p = q)'
    BY <1>0, <1>1, <1>8, <1>12, <1>14 DEF AnswersInv, Elsewhere, SQ
  <2>3. \A k \in Guest : answered'[k] \in {0, 1}
    BY <1>0, <1>17 DEF AnswersInv
  <2>4. ASSUME NEW k \in Guest, answered'[k] = 1
        PROVE  k <= Submitted' /\ Elsewhere(k)' /\ \A p \in Answers' : Eff'[p].cid # k
    <3>1. CASE k = a.cid
      BY <1>12, <1>15, <1>18, <2>1, <3>1, <1>0, SubmittedBound
    <3>2. CASE k # a.cid
      BY <1>0, <1>8, <1>12, <1>14, <1>17, <1>18, <2>4, <3>2 DEF AnswersInv
    <3> QED
      BY <3>1, <3>2
  <2> QED
    BY <2>2, <2>3, <2>4 DEF AnswersInv, Guest
<1>20. ExecutedInv'
  <2>1. \A k \in Guest : answered'[k] = 1 => k \in executed
    BY <1>0, <1>15, <1>17 DEF ExecutedInv
  <2>2. \A p \in Answers' : Eff'[p].cid \in executed
    BY <1>0, <1>8, <1>14 DEF ExecutedInv
  <2> QED
    BY <1>0, <1>1, <1>8, <2>1, <2>2 DEF ExecutedInv, Window, Guest
<1> QED
  BY <1>7, <1>8, <1>10, <1>11, <1>13, <1>19, <1>20 DEF QueueInv, CommandsInv
----------------------------------------------------------------------------
(* The controller.                                                         *)

\* A pair is its components.
LEMMA PairEq ==
    ASSUME NEW e \in Int \X Int, NEW f \in Int \X Int, e[1] = f[1], e[2] = f[2] PROVE e = f
  OBVIOUS

LEMMA CtrlFetchInv == ASSUME QueueInv, ctrl_fetch PROVE QueueInv'
<1>0. NumbersInv /\ LockInv /\ HostRingsInv /\ OwnInv
  BY DEF QueueInv
<1> DEFINE Kept == UNCHANGED <<issued, gsq, gtail, gsqhd, gcqhead, gcqphase, answered, g_tail,
                               g_cur_tail, g_new_tail, gcq, g_head, g_phase, g_new_head,
                               queuing_g, queuing_h, req_slot, n_slots_used, next_slot,
                               not_ack_g, not_ack_h, hsq, h_tail, h_head, h_cqhead, h_phase,
                               last_write, c_tail, hcq, c_cqtail, c_phase, executed, first,
                               hosts, creq, cent, comp_lock, pc>>
           e == hsq[c_head]
<1>1. c_head # c_tail /\ inflight' = inflight \cup {e} /\ c_head' = Inc(c_head, N) /\ Kept
  BY DEF ctrl_fetch, rest, guestVars, gq, gc, queues, slots, counts, hq, hc, proc
<1>2. /\ h_head \in SQ /\ c_head \in SQ /\ c_tail \in SQ /\ h_tail = c_tail
      /\ h_cqhead \in CQ /\ c_cqtail \in CQ /\ hsq \in [SQ -> Int \X Int] /\ e \in Int \X Int
  BY <1>0 DEF NumbersInv, HostRingsInv
<1>3. PICK h \in SQ : h = Inc(c_head, N)
  BY <1>2, Sizes, DistFacts DEF SQ
<1>4. Delivering' = Delivering /\ LockInv' /\ Eff' = Eff
  BY <1>0, <1>1 DEF Delivering, LockInv, Eff
<1> HIDE DEF e
<1>5. NumbersInv'
  BY <1>0, <1>1, <1>2, <1>3 DEF NumbersInv
<1>6. HostRingsInv'
  <2>1. Between(h_head, c_head, h_tail, N) /\ HeadsOK(h_head, c_head, h_cqhead, c_cqtail, Heads(hcq))
    BY <1>0 DEF HostRingsInv
  <2>2. Between(h_head, h, h_tail, N) /\ h # h_head
    BY <1>1, <1>2, <1>3, <2>1, Sizes, BetweenFacts DEF SQ
  <2>3. Dist(h_head, h, N) = Dist(h_head, c_head, N) + 1 /\ Dist(h_head, c_head, N) \in 0..N-1
    BY <1>2, <1>3, <2>2, Sizes, DistFacts DEF SQ
  <2>4. Dist(h_head, c_head, N) <= Dist(h_head, h, N)
    BY <2>3
  <2>5. Heads(hcq) \in [CQ -> SQ]
    BY <1>0, RingTypes
  <2>6. HeadsOK(h_head, h, h_cqhead, c_cqtail, Heads(hcq))
    BY <1>2, <2>1, <2>4, <2>5, HeadsForward
  <2> QED
    BY <1>0, <1>1, <1>3, <2>2, <2>6
       DEF HostRingsInv, Heads, Phases, HeadsOK, PhasesOK, Between, Window, CQ
<1>7. OwnInv'
  <2>1. Window(h, c_tail, N) = Window(c_head, c_tail, N) \ {c_head}
    BY <1>1, <1>2, <1>3, Sizes, WindowFacts DEF SQ
  <2>2. Unfetched' = Unfetched \ {c_head}
    BY <1>1, <1>3, <2>1 DEF Unfetched, Window
  <2>3. c_head \in Unfetched /\ Unseen' = Unseen
    BY <1>1, <1>2, <1>4, Sizes, WindowFacts DEF Unfetched, Unseen, Window, SQ
  <2>4. /\ \A i \in Unfetched : Holds(hsq[i][1], hsq[i][2])
        /\ \A d \in inflight : Holds(d[1], d[2])
        /\ \A j \in Unseen : Holds(hcq[j].cid, hcq[j].req)
    BY <1>0 DEF OwnInv
  <2>5. /\ (\A i \in Unfetched : Holds(hsq[i][1], hsq[i][2]))'
        /\ (\A d \in inflight : Holds(d[1], d[2]))'
        /\ (\A j \in Unseen : Holds(hcq[j].cid, hcq[j].req))'
    BY <1>1, <2>2, <2>3, <2>4 DEF Holds, SQ, e
  <2>6. (\A s \in SQ : req_slot[s] # None =>
           \/ \E i \in Unfetched : hsq[i][1] = s
           \/ \E d \in inflight : d[1] = s
           \/ \E j \in Unseen : hcq[j].cid = s)'
    BY <1>0, <1>1, <2>2, <2>3 DEF OwnInv, SQ, e
  <2>7. /\ (\A i, j \in Unfetched : hsq[i][1] = hsq[j][1] => i = j)'
        /\ (\A i, j \in Unseen : hcq[i].cid = hcq[j].cid => i = j)'
        /\ (\A i \in Unfetched, d \in inflight : hsq[i][1] # d[1])'
        /\ (\A i \in Unfetched, j \in Unseen : hsq[i][1] # hcq[j].cid)'
        /\ (\A d \in inflight, j \in Unseen : d[1] # hcq[j].cid)'
    BY <1>0, <1>1, <2>2, <2>3 DEF OwnInv, e
  <2> QED
    BY <2>5, <2>6, <2>7 DEF OwnInv
<1>8. GuestRingsInv' /\ CountsInv'
  BY <1>1, <1>4, GuestRingsFrame, CountsFrame DEF QueueInv
<1>9. CommandsInv' /\ ExecutedInv'
  BY <1>1, <1>4, CommandsFrame, ExecutedFrame DEF QueueInv
<1> QED
  BY <1>4, <1>5, <1>6, <1>7, <1>8, <1>9 DEF QueueInv

LEMMA CtrlCompleteInv == ASSUME QueueInv, ctrl_complete PROVE QueueInv'
<1>0. NumbersInv /\ LockInv /\ HostRingsInv /\ OwnInv /\ CountsInv /\ ExecutedInv
  BY DEF QueueInv
<1> DEFINE Kept == UNCHANGED <<issued, gsq, gtail, gsqhd, gcqhead, gcqphase, answered, g_tail,
                               g_cur_tail, g_new_tail, gcq, g_head, g_phase, g_new_head,
                               queuing_g, queuing_h, req_slot, n_slots_used, next_slot,
                               not_ack_g, not_ack_h, hsq, h_tail, h_head, h_cqhead, h_phase,
                               last_write, c_tail, c_head, first, hosts, creq, cent, comp_lock,
                               pc>>
           New(d) == [cid |-> d[1], phase |-> c_phase, head |-> c_head, req |-> d[2]]
<1>1. PICK e \in inflight : /\ hcq' = [hcq EXCEPT ![c_cqtail] = New(e)]
                            /\ inflight' = inflight \ {e} /\ executed' = executed \cup {e[2]}
  BY DEF ctrl_complete
<1>2. /\ Inc(c_cqtail, M) # last_write /\ c_cqtail' = Inc(c_cqtail, M)
      /\ c_phase' = Flip(c_phase, c_cqtail' = 0) /\ Kept
  BY DEF ctrl_complete, rest, guestVars, gq, gc, queues, slots, counts, hq, hc, proc
<1>3. /\ h_head \in SQ /\ c_head \in SQ /\ h_cqhead \in CQ /\ c_cqtail \in CQ /\ last_write \in CQ
      /\ hcq \in [CQ -> Entry] /\ c_phase \in Bit /\ h_phase \in Bit /\ e \in Int \X Int
      /\ inflight \subseteq Int \X Int
  BY <1>0 DEF NumbersInv
<1>4. PICK t \in CQ : t = Inc(c_cqtail, M)
  BY <1>3, Sizes, DistFacts DEF CQ
<1>5. PICK x \in Entry : x = New(e)
  BY <1>3 DEF Entry
<1>6. hcq'[c_cqtail] = x /\ \A p \in CQ : p # c_cqtail => hcq'[p] = hcq[p]
  BY <1>1, <1>3, <1>5
<1>7. x.cid = e[1] /\ x.req = e[2] /\ x.head = c_head /\ x.phase = c_phase
  BY <1>5
<1> HIDE DEF New
<1>8. NumbersInv'
  <2>1. hcq' \in [CQ -> Entry] /\ c_cqtail' \in CQ
    BY <1>1, <1>2, <1>3, <1>4, <1>5
  <2>2. c_phase' \in Bit
    BY <1>2, <1>3 DEF Flip, Bit
  <2> QED
    BY <1>0, <1>1, <1>2, <2>1, <2>2 DEF NumbersInv
<1>9. Between(last_write, h_cqhead, c_cqtail, M)
  BY <1>0 DEF HostRingsInv
<1>10. Between(last_write, h_cqhead, t, M) /\ t # h_cqhead
  BY <1>2, <1>3, <1>4, <1>9, Sizes, BetweenFacts DEF CQ
<1>11. Delivering' = Delivering /\ Eff' = Eff
  BY <1>2 DEF Delivering, Eff
<1>12. LockInv'
  <2>1. Delivering' => h_cqhead' # c_cqtail' /\ cent' = hcq'[h_cqhead'] /\ creq' = cent'.req
    BY <1>0, <1>2, <1>3, <1>4, <1>6, <1>10, <1>11 DEF LockInv
  <2> QED
    BY <1>0, <1>2, <2>1 DEF LockInv
<1>13. HostRingsInv'
  <2>1. /\ HeadsOK(h_head, c_head, h_cqhead, c_cqtail, Heads(hcq))
        /\ PhasesOK(Phases(hcq), c_cqtail, c_phase, h_cqhead, h_phase)
    BY <1>0 DEF HostRingsInv
  <2>2. Heads(hcq) \in [CQ -> SQ] /\ Phases(hcq) \in [CQ -> Bit]
    BY <1>0, RingTypes
  <2>3. /\ Heads(hcq)' = [Heads(hcq) EXCEPT ![c_cqtail] = c_head]
        /\ Phases(hcq)' = [Phases(hcq) EXCEPT ![c_cqtail] = c_phase]
    BY <1>3, <1>6, <1>7 DEF Heads, Phases, CQ
  <2>a. Inc(c_cqtail, M) # h_cqhead
    BY <1>4, <1>10
  <2>b. HeadsOK(h_head, c_head, h_cqhead, Inc(c_cqtail, M), [Heads(hcq) EXCEPT ![c_cqtail] = c_head])
    BY <1>3, <2>1, <2>2, <2>a, HeadsPut
  <2>4. HeadsOK(h_head, c_head, h_cqhead, Inc(c_cqtail, M), Heads(hcq)')
    BY <2>b, <2>3
  <2>c. PICK u \in Bit : u = c_phase' /\ u = Flip(c_phase, t = 0)
    BY <1>2, <1>4, <1>8 DEF NumbersInv
  <2>5. PhasesOK([Phases(hcq) EXCEPT ![c_cqtail] = c_phase], t, u, h_cqhead, h_phase)
    BY <1>3, <1>4, <1>10, <2>1, <2>2, <2>c, PhasesPut
  <2>6. HeadsOK(h_head, c_head, h_cqhead, c_cqtail, Heads(hcq))'
    BY <1>2, <2>4 DEF HeadsOK, Window
  <2>7. PhasesOK(Phases(hcq), c_cqtail, c_phase, h_cqhead, h_phase)'
    BY <1>2, <1>4, <2>3, <2>5, <2>c DEF PhasesOK, CQ
  <2> QED
    BY <1>0, <1>2, <1>4, <1>10, <2>6, <2>7 DEF HostRingsInv, Between
<1>14. /\ Window(h_cqhead, c_cqtail, M)' = Window(h_cqhead, c_cqtail, M) \cup {c_cqtail}
       /\ c_cqtail \notin Window(h_cqhead, c_cqtail, M) /\ Window(h_cqhead, c_cqtail, M) \subseteq CQ
  <2>1. /\ Window(h_cqhead, t, M) = Window(h_cqhead, c_cqtail, M) \cup {c_cqtail}
        /\ c_cqtail \notin Window(h_cqhead, c_cqtail, M)
        /\ Window(h_cqhead, c_cqtail, M) \subseteq CQ
    BY <1>3, <1>4, <1>10, Sizes, WindowFacts DEF CQ
  <2> QED
    BY <1>2, <1>4, <2>1 DEF Window
<1>15. OwnInv'
  <2>1. Unseen' = Unseen \cup {c_cqtail} /\ c_cqtail \notin Unseen /\ Unseen \subseteq CQ
    <3>1. Delivering => h_cqhead # c_cqtail
      BY <1>0 DEF LockInv
    <3> QED
      BY <1>2, <1>11, <1>14, <3>1 DEF Unseen
  <2>2. Unfetched' = Unfetched
    BY <1>2 DEF Unfetched, Window
  <2>3. \A j \in Unseen : hcq'[j] = hcq[j]
    BY <1>6, <2>1
  <2>4. \A d \in inflight : d # e => d[1] # e[1]
    <3> SUFFICES ASSUME NEW d \in inflight, d[1] = e[1] PROVE d = e
      OBVIOUS
    <3>1. d[2] = e[2]
      BY <1>0 DEF OwnInv, Holds
    <3> QED
      BY <1>3, <3>1, PairEq
  <2>5. Holds(e[1], e[2])
    BY <1>0, <1>1 DEF OwnInv
  <2>6. /\ (\A i \in Unfetched : Holds(hsq[i][1], hsq[i][2]))'
        /\ (\A d \in inflight : Holds(d[1], d[2]))'
    BY <1>0, <1>1, <1>2, <2>2 DEF OwnInv, Holds, SQ
  <2>7. (\A j \in Unseen : Holds(hcq[j].cid, hcq[j].req))'
    BY <1>0, <1>2, <1>6, <1>7, <2>1, <2>3, <2>5 DEF OwnInv, Holds, SQ
  <2>8. (\A s \in SQ : req_slot[s] # None =>
           \/ \E i \in Unfetched : hsq[i][1] = s
           \/ \E d \in inflight : d[1] = s
           \/ \E j \in Unseen : hcq[j].cid = s)'
    <3> SUFFICES ASSUME NEW s \in SQ, req_slot[s] # None
                 PROVE  \/ \E i \in Unfetched : hsq[i][1] = s
                        \/ \E d \in inflight' : d[1] = s
                        \/ \E j \in Unseen' : hcq'[j].cid = s
      BY <1>2, <2>2 DEF SQ
    <3>1. CASE s = e[1]
      BY <1>6, <1>7, <2>1, <3>1
    <3>2. CASE s # e[1]
      BY <1>0, <1>1, <2>1, <2>3, <3>2 DEF OwnInv
    <3> QED
      BY <3>1, <3>2
  <2>9. /\ (\A i, j \in Unfetched : hsq[i][1] = hsq[j][1] => i = j)'
        /\ (\A i \in Unfetched, d \in inflight : hsq[i][1] # d[1])'
    BY <1>0, <1>1, <1>2, <2>2 DEF OwnInv
  <2>10. (\A i, j \in Unseen : hcq[i].cid = hcq[j].cid => i = j)'
    BY <1>0, <1>1, <1>6, <1>7, <2>1, <2>3 DEF OwnInv
  <2>11. (\A i \in Unfetched, j \in Unseen : hsq[i][1] # hcq[j].cid)'
    BY <1>0, <1>1, <1>2, <1>6, <1>7, <2>1, <2>2, <2>3 DEF OwnInv
  <2>12. (\A d \in inflight, j \in Unseen : d[1] # hcq[j].cid)'
    BY <1>0, <1>1, <1>6, <1>7, <2>1, <2>3, <2>4 DEF OwnInv
  <2> QED
    BY <2>6, <2>7, <2>8, <2>9, <2>10, <2>11, <2>12 DEF OwnInv
<1>16. CountsInv'
  <2>1. c_cqtail \notin Window(last_write, h_cqhead, M)
    <3>1. Window(last_write, h_cqhead, M) \subseteq Window(last_write, c_cqtail, M)
      BY <1>3, <1>9, Sizes, WindowSplit DEF CQ
    <3>2. c_cqtail \notin Window(last_write, c_cqtail, M)
      BY <1>3, Sizes, WindowFacts DEF CQ
    <3> QED
      BY <3>1, <3>2
  <2>2. Window(last_write, h_cqhead, M) \subseteq CQ
    BY <1>3, Sizes, WindowFacts DEF CQ
  <2>3. \A i \in Window(last_write, h_cqhead, M) : hcq'[i].req \in Guest
    BY <1>0, <1>6, <2>1, <2>2 DEF CountsInv
  <2>4. \A S : SlotsOf(S)' = SlotsOf(S) /\ InHand(S)' = InHand(S)
    BY <1>2, <1>11 DEF SlotsOf, InHand, SQ
  <2>5. Window(last_write, h_cqhead, M)' = Window(last_write, h_cqhead, M)
    BY <1>2 DEF Window
  <2> QED
    BY <1>0, <1>2, <2>3, <2>4, <2>5 DEF CountsInv, Guest, Host
<1>17. GuestRingsInv' /\ CommandsInv'
  BY <1>2, <1>11, GuestRingsFrame, CommandsFrame DEF QueueInv
<1>18. ExecutedInv'
  <2>1. (\A j \in Window(h_cqhead, c_cqtail, M) : hcq[j].req \in executed)'
    BY <1>0, <1>1, <1>6, <1>7, <1>14 DEF ExecutedInv
  <2> QED
    BY <1>0, <1>1, <1>2, <1>11, <2>1 DEF ExecutedInv, Answers, Window, Guest
<1> QED
  BY <1>8, <1>12, <1>13, <1>15, <1>16, <1>17, <1>18 DEF QueueInv
----------------------------------------------------------------------------
(* process_comp_queue.                                                     *)

\* A slot less.
LEMMA SlotsRemove ==
    ASSUME NumbersInv, NEW s \in SQ, req_slot' = [req_slot EXCEPT ![s] = None], NEW S, None \notin S
    PROVE  /\ SlotsOf(S)' = SlotsOf(S) \ {s}
           /\ Cardinality(SlotsOf(S))' = IF req_slot[s] \in S THEN Cardinality(SlotsOf(S)) - 1
                                                             ELSE Cardinality(SlotsOf(S))
<1>1. req_slot \in [SQ -> Int]
  BY DEF NumbersInv
<1>2. \A t \in SQ : req_slot'[t] = IF t = s THEN None ELSE req_slot[t]
  BY <1>1
<1>3. SlotsOf(S)' = SlotsOf(S) \ {s}
  BY <1>2 DEF SlotsOf, SQ
<1>4. s \in SlotsOf(S) <=> req_slot[s] \in S
  BY DEF SlotsOf
<1>5. IsFiniteSet(SlotsOf(S))
  BY SlotsFinite
<1>6. Cardinality(SlotsOf(S) \ {s}) = IF s \in SlotsOf(S) THEN Cardinality(SlotsOf(S)) - 1
                                                           ELSE Cardinality(SlotsOf(S))
  BY <1>5, FS_RemoveElement
<1> QED
  BY <1>3, <1>4, <1>6

LEMMA NotNone == None \notin Guest /\ None \notin Host /\ Guest \cap Host = {}
  BY Sizes DEF None, Guest, Host

LEMMA GetRequestInv ==
    ASSUME QueueInv, NEW c \in {"subm", "comp"}, get_request(c) PROVE QueueInv'
<1>0. /\ NumbersInv /\ LockInv /\ HostRingsInv /\ OwnInv /\ CountsInv
      /\ InSlotsInv /\ AnswersInv /\ ExecutedInv
  BY DEF QueueInv, CommandsInv
<1> DEFINE x == hcq[h_cqhead]
           s == x.cid
           Kept == UNCHANGED <<issued, gsq, gtail, gsqhd, gcqhead, gcqphase, answered, g_tail,
                               g_cur_tail, g_new_tail, gcq, g_head, g_phase, g_new_head,
                               queuing_g, queuing_h, next_slot, not_ack_g, not_ack_h, hsq,
                               h_tail, h_head, h_cqhead, h_phase, last_write, c_tail, c_head,
                               inflight, hcq, c_cqtail, c_phase, executed, first, hosts,
                               comp_lock>>
<1>1. /\ x.phase = h_phase /\ pc[c] = "loop" /\ pc' = [pc EXCEPT ![c] = "deliver"]
      /\ cent' = x /\ creq' = req_slot[s] /\ req_slot' = [req_slot EXCEPT ![s] = None]
      /\ n_slots_used' = n_slots_used - 1 /\ Kept
  BY DEF get_request, Posted, Goto, guestVars, gq, gc, queues, counts, hq, hc, ctrl
<1>2. /\ h_cqhead \in CQ /\ c_cqtail \in CQ /\ c_phase \in Bit /\ h_phase \in Bit
      /\ hcq \in [CQ -> Entry] /\ x \in Entry /\ req_slot \in [SQ -> Int] /\ n_slots_used \in Int
  BY <1>0 DEF NumbersInv
<1> HIDE DEF x
<1>3. h_cqhead # c_cqtail
  <2>1. /\ Phases(hcq) \in [CQ -> Bit]
        /\ PhasesOK(Phases(hcq), c_cqtail, c_phase, h_cqhead, h_phase)
    BY <1>0, RingTypes DEF HostRingsInv
  <2>2. Phases(hcq)[h_cqhead] = h_phase
    BY <1>1, <1>2 DEF Phases, x
  <2> QED
    BY <1>2, <2>1, <2>2, PhasesTest
<1>4. comp_lock = c /\ \A d \in Contexts : d # c => pc[d] \notin {"loop", "deliver", "free"}
  BY <1>0, <1>1 DEF LockInv, Contexts
<1>5. \A d \in Contexts : pc'[d] = IF d = c THEN "deliver" ELSE pc[d]
  BY <1>0, <1>1 DEF NumbersInv, Contexts
<1>6. ~Delivering /\ Delivering'
  BY <1>1, <1>4, <1>5 DEF Delivering, Contexts
<1>7. /\ h_cqhead \in Window(h_cqhead, c_cqtail, M) /\ Unseen = Window(h_cqhead, c_cqtail, M)
      /\ Unseen' = Unseen \ {h_cqhead}
  <2>1. h_cqhead \in Window(h_cqhead, c_cqtail, M)
    BY <1>2, <1>3, Sizes, WindowFacts DEF CQ
  <2>2. Window(h_cqhead, c_cqtail, M)' = Window(h_cqhead, c_cqtail, M)
    BY <1>1 DEF Window
  <2> QED
    BY <1>1, <1>6, <2>1, <2>2 DEF Unseen
<1>8. s \in SQ /\ req_slot[s] = x.req /\ x.req # None /\ creq' = x.req /\ x.req \in Int
  BY <1>0, <1>1, <1>2, <1>7 DEF OwnInv, Holds, x
<1> HIDE DEF s
<1>9. \A t \in SQ : req_slot'[t] = IF t = s THEN None ELSE req_slot[t]
  BY <1>1, <1>2
<1>10. LockInv'
  <2>1. \A d \in Contexts : pc'[d] \in {"loop", "deliver", "free"} <=> comp_lock' = d
    BY <1>1, <1>4, <1>5 DEF Contexts
  <2>2. creq' # None /\ \E d \in Contexts : pc'[d] \in {"deliver", "free"}
    BY <1>5, <1>8 DEF Contexts
  <2> QED
    BY <1>1, <1>3, <1>8, <2>1, <2>2 DEF LockInv, x
<1>11. NumbersInv'
  <2>1. req_slot' \in [SQ -> Int] /\ n_slots_used' \in Int /\ creq' \in Int /\ cent' \in Entry
    BY <1>1, <1>2, <1>8 DEF None
  <2>2. pc' \in [Contexts -> Places]
    BY <1>0, <1>1 DEF NumbersInv, Places, Contexts
  <2> QED
    BY <1>0, <1>1, <2>1, <2>2 DEF NumbersInv
<1>12. OwnInv'
  <2>1. Unfetched' = Unfetched
    BY <1>1 DEF Unfetched, Window
  <2>2. /\ \A i \in Unfetched : hsq[i][1] # s
        /\ \A e \in inflight : e[1] # s
        /\ \A j \in Unseen' : hcq[j].cid # s
    BY <1>0, <1>7 DEF OwnInv, s, x
  <2>3. /\ (\A i \in Unfetched : Holds(hsq[i][1], hsq[i][2]))'
        /\ (\A e \in inflight : Holds(e[1], e[2]))'
        /\ (\A j \in Unseen : Holds(hcq[j].cid, hcq[j].req))'
    BY <1>0, <1>1, <1>7, <1>9, <2>1, <2>2 DEF OwnInv, Holds, SQ
  <2>4. (\A t \in SQ : req_slot[t] # None =>
           \/ \E i \in Unfetched : hsq[i][1] = t
           \/ \E e \in inflight : e[1] = t
           \/ \E j \in Unseen : hcq[j].cid = t)'
    <3> SUFFICES ASSUME NEW t \in SQ, req_slot'[t] # None
                 PROVE  \/ \E i \in Unfetched : hsq[i][1] = t
                        \/ \E e \in inflight : e[1] = t
                        \/ \E j \in Unseen' : hcq[j].cid = t
      BY <1>1, <2>1 DEF SQ
    <3>1. t # s /\ req_slot[t] # None
      BY <1>9
    <3> QED
      BY <1>0, <1>7, <3>1 DEF OwnInv, s, x
  <2>5. /\ (\A i, j \in Unfetched : hsq[i][1] = hsq[j][1] => i = j)'
        /\ (\A i, j \in Unseen : hcq[i].cid = hcq[j].cid => i = j)'
        /\ (\A i \in Unfetched, e \in inflight : hsq[i][1] # e[1])'
        /\ (\A i \in Unfetched, j \in Unseen : hsq[i][1] # hcq[j].cid)'
        /\ (\A e \in inflight, j \in Unseen : e[1] # hcq[j].cid)'
    BY <1>0, <1>1, <1>7, <2>1 DEF OwnInv
  <2> QED
    BY <2>3, <2>4, <2>5 DEF OwnInv
<1>13. x.req \in 1..Submitted \cup Host /\ x.req \in Guest \cup Host
  BY <1>0, <1>8, SubmittedBound DEF InSlotsInv
<1>14. CountsInv'
  <2>1. Cardinality(SlotsOf(Guest \cup Host))' = Cardinality(SlotsOf(Guest \cup Host)) - 1
    BY <1>0, <1>1, <1>8, <1>13, NotNone, SlotsRemove
  <2>2. Cardinality(SlotsOf(Guest))' = IF x.req \in Guest THEN Cardinality(SlotsOf(Guest)) - 1
                                                          ELSE Cardinality(SlotsOf(Guest))
    BY <1>0, <1>1, <1>8, NotNone, SlotsRemove
  <2>3. Cardinality(SlotsOf(Host))' = IF x.req \in Host THEN Cardinality(SlotsOf(Host)) - 1
                                                        ELSE Cardinality(SlotsOf(Host))
    BY <1>0, <1>1, <1>8, NotNone, SlotsRemove
  <2>4. \A S : InHand(S) = 0 /\ InHand(S)' = IF x.req \in S THEN 1 ELSE 0
    BY <1>6, <1>8 DEF InHand
  <2>5. /\ Cardinality(SlotsOf(Guest)) \in Int /\ Cardinality(SlotsOf(Host)) \in Int
        /\ Dist(g_new_head, g_head, M) \in Int
    <3>1. g_new_head \in CQ /\ g_head \in CQ
      BY <1>0 DEF NumbersInv
    <3>2. Dist(g_new_head, g_head, M) \in 0..M-1
      BY <3>1, Sizes, DistFacts DEF CQ
    <3> QED
      BY <3>2, SlotsFinite
  <2>6. (n_slots_used = Cardinality(SlotsOf(Guest \cup Host)) /\ n_slots_used <= N - 1)'
    BY <1>0, <1>1, <1>2, <2>1, Sizes DEF CountsInv, Guest, Host
  <2>a. InHand(Guest) = 0 /\ InHand(Host) = 0
    BY <2>4
  <2>b. InHand(Guest)' = IF x.req \in Guest THEN 1 ELSE 0
    BY <2>4 DEF Guest
  <2>c. InHand(Host)' = IF x.req \in Host THEN 1 ELSE 0
    BY <2>4 DEF Host
  <2>d. /\ not_ack_g = Cardinality(SlotsOf(Guest)) + InHand(Guest) + Dist(g_new_head, g_head, M)
        /\ not_ack_h = Cardinality(SlotsOf(Host)) + InHand(Host)
        /\ not_ack_g = 0 \/ not_ack_h = 0
        /\ Dist(last_write, h_cqhead, M) = Dist(g_new_head, g_head, M)
        /\ \A i \in Window(last_write, h_cqhead, M) : hcq[i].req \in Guest
    BY <1>0 DEF CountsInv
  <2>7. (not_ack_g = Cardinality(SlotsOf(Guest)) + InHand(Guest) + Dist(g_new_head, g_head, M))'
    BY <1>1, <2>2, <2>5, <2>a, <2>b, <2>d
  <2>8. (not_ack_h = Cardinality(SlotsOf(Host)) + InHand(Host))'
    BY <1>1, <2>3, <2>5, <2>a, <2>c, <2>d
  <2>9. /\ (not_ack_g = 0 \/ not_ack_h = 0)'
        /\ (Dist(last_write, h_cqhead, M) = Dist(g_new_head, g_head, M))'
        /\ (\A i \in Window(last_write, h_cqhead, M) : hcq[i].req \in Guest)'
    BY <1>1, <2>d DEF Window, Guest
  <2> QED
    BY <2>6, <2>7, <2>8, <2>9 DEF CountsInv
<1>15. Submitted' = Submitted /\ Eff' = Eff /\ Answers' = Answers
  BY <1>1 DEF Submitted, Fetched, Eff, Answers, Window
<1>16. InSlotsInv'
  <2>1. \A t \in SQ : req_slot'[t] \in 1..Submitted \cup Host \cup {None}
    BY <1>0, <1>9 DEF InSlotsInv
  <2>2. \A t, u \in SQ : req_slot'[t] = req_slot'[u] /\ req_slot'[t] \in Guest => t = u
    BY <1>0, <1>9, NotNone DEF InSlotsInv
  <2>3. x.req \in Guest => \A t \in SQ : req_slot'[t] # x.req
    BY <1>0, <1>8, <1>9 DEF InSlotsInv
  <2> QED
    BY <1>8, <1>13, <1>15, <2>1, <2>2, <2>3 DEF InSlotsInv, SQ, Guest, Host
<1>17. ASSUME NEW k \in Guest, Elsewhere(k) PROVE Elsewhere(k)'
  BY <1>8, <1>9, <1>17, NotNone DEF Elsewhere, SQ
<1>18. AnswersInv'
  <2>1. \A k \in Guest : Elsewhere(k) => Elsewhere(k)'
    BY <1>17
  <2>2. \A p \in Answers : Eff[p].cid \in 1..Submitted /\ Eff[p].cid \in Guest
                           /\ Elsewhere(Eff[p].cid)
    BY <1>0, SubmittedBound DEF AnswersInv
  <2>3. (\A p \in Answers : Eff[p].cid \in 1..Submitted /\ Elsewhere(Eff[p].cid))'
    BY <1>8, <1>9, <1>15, <2>2, NotNone DEF Elsewhere, SQ
  <2>4. /\ (\A p, q \in Answers : Eff[p].cid = Eff[q].cid => p = q)'
        /\ (\A k \in Guest : answered[k] \in {0, 1})'
    BY <1>0, <1>1, <1>15 DEF AnswersInv, Guest
  <2>5. (\A k \in Guest : answered[k] = 1 =>
          k <= Submitted /\ Elsewhere(k) /\ \A p \in Answers : Eff[p].cid # k)'
    BY <1>0, <1>1, <1>15, <2>1 DEF AnswersInv, Guest
  <2> QED
    BY <2>3, <2>4, <2>5 DEF AnswersInv
<1>19. ExecutedInv'
  <2>1. x.req \in executed
    BY <1>0, <1>7 DEF ExecutedInv, x
  <2> QED
    BY <1>0, <1>1, <1>8, <1>15, <2>1 DEF ExecutedInv, Window, Guest
<1>20. GuestRingsInv' /\ HostRingsInv' /\ InQueuesInv'
  BY <1>1, GuestRingsFrame, HostRingsFrame, InQueuesFrame DEF QueueInv, CommandsInv
<1> QED
  BY <1>10, <1>11, <1>12, <1>14, <1>16, <1>18, <1>19, <1>20 DEF QueueInv, CommandsInv

\* What deliver does with every request.
Delivered ==
    /\ Delivering /\ ~Delivering' /\ h_cqhead' = Inc(h_cqhead, M)
    /\ h_phase' = Flip(h_phase, h_cqhead' = 0) /\ update_h_subm_cur_head
    /\ UNCHANGED <<issued, gsq, gtail, gsqhd, gcqhead, gcqphase, answered, g_tail, g_cur_tail,
                   g_new_tail, g_new_head, queuing_g, queuing_h, req_slot, n_slots_used,
                   next_slot, not_ack_g, h_tail, c_tail, c_head, inflight, hcq, c_cqtail,
                   c_phase, executed, creq, cent, hosts>>

LEMMA DeliverStep ==
    ASSUME QueueInv, NEW c \in {"subm", "comp"}, deliver(c)
    PROVE  LockInv' /\ Delivered /\ pc' \in [Contexts -> Places]
<1>0. NumbersInv /\ LockInv
  BY DEF QueueInv
<1>1. /\ pc[c] = "deliver" /\ pc' = [pc EXCEPT ![c] = "free"] /\ UNCHANGED <<comp_lock, creq, cent>>
  BY DEF deliver, Goto
<1>2. comp_lock = c /\ \A d \in Contexts : d # c => pc[d] \notin {"loop", "deliver", "free"}
  BY <1>0, <1>1 DEF LockInv, Contexts
<1>3. \A d \in Contexts : pc'[d] = IF d = c THEN "free" ELSE pc[d]
  BY <1>0, <1>1 DEF NumbersInv, Contexts
<1>4. Delivering /\ ~Delivering'
  BY <1>1, <1>2, <1>3 DEF Delivering, Contexts
<1>5. \A d \in Contexts : pc'[d] \in {"loop", "deliver", "free"} <=> comp_lock' = d
  BY <1>1, <1>2, <1>3 DEF Contexts
<1>6. creq' # None /\ \E d \in Contexts : pc'[d] \in {"deliver", "free"}
  BY <1>0, <1>1, <1>3 DEF LockInv, Contexts
<1>7. LockInv'
  BY <1>4, <1>5, <1>6 DEF LockInv
<1>8. pc' \in [Contexts -> Places]
  BY <1>0, <1>1 DEF NumbersInv, Places, Contexts
<1>9. Delivered
  BY <1>4 DEF deliver, Delivered, guestVars, gq, queues, slots, ctrl
<1> QED
  BY <1>7, <1>8, <1>9

\* The host's rings when the entry is left behind.
LEMMA DeliveredHost ==
    ASSUME QueueInv, Delivered, Between(last_write', h_cqhead', c_cqtail, M)
    PROVE  /\ HostRingsInv' /\ OwnInv'
           /\ Window(h_cqhead, c_cqtail, M)' = Window(h_cqhead, c_cqtail, M) \ {h_cqhead}
           /\ hsq' \in [SQ -> Int \X Int] /\ h_head' \in SQ /\ h_cqhead' \in CQ /\ h_phase' \in Bit
<1>0. NumbersInv /\ LockInv /\ HostRingsInv /\ OwnInv
  BY DEF QueueInv
<1>1. /\ Delivering /\ ~Delivering' /\ h_cqhead' = Inc(h_cqhead, M)
      /\ h_phase' = Flip(h_phase, h_cqhead' = 0)
      /\ UNCHANGED <<req_slot, h_tail, c_tail, c_head, inflight, hcq, c_cqtail, c_phase>>
  BY DEF Delivered
<1>2. /\ h_cqhead # c_cqtail /\ cent = hcq[h_cqhead] /\ h_cqhead \in CQ /\ c_cqtail \in CQ
      /\ h_head \in SQ /\ c_head \in SQ /\ h_tail \in SQ /\ c_tail = h_tail /\ cent \in Entry
      /\ c_phase \in Bit /\ h_phase \in Bit /\ hsq \in [SQ -> Int \X Int]
  BY <1>0, <1>1 DEF LockInv, NumbersInv, HostRingsInv
<1>3. Heads(hcq) \in [CQ -> SQ] /\ Phases(hcq) \in [CQ -> Bit] /\ Heads(hcq)[h_cqhead] = cent.head
  BY <1>0, <1>2, RingTypes DEF Heads
<1>4. /\ HeadsOK(h_head, c_head, h_cqhead, c_cqtail, Heads(hcq))
      /\ PhasesOK(Phases(hcq), c_cqtail, c_phase, h_cqhead, h_phase)
      /\ Between(h_head, c_head, h_tail, N)
  BY <1>0 DEF HostRingsInv
<1>5. PICK x \in SQ : x = cent.head
  BY <1>2 DEF Entry
<1>6. /\ Between(h_head, x, c_head, N)
      /\ HeadsOK(x, c_head, Inc(h_cqhead, M), c_cqtail, Heads(hcq))
  BY <1>2, <1>3, <1>4, <1>5, HeadsTake
<1>7. Between(x, c_head, h_tail, N) /\ Between(h_head, x, h_tail, N)
  BY <1>2, <1>4, <1>6, Sizes, BetweenInner DEF SQ
<1>8. PhasesOK(Phases(hcq), c_cqtail, c_phase, Inc(h_cqhead, M), Flip(h_phase, Inc(h_cqhead, M) = 0))
  BY <1>2, <1>3, <1>4, PhasesTake
<1>9. /\ h_head' = x
      /\ \A i \in SQ : hsq'[i] = IF i \in Window(h_head, x, N) THEN <<hsq[i][1], None>> ELSE hsq[i]
  BY <1>5 DEF Delivered, update_h_subm_cur_head, SQ
<1>10. HostRingsInv'
  <2>1. Heads(hcq)' = Heads(hcq) /\ Phases(hcq)' = Phases(hcq)
    BY <1>1 DEF Heads, Phases, CQ
  <2>2. HeadsOK(h_head, c_head, h_cqhead, c_cqtail, Heads(hcq))'
    BY <1>1, <1>6, <1>9, <2>1 DEF HeadsOK, Window
  <2>3. PhasesOK(Phases(hcq), c_cqtail, c_phase, h_cqhead, h_phase)'
    BY <1>1, <1>8, <2>1 DEF PhasesOK, CQ
  <2>4. Between(last_write, h_cqhead, c_cqtail, M)' /\ Between(h_head, c_head, h_tail, N)'
    BY <1>1, <1>7, <1>9 DEF Between
  <2> QED
    BY <1>1, <1>2, <2>2, <2>3, <2>4 DEF HostRingsInv
<1>11. Window(h_cqhead, c_cqtail, M)' = Window(h_cqhead, c_cqtail, M) \ {h_cqhead}
  <2>1. Window(Inc(h_cqhead, M), c_cqtail, M) = Window(h_cqhead, c_cqtail, M) \ {h_cqhead}
    BY <1>2, Sizes, WindowFacts DEF CQ
  <2> QED
    BY <1>1, <2>1 DEF Window
<1>12. Unseen' = Unseen /\ Unfetched' = Unfetched
  <2>1. Unfetched' = Unfetched
    BY <1>1 DEF Unfetched, Window
  <2> QED
    BY <1>1, <1>11, <2>1 DEF Unseen
<1>13. \A i \in Unfetched : hsq'[i] = hsq[i]
  <2>1. Window(h_head, x, N) \cap Window(x, h_tail, N) = {}
    BY <1>2, <1>7, Sizes, WindowSplit DEF SQ
  <2>2. Window(x, h_tail, N) = Window(x, c_head, N) \cup Window(c_head, h_tail, N)
    BY <1>2, <1>7, Sizes, WindowSplit DEF SQ
  <2>3. Unfetched = Window(c_head, h_tail, N) /\ Unfetched \subseteq SQ
    BY <1>2 DEF Unfetched, Window, SQ
  <2> QED
    BY <1>9, <2>1, <2>2, <2>3
<1>14. OwnInv'
  <2>1. /\ (\A i \in Unfetched : Holds(hsq[i][1], hsq[i][2]))'
        /\ (\A e \in inflight : Holds(e[1], e[2]))'
        /\ (\A j \in Unseen : Holds(hcq[j].cid, hcq[j].req))'
    BY <1>0, <1>1, <1>12, <1>13 DEF OwnInv, Holds, SQ
  <2>2. (\A s \in SQ : req_slot[s] # None =>
           \/ \E i \in Unfetched : hsq[i][1] = s
           \/ \E e \in inflight : e[1] = s
           \/ \E j \in Unseen : hcq[j].cid = s)'
    BY <1>0, <1>1, <1>12, <1>13 DEF OwnInv, SQ
  <2>3. /\ (\A i, j \in Unfetched : hsq[i][1] = hsq[j][1] => i = j)'
        /\ (\A i, j \in Unseen : hcq[i].cid = hcq[j].cid => i = j)'
        /\ (\A i \in Unfetched, e \in inflight : hsq[i][1] # e[1])'
        /\ (\A i \in Unfetched, j \in Unseen : hsq[i][1] # hcq[j].cid)'
        /\ (\A e \in inflight, j \in Unseen : e[1] # hcq[j].cid)'
    BY <1>0, <1>1, <1>12, <1>13 DEF OwnInv
  <2> QED
    BY <2>1, <2>2, <2>3 DEF OwnInv
<1>15. hsq' \in [SQ -> Int \X Int]
  <2>1. \A i \in SQ : hsq'[i] \in Int \X Int
    <3> SUFFICES ASSUME NEW i \in SQ PROVE hsq'[i] \in Int \X Int
      OBVIOUS
    <3>1. hsq[i] \in Int \X Int /\ hsq[i][1] \in Int
      BY <1>2
    <3>2. <<hsq[i][1], None>> \in Int \X Int
      BY <3>1 DEF None
    <3> QED
      BY <1>9, <3>1, <3>2
  <2>2. hsq' = [i \in SQ |-> hsq'[i]]
    BY DEF Delivered, update_h_subm_cur_head, SQ
  <2> QED
    BY <2>1, <2>2
<1>16. h_cqhead' \in CQ /\ h_phase' \in Bit
  <2>1. Inc(h_cqhead, M) \in CQ
    BY <1>2, Sizes, DistFacts DEF CQ
  <2>2. h_phase' \in Bit
    BY <1>1, <1>2 DEF Flip, Bit
  <2> QED
    BY <1>1, <2>1, <2>2
<1> QED
  BY <1>9, <1>10, <1>11, <1>14, <1>15, <1>16

\* A request of the VMM: nothing of the guest's is on the rings.
LEMMA DeliverHostInv ==
    ASSUME QueueInv, Delivered, LockInv', pc' \in [Contexts -> Places], creq \notin Guest,
           not_ack_h' = not_ack_h - 1, last_write' = doorbell(h_cqhead', g_head, g_new_head),
           UNCHANGED <<gcq, g_head, g_phase, first>>
    PROVE  QueueInv'
<1>0. /\ NumbersInv /\ LockInv /\ HostRingsInv /\ CountsInv /\ InSlotsInv /\ AnswersInv
      /\ ExecutedInv
  BY DEF QueueInv, CommandsInv
<1>1. /\ Delivering /\ ~Delivering' /\ h_cqhead' = Inc(h_cqhead, M)
      /\ UNCHANGED <<issued, gsq, gtail, gsqhd, gcqhead, gcqphase, answered, g_tail, g_cur_tail,
                     g_new_tail, g_new_head, queuing_g, queuing_h, req_slot, n_slots_used,
                     next_slot, not_ack_g, h_tail, c_tail, c_head, inflight, hcq, c_cqtail,
                     c_phase, executed, creq, cent, hosts>>
  BY DEF Delivered
<1>2. /\ h_cqhead \in CQ /\ c_cqtail \in CQ /\ g_head \in CQ /\ g_new_head \in CQ
      /\ last_write \in CQ /\ h_cqhead # c_cqtail /\ not_ack_h \in Int /\ not_ack_g \in Int
  BY <1>0, <1>1 DEF NumbersInv, LockInv
<1>3. creq \in Host
  BY <1>0, <1>1, SubmittedBound DEF InSlotsInv
<1>4. InHand(Host) = 1 /\ InHand(Guest) = 0 /\ InHand(Host)' = 0 /\ InHand(Guest)' = 0
  BY <1>1, <1>3 DEF InHand
<1>5. Cardinality(SlotsOf(Host)) \in Nat /\ Cardinality(SlotsOf(Guest)) \in Nat
  BY SlotsFinite
<1>6. Dist(g_new_head, g_head, M) \in 0..M-1
  BY <1>2, Sizes, DistFacts DEF CQ
<1>7. /\ n_slots_used = Cardinality(SlotsOf(Guest \cup Host)) /\ n_slots_used <= N - 1
      /\ not_ack_g = Cardinality(SlotsOf(Guest)) + InHand(Guest) + Dist(g_new_head, g_head, M)
      /\ not_ack_h = Cardinality(SlotsOf(Host)) + InHand(Host)
      /\ not_ack_g = 0 \/ not_ack_h = 0
  BY <1>0 DEF CountsInv
<1>8. not_ack_g = 0 /\ Dist(g_new_head, g_head, M) = 0
  BY <1>4, <1>5, <1>6, <1>7
<1>9. PICK h \in CQ : h = Inc(h_cqhead, M)
  BY <1>2, Sizes, DistFacts DEF CQ
<1>10. last_write' = h
  <2>1. 0 \in 0..M-1
    BY Sizes
  <2>2. Dist(0, h, M) = h
    <3>1. Dist(0, h, M) = IF 0 <= h THEN h - 0 ELSE h - 0 + M
      BY <2>1, Sizes, DistValue DEF CQ
    <3> QED
      BY <3>1, Sizes DEF CQ
  <2> QED
    BY <1>1, <1>8, <1>9, <2>2 DEF doorbell
<1>11. Between(last_write', h_cqhead', c_cqtail, M)
  <2>1. Between(last_write, h_cqhead, c_cqtail, M)
    BY <1>0 DEF HostRingsInv
  <2>2. Between(last_write, h, c_cqtail, M)
    BY <1>2, <1>9, <2>1, Sizes, BetweenFacts DEF CQ
  <2>3. Between(h, h, c_cqtail, M)
    BY <1>2, <2>2, Sizes, BetweenFacts DEF CQ
  <2> QED
    BY <1>1, <1>9, <1>10, <2>3
<1>12. /\ HostRingsInv' /\ OwnInv'
       /\ Window(h_cqhead, c_cqtail, M)' = Window(h_cqhead, c_cqtail, M) \ {h_cqhead}
       /\ hsq' \in [SQ -> Int \X Int] /\ h_head' \in SQ /\ h_cqhead' \in CQ /\ h_phase' \in Bit
  BY <1>11, DeliveredHost
<1>13. NumbersInv'
  <2>1. last_write' \in CQ /\ not_ack_h' \in Int
    BY <1>2, <1>10
  <2> QED
    BY <1>0, <1>1, <1>12, <2>1 DEF NumbersInv
<1>14. Eff' = Eff /\ Submitted' = Submitted /\ Answers' = Answers
  BY <1>1 DEF Eff, Submitted, Fetched, Answers, Window
<1>15. GuestRingsInv' /\ InQueuesInv'
  BY <1>1, GuestRingsFrame, InQueuesFrame DEF QueueInv, CommandsInv
<1>16. CountsInv'
  <2>1. \A S : SlotsOf(S)' = SlotsOf(S)
    BY <1>1 DEF SlotsOf, SQ
  <2>2. Dist(h, h, M) = 0 /\ Window(h, h, M) = {}
    BY Sizes, DistFacts, WindowFacts DEF CQ
  <2>3. Window(last_write, h_cqhead, M)' = {} /\ Dist(last_write, h_cqhead, M)' = 0
    BY <1>1, <1>9, <1>10, <2>2 DEF Window
  <2>4. (n_slots_used = Cardinality(SlotsOf(Guest \cup Host)) /\ n_slots_used <= N - 1)'
    BY <1>1, <1>7, <2>1 DEF Guest, Host
  <2>5. (not_ack_g = Cardinality(SlotsOf(Guest)) + InHand(Guest) + Dist(g_new_head, g_head, M))'
    BY <1>1, <1>4, <1>7, <2>1 DEF Guest
  <2>6. (not_ack_h = Cardinality(SlotsOf(Host)) + InHand(Host))'
    <3>1. Cardinality(SlotsOf(Host))' = Cardinality(SlotsOf(Host))
      BY <2>1 DEF Host
    <3> QED
      BY <1>4, <1>5, <1>7, <3>1
  <2>7. not_ack_g' = 0 /\ Dist(g_new_head, g_head, M)' = 0
    BY <1>1, <1>8
  <2> QED
    BY <2>3, <2>4, <2>5, <2>6, <2>7 DEF CountsInv
<1>17. InSlotsInv'
  BY <1>0, <1>1, <1>14 DEF InSlotsInv, SQ, Guest, Host
<1>18. AnswersInv'
  BY <1>0, <1>1, <1>14 DEF AnswersInv, Elsewhere, SQ, Guest
<1>19. ExecutedInv'
  BY <1>0, <1>1, <1>12, <1>14 DEF ExecutedInv, Guest
<1> QED
  BY <1>12, <1>13, <1>15, <1>16, <1>17, <1>18, <1>19 DEF QueueInv, CommandsInv

\* A command of the guest: the answer goes to its ring, the first one when
\* the others are there.
LEMMA DeliverGuestInv ==
    ASSUME QueueInv, Delivered, LockInv', pc' \in [Contexts -> Places], creq \in Guest,
           first = <<>> => first' = <<g_head, Answer>> /\ gcq' = gcq,
           first # <<>> => gcq' = [gcq EXCEPT ![g_head] = Answer] /\ first' = first,
           g_head' = Inc(g_head, M), g_phase' = Flip(g_phase, g_head' = 0),
           UNCHANGED <<not_ack_h, last_write>>
    PROVE  QueueInv'
<1>0. /\ NumbersInv /\ LockInv /\ GuestRingsInv /\ HostRingsInv /\ CountsInv /\ InSlotsInv
      /\ AnswersInv /\ ExecutedInv
  BY DEF QueueInv, CommandsInv
<1>1. /\ Delivering /\ ~Delivering' /\ h_cqhead' = Inc(h_cqhead, M)
      /\ UNCHANGED <<issued, gsq, gtail, gsqhd, gcqhead, gcqphase, answered, g_tail, g_cur_tail,
                     g_new_tail, g_new_head, queuing_g, queuing_h, req_slot, n_slots_used,
                     next_slot, not_ack_g, h_tail, c_tail, c_head, inflight, hcq, c_cqtail,
                     c_phase, executed, creq, cent, hosts>>
  BY DEF Delivered
<1>2. /\ h_cqhead \in CQ /\ c_cqtail \in CQ /\ g_head \in CQ /\ g_new_head \in CQ
      /\ gcqhead \in CQ /\ last_write \in CQ /\ h_cqhead # c_cqtail /\ not_ack_g \in Int
      /\ gsqhd \in SQ /\ g_tail \in SQ /\ g_cur_tail \in SQ /\ g_phase \in Bit /\ gcqphase \in Bit
      /\ gcq \in [CQ -> Entry] /\ (first = <<>> \/ first \in CQ \X Entry) /\ creq \in Int
  BY <1>0, <1>1 DEF NumbersInv, LockInv
<1>3. /\ creq \in 1..Submitted /\ creq = hcq[h_cqhead].req /\ creq \in executed
      /\ \A s \in SQ : req_slot[s] # creq
  <2>1. creq \notin Host
    BY NotNone
  <2> QED
    BY <1>0, <1>1, <2>1 DEF InSlotsInv, LockInv, ExecutedInv
<1>4. PICK a \in Entry : a = Answer
  BY <1>2 DEF Answer, Entry
<1>5. a.cid = creq /\ a.phase = g_phase /\ a.head = g_tail
  BY <1>4 DEF Answer
<1>6. PICK h \in CQ : h = Inc(h_cqhead, M)
  BY <1>2, Sizes, DistFacts DEF CQ
<1>7. PICK g \in CQ : g = Inc(g_head, M)
  BY <1>2, Sizes, DistFacts DEF CQ
<1>8. Between(last_write, h_cqhead, c_cqtail, M) /\ Between(g_new_head, gcqhead, g_head, M)
  BY <1>0 DEF HostRingsInv, GuestRingsInv
<1>9. Between(last_write, h, c_cqtail, M) /\ h # last_write
  BY <1>2, <1>6, <1>8, Sizes, BetweenFacts DEF CQ
<1>10. /\ Dist(last_write, h_cqhead, M) = Dist(g_new_head, g_head, M)
       /\ Dist(last_write, h_cqhead, M) # M - 1
  <2>1. Dist(last_write, h_cqhead, M) # M - 1
    BY <1>2, <1>6, <1>9, Sizes, DistFacts DEF CQ
  <2> QED
    BY <1>0, <2>1 DEF CountsInv
<1>11. /\ g # g_new_head /\ Dist(g_new_head, g, M) = Dist(g_new_head, g_head, M) + 1
       /\ Dist(last_write, h, M) = Dist(last_write, h_cqhead, M) + 1
  <2>1. g # g_new_head
    BY <1>2, <1>7, <1>10, Sizes, DistFacts DEF CQ
  <2>2. Dist(g_new_head, g, M) = Dist(g_new_head, g_head, M) + 1
    BY <1>2, <1>7, <1>10, Sizes, DistFacts DEF CQ
  <2>3. Dist(last_write, h, M) = Dist(last_write, h_cqhead, M) + 1
    BY <1>2, <1>6, <1>10, Sizes, DistFacts DEF CQ
  <2> QED
    BY <2>1, <2>2, <2>3
<1>12. Between(g_new_head, gcqhead, g, M) /\ g # gcqhead
  BY <1>2, <1>7, <1>8, <1>11, Sizes, BetweenFacts DEF CQ
<1>13. /\ HostRingsInv' /\ OwnInv'
       /\ Window(h_cqhead, c_cqtail, M)' = Window(h_cqhead, c_cqtail, M) \ {h_cqhead}
       /\ hsq' \in [SQ -> Int \X Int] /\ h_head' \in SQ /\ h_cqhead' \in CQ /\ h_phase' \in Bit
  BY <1>1, <1>6, <1>9, DeliveredHost
<1>14. /\ Window(gcqhead, g, M) = Window(gcqhead, g_head, M) \cup {g_head}
       /\ g_head \notin Window(gcqhead, g_head, M) /\ Window(gcqhead, g_head, M) \subseteq CQ
  BY <1>2, <1>7, <1>12, Sizes, WindowFacts DEF CQ
<1>15. Eff' = [Eff EXCEPT ![g_head] = a]
  <2>1. CASE first = <<>>
    <3>1. first' = <<g_head, a>> /\ gcq' = gcq /\ Eff = gcq /\ first' # <<>>
      BY <1>4, <2>1 DEF Eff
    <3> QED
      BY <3>1 DEF Eff
  <2>2. CASE first # <<>>
    <3>1. first[1] # g_head
      BY <1>0, <1>14, <2>2 DEF GuestRingsInv
    <3>2. first' = first /\ gcq' = [gcq EXCEPT ![g_head] = a]
      BY <1>4, <2>2
    <3>3. Eff = [gcq EXCEPT ![first[1]] = first[2]] /\ Eff' = [gcq' EXCEPT ![first[1]] = first[2]]
      BY <2>2, <3>2 DEF Eff
    <3> QED
      BY <1>2, <3>1, <3>2, <3>3
  <2> QED
    BY <2>1, <2>2
<1>16. /\ Eff \in [CQ -> Entry] /\ Heads(Eff) \in [CQ -> SQ] /\ Phases(Eff) \in [CQ -> Bit]
  BY <1>0, RingTypes
<1>17. Eff'[g_head] = a /\ \A p \in CQ : p # g_head => Eff'[p] = Eff[p]
  BY <1>2, <1>15, <1>16
<1>18. NumbersInv'
  <2>1. g_head' \in CQ /\ g_phase' \in Bit
    BY <1>2, <1>7 DEF Flip, Bit
  <2>2. gcq' \in [CQ -> Entry]
    BY <1>2, <1>4
  <2>3. first' = <<>> \/ first' \in CQ \X Entry
    BY <1>2, <1>4
  <2> QED
    BY <1>0, <1>1, <1>13, <2>1, <2>2, <2>3 DEF NumbersInv
<1>19. GuestRingsInv'
  <2>1. /\ Heads(Eff)' = [Heads(Eff) EXCEPT ![g_head] = g_tail]
        /\ Phases(Eff)' = [Phases(Eff) EXCEPT ![g_head] = g_phase]
    BY <1>2, <1>5, <1>17 DEF Heads, Phases, CQ
  <2>2. HeadsOK(gsqhd, g_tail, gcqhead, g_head, Heads(Eff))
    BY <1>0 DEF GuestRingsInv
  <2>3. PhasesOK(Phases(Eff), g_head, g_phase, gcqhead, gcqphase)
    BY <1>0 DEF GuestRingsInv
  <2>4. HeadsOK(gsqhd, g_tail, gcqhead, Inc(g_head, M), [Heads(Eff) EXCEPT ![g_head] = g_tail])
    BY <1>2, <1>7, <1>12, <1>16, <2>2, HeadsPut
  <2>5. PICK u \in Bit : u = g_phase' /\ u = Flip(g_phase, g = 0)
    BY <1>7, <1>18 DEF NumbersInv
  <2>6. PhasesOK([Phases(Eff) EXCEPT ![g_head] = g_phase], g, u, gcqhead, gcqphase)
    BY <1>2, <1>7, <1>12, <1>16, <2>3, <2>5, PhasesPut
  <2>7. HeadsOK(gsqhd, g_tail, gcqhead, g_head, Heads(Eff))'
    BY <1>1, <2>1, <2>4 DEF HeadsOK, Window
  <2>8. PhasesOK(Phases(Eff), g_head, g_phase, gcqhead, gcqphase)'
    BY <1>1, <1>7, <2>1, <2>5, <2>6 DEF PhasesOK, CQ
  <2>9. Window(gcqhead, g_head, M)' = Window(gcqhead, g_head, M) \cup {g_head}
    BY <1>1, <1>7, <1>14 DEF Window
  <2>10. first' # <<>> => /\ first'[1] \in Window(gcqhead, g_head, M)'
                          /\ gcq'[first'[1]].phase = 1 - first'[2].phase
    <3>1. CASE first = <<>>
      <4>1. first'[1] = g_head /\ first'[2] = a /\ gcq' = gcq /\ Eff = gcq
        BY <1>4, <3>1 DEF Eff
      <4>2. Phases(Eff)[g_head] = 1 - g_phase
        BY <1>2, <2>3, Sizes DEF PhasesOK, CQ
      <4>3. Phases(Eff)[g_head] = gcq[g_head].phase
        BY <1>2, <4>1 DEF Phases
      <4> QED
        BY <1>5, <2>9, <4>1, <4>2, <4>3
    <3>2. CASE first # <<>>
      <4>1. /\ first[1] \in Window(gcqhead, g_head, M) /\ first[1] # g_head /\ first[1] \in CQ
            /\ gcq[first[1]].phase = 1 - first[2].phase
        BY <1>0, <1>14, <3>2 DEF GuestRingsInv
      <4>2. first' = first /\ gcq'[first[1]] = gcq[first[1]]
        BY <1>2, <3>2, <4>1
      <4> QED
        BY <2>9, <4>1, <4>2
    <3> QED
      BY <3>1, <3>2
  <2>11. /\ Between(gsqhd, g_tail, gtail, N)' /\ Between(g_tail, g_cur_tail, gtail, N)'
         /\ Between(g_new_head, gcqhead, g_head, M)'
         /\ Dist(g_cur_tail, g_new_tail, N)' <= Dist(g_cur_tail, gtail, N)'
    BY <1>0, <1>1, <1>7, <1>12 DEF GuestRingsInv, Between
  <2> QED
    BY <2>7, <2>8, <2>10, <2>11 DEF GuestRingsInv
<1>20. CountsInv'
  <2>1. \A S : SlotsOf(S)' = SlotsOf(S)
    BY <1>1 DEF SlotsOf, SQ
  <2>2. InHand(Guest) = 1 /\ InHand(Guest)' = 0 /\ InHand(Host) = 0 /\ InHand(Host)' = 0
    BY <1>1, NotNone DEF InHand
  <2>3. /\ n_slots_used = Cardinality(SlotsOf(Guest \cup Host)) /\ n_slots_used <= N - 1
        /\ not_ack_g = Cardinality(SlotsOf(Guest)) + InHand(Guest) + Dist(g_new_head, g_head, M)
        /\ not_ack_h = Cardinality(SlotsOf(Host)) + InHand(Host)
        /\ not_ack_g = 0 \/ not_ack_h = 0
        /\ \A i \in Window(last_write, h_cqhead, M) : hcq[i].req \in Guest
    BY <1>0 DEF CountsInv
  <2>4. (n_slots_used = Cardinality(SlotsOf(Guest \cup Host)) /\ n_slots_used <= N - 1)'
    BY <1>1, <2>1, <2>3 DEF Guest, Host
  <2>5. (not_ack_g = Cardinality(SlotsOf(Guest)) + InHand(Guest) + Dist(g_new_head, g_head, M))'
    <3>1. Cardinality(SlotsOf(Guest))' = Cardinality(SlotsOf(Guest))
      BY <2>1 DEF Guest
    <3>2. Cardinality(SlotsOf(Guest)) \in Nat
      BY SlotsFinite
    <3>3. Dist(g_new_head, g_head, M) \in 0..M-1
      BY <1>2, Sizes, DistFacts DEF CQ
    <3>4. Dist(g_new_head, g_head, M)' = Dist(g_new_head, g_head, M) + 1
      BY <1>1, <1>7, <1>11
    <3> QED
      BY <1>1, <2>2, <2>3, <3>1, <3>2, <3>3, <3>4
  <2>6. (not_ack_h = Cardinality(SlotsOf(Host)) + InHand(Host))'
    <3>1. Cardinality(SlotsOf(Host))' = Cardinality(SlotsOf(Host))
      BY <2>1 DEF Host
    <3> QED
      BY <2>2, <2>3, <3>1
  <2>7. (Dist(last_write, h_cqhead, M) = Dist(g_new_head, g_head, M))'
    BY <1>1, <1>6, <1>7, <1>10, <1>11
  <2>8. (\A i \in Window(last_write, h_cqhead, M) : hcq[i].req \in Guest)'
    <3>1. Window(last_write, h, M) = Window(last_write, h_cqhead, M) \cup {h_cqhead}
      BY <1>2, <1>6, <1>9, Sizes, WindowFacts DEF CQ
    <3>2. Window(last_write, h_cqhead, M)' = Window(last_write, h, M)
      BY <1>1, <1>6 DEF Window
    <3> QED
      BY <1>1, <1>3, <2>3, <3>1, <3>2 DEF Guest
  <2>9. (not_ack_g = 0 \/ not_ack_h = 0)'
    BY <1>1, <2>3
  <2> QED
    BY <2>4, <2>5, <2>6, <2>7, <2>8, <2>9 DEF CountsInv
<1>21. Submitted' = Submitted /\ InQueuesInv'
  BY <1>1, InQueuesFrame DEF Submitted, Fetched, QueueInv, CommandsInv
<1>22. Answers' = Answers \cup {g_head} /\ g_head \notin Answers /\ Answers \subseteq CQ
  BY <1>1, <1>7, <1>14 DEF Answers, Window
<1>23. InSlotsInv'
  BY <1>0, <1>1, <1>21 DEF InSlotsInv, SQ, Guest, Host
<1>24. \A p \in Answers : Eff'[p] = Eff[p] /\ Eff[p].cid # creq
  BY <1>0, <1>1, <1>17, <1>22 DEF AnswersInv, Elsewhere
<1>25. AnswersInv'
  <2>1. (\A p \in Answers : Eff[p].cid \in 1..Submitted /\ Elsewhere(Eff[p].cid))'
    BY <1>0, <1>1, <1>3, <1>5, <1>17, <1>21, <1>22, <1>24 DEF AnswersInv, Elsewhere, SQ
  <2>2. (\A p, q \in Answers : Eff[p].cid = Eff[q].cid => p = q)'
    BY <1>0, <1>5, <1>17, <1>22, <1>24 DEF AnswersInv
  <2>3. (\A k \in Guest : answered[k] \in {0, 1})'
    BY <1>0, <1>1 DEF AnswersInv, Guest
  <2>4. (\A k \in Guest : answered[k] = 1 =>
          k <= Submitted /\ Elsewhere(k) /\ \A p \in Answers : Eff[p].cid # k)'
    BY <1>0, <1>1, <1>5, <1>17, <1>21, <1>22, <1>24 DEF AnswersInv, Elsewhere, SQ, Guest
  <2> QED
    BY <2>1, <2>2, <2>3, <2>4 DEF AnswersInv
<1>26. ExecutedInv'
  BY <1>0, <1>1, <1>3, <1>5, <1>13, <1>17, <1>22, <1>24 DEF ExecutedInv, Guest
<1> QED
  BY <1>13, <1>18, <1>19, <1>20, <1>21, <1>23, <1>25, <1>26 DEF QueueInv, CommandsInv

LEMMA DeliverInv ==
    ASSUME QueueInv, NEW c \in {"subm", "comp"}, deliver(c) PROVE QueueInv'
<1>1. LockInv' /\ Delivered /\ pc' \in [Contexts -> Places]
  BY DeliverStep
<1>2. CASE creq \in Guest
  <2>1. /\ first = <<>> => first' = <<g_head, Answer>> /\ gcq' = gcq
        /\ first # <<>> => gcq' = [gcq EXCEPT ![g_head] = Answer] /\ first' = first
        /\ g_head' = Inc(g_head, M) /\ g_phase' = Flip(g_phase, g_head' = 0)
        /\ UNCHANGED <<not_ack_h, last_write>>
    BY <1>2 DEF deliver
  <2> QED
    BY <1>1, <1>2, <2>1, DeliverGuestInv
<1>3. CASE creq \notin Guest
  <2>1. /\ not_ack_h' = not_ack_h - 1 /\ last_write' = doorbell(h_cqhead', g_head, g_new_head)
        /\ UNCHANGED <<gcq, g_head, g_phase, first>>
    BY <1>3 DEF deliver, gc
  <2> QED
    BY <1>1, <1>3, <2>1, DeliverHostInv
<1> QED
  BY <1>2, <1>3
----------------------------------------------------------------------------
(* nvme_submit_queuing_requests: a batch d of n requests.                  *)

\* They get slots that were free, in the slots and in the ring.
Placed(n, d, slot) ==
    /\ \A i \in 1..n : slot[i] \in SQ /\ req_slot[slot[i]] = None /\ req_slot'[slot[i]] = d[i]
    /\ \A i, j \in 1..n : slot[i] = slot[j] => i = j
    /\ \A s \in SQ : (\A i \in 1..n : slot[i] # s) => req_slot'[s] = req_slot[s]
Written(n, d, slot) ==
    \A p \in SQ : /\ Dist(h_tail, p, N) < n => hsq'[p] = <<slot[Dist(h_tail, p, N) + 1],
                                                         d[Dist(h_tail, p, N) + 1]>>
                  /\ ~(Dist(h_tail, p, N) < n) => hsq'[p] = hsq[p]

LEMMA MinTwo ==
    ASSUME NEW a \in Int, NEW b \in Int
    PROVE  Min({a, b}) \in {a, b} /\ Min({a, b}) <= a /\ Min({a, b}) <= b
<1>1. \E x \in {a, b} : \A y \in {a, b} : x <= y
  OBVIOUS
<1> QED
  BY <1>1 DEF Min

\* A position n further on.
LEMMA Further ==
    ASSUME NEW n \in Nat \ {0}, NEW a \in 0..n-1, NEW k \in 0..n-1
    PROVE  (a + k) % n \in 0..n-1 /\ Dist(a, (a + k) % n, n) = k
<1>1. PICK x \in 0 .. 2*n - 1 : x = a + k
  OBVIOUS
<1>2. x % n = IF x < n THEN x ELSE x - n
  BY SmallRemainder
<1>3. PICK y \in 0..n-1 : y = x % n
  BY <1>2
<1>4. Dist(a, y, n) = IF a <= y THEN y - a ELSE y - a + n
  BY DistValue
<1>5. Dist(a, y, n) = k
  BY <1>1, <1>2, <1>3, <1>4
<1> QED
  BY <1>1, <1>3, <1>5

\* There is room for the batch behind what is in the ring.
LEMMA BatchFits ==
    ASSUME NumbersInv, HostRingsInv, NEW n \in Nat, n <= Dist(Inc(h_tail, N), h_head, N),
           NEW t, t = (h_tail + n) % N
    PROVE  /\ t \in SQ /\ Dist(h_tail, t, N) = n /\ n \in 0..N-1
           /\ Between(h_head, c_head, t, N)
           /\ Window(c_head, t, N) = Unfetched \cup Window(h_tail, t, N)
           /\ Unfetched \cap Window(h_tail, t, N) = {} /\ Unfetched \subseteq SQ
<1>1. h_tail \in SQ /\ h_head \in SQ /\ c_head \in SQ /\ c_tail = h_tail
  BY DEF NumbersInv, HostRingsInv
<1>2. Dist(Inc(h_tail, N), h_head, N) = IF h_tail = h_head THEN N - 1
                                                          ELSE Dist(h_tail, h_head, N) - 1
  BY <1>1, Sizes, DistFacts DEF SQ
<1>3. /\ Dist(h_head, h_head, N) = 0 /\ Dist(h_tail, h_head, N) \in 0..N-1
      /\ Dist(h_head, h_tail, N) \in 0..N-1
      /\ Dist(h_head, h_tail, N) + Dist(h_tail, h_head, N)
            \in {Dist(h_head, h_head, N), Dist(h_head, h_head, N) + N}
  <2>1. Dist(h_head, h_head, N) = 0 /\ Dist(h_tail, h_head, N) \in 0..N-1
    BY <1>1, Sizes, DistFacts DEF SQ
  <2>2. Dist(h_head, h_tail, N) \in 0..N-1
    BY <1>1, Sizes, DistFacts DEF SQ
  <2>3. Dist(h_head, h_tail, N) + Dist(h_tail, h_head, N)
            \in {Dist(h_head, h_head, N), Dist(h_head, h_head, N) + N}
    BY <1>1, Sizes, DistThree DEF SQ
  <2> QED
    BY <2>1, <2>2, <2>3
<1>4. n \in 0..N-1 /\ Dist(h_head, h_tail, N) + n <= N - 1
  <2>1. CASE h_tail = h_head
    BY <1>2, <1>3, <2>1, Sizes
  <2>2. CASE h_tail # h_head
    <3>1. Dist(h_head, h_tail, N) # 0
      BY <1>1, <2>2, Sizes, DistFacts DEF SQ
    <3> QED
      BY <1>2, <1>3, <2>2, <3>1, Sizes
  <2> QED
    BY <2>1, <2>2
<1>5. t \in SQ /\ Dist(h_tail, t, N) = n
  BY <1>1, <1>4, Sizes, Further DEF SQ
<1>6. Between(h_head, h_tail, t, N)
  <2>1. Dist(h_head, h_tail, N) + Dist(h_tail, t, N) \in {Dist(h_head, t, N), Dist(h_head, t, N) + N}
    BY <1>1, <1>5, Sizes, DistThree DEF SQ
  <2>2. Dist(h_head, t, N) \in 0..N-1
    BY <1>1, <1>5, Sizes, DistFacts DEF SQ
  <2>3. Dist(h_head, h_tail, N) + Dist(h_tail, t, N) = Dist(h_head, t, N)
    BY <1>3, <1>4, <1>5, <2>1, <2>2, Sizes
  <2> QED
    BY <2>3 DEF Between
<1>7. Between(h_head, c_head, h_tail, N)
  BY DEF HostRingsInv
<1>8. Between(c_head, h_tail, t, N) /\ Between(h_head, c_head, t, N)
  BY <1>1, <1>5, <1>6, <1>7, Sizes, BetweenInner DEF SQ
<1>9. Unfetched = Window(c_head, h_tail, N) /\ Unfetched \subseteq SQ
  BY <1>1 DEF Unfetched, Window, SQ
<1>10. /\ Window(c_head, t, N) = Window(c_head, h_tail, N) \cup Window(h_tail, t, N)
       /\ Window(c_head, h_tail, N) \cap Window(h_tail, t, N) = {}
  BY <1>1, <1>5, <1>8, Sizes, WindowSplit DEF SQ
<1> QED
  BY <1>4, <1>5, <1>8, <1>9, <1>10

\* Every new command in the ring has its slot.
LEMMA BatchOwn ==
    ASSUME NumbersInv, OwnInv, NEW n \in 0..N-1, NEW d, NEW slot, NEW t \in SQ,
           Placed(n, d, slot), Written(n, d, slot), \A i \in 1..n : d[i] # None,
           Dist(h_tail, t, N) = n, Unfetched' = Unfetched \cup Window(h_tail, t, N),
           Unfetched \cap Window(h_tail, t, N) = {}, Unfetched \subseteq SQ, Unseen' = Unseen,
           UNCHANGED <<inflight, hcq>>
    PROVE  OwnInv'
<1> DEFINE Fresh == Window(h_tail, t, N)
           I(p) == Dist(h_tail, p, N) + 1
<1>1. h_tail \in SQ /\ hsq \in [SQ -> Int \X Int]
  BY DEF NumbersInv
<1>2. ASSUME NEW p \in Fresh
      PROVE  p \in SQ /\ I(p) \in 1..n /\ hsq'[p] = <<slot[I(p)], d[I(p)]>>
  <2>1. p \in SQ /\ Dist(h_tail, p, N) < n
    BY DEF Window, SQ
  <2>2. Dist(h_tail, p, N) \in 0..N-1
    BY <1>1, <2>1, Sizes, DistFacts DEF SQ
  <2>3. hsq'[p] = <<slot[I(p)], d[I(p)]>>
    BY <2>1 DEF Written
  <2> QED
    BY <2>1, <2>2, <2>3
<1>3. ASSUME NEW i \in 1..n PROVE \E p \in Fresh : I(p) = i
  <2>1. i - 1 \in 0..N-1
    BY Sizes
  <2>2. PICK p \in SQ : Dist(h_tail, p, N) = i - 1
    BY <1>1, <2>1, Sizes, Further DEF SQ
  <2> QED
    BY <2>2 DEF Window, SQ
<1>4. ASSUME NEW p \in Fresh, NEW q \in Fresh, I(p) = I(q) PROVE p = q
  <2>1. p \in SQ /\ q \in SQ
    BY <1>2
  <2>2. Dist(h_tail, p, N) \in 0..N-1 /\ Dist(h_tail, q, N) \in 0..N-1
    BY <1>1, <2>1, Sizes, DistFacts DEF SQ
  <2>3. Dist(h_tail, p, N) = Dist(h_tail, q, N)
    BY <1>4, <2>2
  <2> QED
    BY <1>1, <2>1, <2>3, Sizes, DistThree DEF SQ
<1>5. \A p \in Unfetched : hsq'[p] = hsq[p]
  <2> SUFFICES ASSUME NEW p \in Unfetched PROVE hsq'[p] = hsq[p]
    OBVIOUS
  <2>1. p \in SQ /\ p \notin Fresh
    OBVIOUS
  <2>2. ~(Dist(h_tail, p, N) < n)
    BY <2>1 DEF Window, SQ
  <2> QED
    BY <2>1, <2>2 DEF Written
<1>6. ASSUME NEW s, NEW r, Holds(s, r) PROVE Holds(s, r)' /\ \A i \in 1..n : slot[i] # s
  BY <1>6 DEF Holds, Placed, SQ
<1>7. ASSUME NEW p \in Fresh PROVE Holds(hsq[p][1], hsq[p][2])'
  BY <1>2 DEF Holds, Placed, SQ
<1>8. ASSUME NEW p \in Fresh
      PROVE  /\ \A i \in Unfetched : hsq'[p][1] # hsq[i][1]
             /\ \A e \in inflight : hsq'[p][1] # e[1]
             /\ \A j \in Unseen : hsq'[p][1] # hcq[j].cid
  <2>1. hsq'[p][1] = slot[I(p)] /\ I(p) \in 1..n
    BY <1>2
  <2> QED
    BY <1>6, <2>1 DEF OwnInv
<1>9. ASSUME NEW p \in Fresh, NEW q \in Fresh, hsq'[p][1] = hsq'[q][1] PROVE p = q
  <2> HIDE DEF I
  <2>1. hsq'[p][1] = slot[I(p)] /\ I(p) \in 1..n /\ hsq'[q][1] = slot[I(q)] /\ I(q) \in 1..n
    BY <1>2
  <2>2. I(p) = I(q)
    BY <1>9, <2>1 DEF Placed
  <2> QED
    BY <1>4, <2>2
<1> HIDE DEF Fresh, I
<1>10. Unfetched' = Unfetched \cup Fresh
  BY DEF Fresh
<1>11. /\ (\A i \in Unfetched : Holds(hsq[i][1], hsq[i][2]))'
       /\ (\A e \in inflight : Holds(e[1], e[2]))'
       /\ (\A j \in Unseen : Holds(hcq[j].cid, hcq[j].req))'
  BY <1>5, <1>6, <1>7, <1>10 DEF OwnInv
<1>12. (\A s \in SQ : req_slot[s] # None =>
          \/ \E i \in Unfetched : hsq[i][1] = s
          \/ \E e \in inflight : e[1] = s
          \/ \E j \in Unseen : hcq[j].cid = s)'
  <2> SUFFICES ASSUME NEW s \in SQ, req_slot'[s] # None
               PROVE  \/ \E i \in Unfetched' : hsq'[i][1] = s
                      \/ \E e \in inflight : e[1] = s
                      \/ \E j \in Unseen : hcq[j].cid = s
    BY DEF SQ
  <2>1. CASE \E i \in 1..n : slot[i] = s
    <3>1. PICK i \in 1..n : slot[i] = s
      BY <2>1
    <3>2. PICK p \in Fresh : I(p) = i
      BY <1>3
    <3>3. hsq'[p][1] = s
      BY <1>2, <3>1, <3>2
    <3> QED
      BY <1>10, <3>3
  <2>2. CASE \A i \in 1..n : slot[i] # s
    <3>1. req_slot[s] # None
      BY <2>2 DEF Placed
    <3> QED
      BY <1>5, <1>10, <3>1 DEF OwnInv
  <2> QED
    BY <2>1, <2>2
<1>13. (\A i, j \in Unfetched : hsq[i][1] = hsq[j][1] => i = j)'
  BY <1>5, <1>8, <1>9, <1>10 DEF OwnInv
<1>14. /\ (\A i, j \in Unseen : hcq[i].cid = hcq[j].cid => i = j)'
       /\ (\A e \in inflight, j \in Unseen : e[1] # hcq[j].cid)'
  BY DEF OwnInv
<1>15. /\ (\A i \in Unfetched, e \in inflight : hsq[i][1] # e[1])'
       /\ (\A i \in Unfetched, j \in Unseen : hsq[i][1] # hcq[j].cid)'
  BY <1>5, <1>8, <1>10 DEF OwnInv
<1> QED
  BY <1>11, <1>12, <1>13, <1>14, <1>15 DEF OwnInv

\* The slots in use grow by the batch.
LEMMA BatchSlots ==
    ASSUME NEW n \in Nat, NEW d, NEW slot, Placed(n, d, slot), NEW S, None \notin S,
           \A i \in 1..n : d[i] \in S
    PROVE  Cardinality(SlotsOf(S))' = Cardinality(SlotsOf(S)) + n
<1> DEFINE R == {slot[i] : i \in 1..n}
           f == [i \in 1..n |-> slot[i]]
<1>1. IsFiniteSet(1..n) /\ Cardinality(1..n) = n
  BY FS_Interval
<1>2. /\ f \in [1..n -> R] /\ \A i, j \in 1..n : f[i] = f[j] => i = j
      /\ \A r \in R : \E i \in 1..n : f[i] = r
  BY DEF Placed
<1> HIDE DEF f
<1>3. IsFiniteSet(R) /\ Cardinality(R) = n
  <2> HIDE DEF R
  <2> QED
    BY <1>1, <1>2, SameSize
<1>4. SlotsOf(S)' = SlotsOf(S) \cup R /\ SlotsOf(S) \cap R = {}
  <2>1. R \subseteq SQ /\ \A r \in R : req_slot[r] = None /\ req_slot'[r] \in S
    BY DEF Placed
  <2>2. \A s \in SQ : s \notin R => req_slot'[s] = req_slot[s]
    BY DEF Placed
  <2> HIDE DEF R
  <2> QED
    BY <2>1, <2>2 DEF SlotsOf, SQ
<1>5. IsFiniteSet(SlotsOf(S)) /\ Cardinality(SlotsOf(S)) \in Nat
  BY SlotsFinite
<1> HIDE DEF R
<1>6. Cardinality(SlotsOf(S) \cup R) = Cardinality(SlotsOf(S)) + Cardinality(R) - Cardinality({})
  BY <1>3, <1>4, <1>5, FS_Union
<1>7. Cardinality({}) = 0
  BY FS_EmptySet
<1> QED
  BY <1>3, <1>4, <1>5, <1>6, <1>7

LEMMA BatchOthers ==
    ASSUME NEW n \in Nat, NEW d, NEW slot, Placed(n, d, slot), NEW S, None \notin S,
           \A i \in 1..n : d[i] \notin S
    PROVE  Cardinality(SlotsOf(S))' = Cardinality(SlotsOf(S))
<1>1. \A s \in SQ : req_slot'[s] \in S <=> req_slot[s] \in S
  <2> SUFFICES ASSUME NEW s \in SQ PROVE req_slot'[s] \in S <=> req_slot[s] \in S
    OBVIOUS
  <2>1. CASE \E i \in 1..n : slot[i] = s
    BY <2>1 DEF Placed
  <2>2. CASE \A i \in 1..n : slot[i] # s
    BY <2>2 DEF Placed
  <2> QED
    BY <2>1, <2>2
<1>2. SlotsOf(S)' = SlotsOf(S)
  BY <1>1 DEF SlotsOf, SQ
<1> QED
  BY <1>2

\* The requests of the batch were in no slot, and the guest's among them are
\* the next ones.
NewRequests(n, d) ==
    /\ \A i \in 1..n : d[i] \in 1..Submitted' \cup Host /\ d[i] \notin 1..Submitted
    /\ \A i, j \in 1..n : d[i] = d[j] /\ d[i] \in Guest => i = j
    /\ Submitted <= Submitted'

LEMMA BatchCommands ==
    ASSUME NumbersInv, NumbersInv', InSlotsInv, AnswersInv, NEW n \in Nat, NEW d, NEW slot,
           Placed(n, d, slot), NewRequests(n, d), Delivering' = Delivering,
           UNCHANGED <<creq, answered, Eff, gcqhead, g_head>>
    PROVE  InSlotsInv' /\ AnswersInv'
<1>1. /\ Submitted \in Int /\ Submitted' \in Int /\ 1..Submitted \subseteq 1..Submitted'
      /\ 1..Submitted \subseteq Guest /\ 1..Submitted' \subseteq Guest
  <2>1. Submitted \in Int /\ 1..Submitted \subseteq Guest
    BY SubmittedBound
  <2>2. Submitted' \in Int /\ 1..Submitted' \subseteq Guest'
    <3>1. issued' \in 0..MAXG /\ g_cur_tail' \in SQ /\ gtail' \in SQ /\ Len(queuing_g') \in Nat
      BY DEF NumbersInv, SQ
    <3>2. Dist(g_cur_tail', gtail', N) \in 0..N-1
      BY <3>1, Sizes, DistFacts DEF SQ
    <3> QED
      BY <3>1, <3>2, Sizes DEF Submitted, Fetched, Guest
  <2>3. Guest' = Guest /\ Submitted <= Submitted'
    BY DEF NewRequests, Guest
  <2>4. 1..Submitted \subseteq 1..Submitted'
    BY <2>1, <2>2, <2>3
  <2> QED
    BY <2>1, <2>2, <2>3, <2>4
<1>2. Answers' = Answers
  BY DEF Answers, Window
<1>3. ASSUME NEW s \in SQ
      PROVE  \/ \E i \in 1..n : s = slot[i] /\ req_slot'[s] = d[i]
             \/ req_slot'[s] = req_slot[s]
  BY DEF Placed
<1>4. \A s \in SQ : req_slot[s] \in 1..Submitted \cup Host \cup {None}
  BY DEF InSlotsInv
<1>5. \A i \in 1..n : d[i] \in 1..Submitted' \cup Host /\ d[i] \notin 1..Submitted
  BY DEF NewRequests
<1>6. \A s \in SQ : req_slot'[s] \in 1..Submitted' \cup Host \cup {None}
  BY <1>1, <1>3, <1>4, <1>5
<1>7. ASSUME NEW k \in 1..Submitted, \A s \in SQ : req_slot[s] # k
      PROVE  \A s \in SQ : req_slot'[s] # k
  BY <1>3, <1>5, <1>7
<1>8. \A s, t \in SQ : req_slot'[s] = req_slot'[t] /\ req_slot'[s] \in Guest => s = t
  <2> SUFFICES ASSUME NEW s \in SQ, NEW t \in SQ, req_slot'[s] = req_slot'[t], req_slot'[s] \in Guest
               PROVE  s = t
    OBVIOUS
  <2>1. ASSUME NEW u \in SQ, req_slot[u] \in Guest PROVE req_slot[u] \in 1..Submitted
    BY <1>4, <2>1, NotNone
  <2>2. CASE \E i \in 1..n : s = slot[i] /\ req_slot'[s] = d[i]
    <3>1. PICK i \in 1..n : s = slot[i] /\ req_slot'[s] = d[i]
      BY <2>2
    <3>2. req_slot'[t] # req_slot[t]
      BY <1>5, <2>1, <3>1
    <3>3. PICK j \in 1..n : t = slot[j] /\ req_slot'[t] = d[j]
      BY <1>3, <3>2
    <3>4. i = j
      BY <3>1, <3>3 DEF NewRequests
    <3> QED
      BY <3>1, <3>3, <3>4
  <2>3. CASE req_slot'[s] = req_slot[s]
    <3>1. req_slot'[s] \in 1..Submitted
      BY <2>1, <2>3
    <3>2. req_slot'[t] = req_slot[t]
      BY <1>3, <1>5, <3>1
    <3> QED
      BY <2>3, <3>2 DEF InSlotsInv
  <2> QED
    BY <1>3, <2>2, <2>3
<1>9. InSlotsInv'
  <2>1. Delivering => creq \in 1..Submitted' \cup Host
    BY <1>1 DEF InSlotsInv
  <2>2. Delivering /\ creq \in Guest => \A s \in SQ : req_slot'[s] # creq
    <3> SUFFICES ASSUME Delivering, creq \in Guest PROVE \A s \in SQ : req_slot'[s] # creq
      OBVIOUS
    <3>1. creq \in 1..Submitted
      BY NotNone DEF InSlotsInv
    <3> QED
      BY <1>7, <3>1 DEF InSlotsInv
  <2> QED
    BY <1>6, <1>8, <2>1, <2>2 DEF InSlotsInv, SQ, Guest, Host
<1>10. AnswersInv'
  <2>1. (\A p \in Answers : Eff[p].cid \in 1..Submitted /\ Elsewhere(Eff[p].cid))'
    BY <1>1, <1>2, <1>7 DEF AnswersInv, Elsewhere, SQ
  <2>2. /\ (\A p, q \in Answers : Eff[p].cid = Eff[q].cid => p = q)'
        /\ (\A k \in Guest : answered[k] \in {0, 1})'
    BY <1>2 DEF AnswersInv, Guest
  <2>3. ASSUME NEW k \in Guest, answered[k] = 1
        PROVE  k \in 1..Submitted /\ Elsewhere(k) /\ \A p \in Answers : Eff[p].cid # k
    <3>1. k <= Submitted /\ Elsewhere(k) /\ \A p \in Answers : Eff[p].cid # k
      BY <2>3 DEF AnswersInv
    <3> QED
      BY <1>1, <3>1 DEF Guest
  <2>4. ASSUME NEW k \in Guest, answered[k] = 1
        PROVE  k <= Submitted' /\ Elsewhere(k)' /\ \A p \in Answers : Eff[p].cid # k
    <3>1. k \in 1..Submitted /\ Elsewhere(k) /\ \A p \in Answers : Eff[p].cid # k
      BY <2>3, <2>4
    <3>2. k <= Submitted'
      BY <1>1, <3>1
    <3>3. \A s \in SQ : req_slot'[s] # k
      BY <1>7, <3>1 DEF Elsewhere
    <3>4. Elsewhere(k)'
      BY <3>1, <3>3 DEF Elsewhere, SQ
    <3> QED
      BY <3>1, <3>2, <3>4
  <2>5. (\A k \in Guest : answered[k] = 1 =>
           k <= Submitted /\ Elsewhere(k) /\ \A p \in Answers : Eff[p].cid # k)'
    BY <1>2, <2>4 DEF Guest
  <2> QED
    BY <2>1, <2>2, <2>5 DEF AnswersInv
<1> QED
  BY <1>9, <1>10

\* What the batch is: the head of one of the two queues, no longer than the
\* room there is.
LEMMA TheBatch ==
    ASSUME NumbersInv, HostRingsInv, CountsInv, InQueuesInv,
           NEW q, q = IF dequeue_host_req THEN queuing_h ELSE queuing_g,
           NEW d, d = Dequeued
    PROVE  /\ Len(d) \in Nat /\ Len(d) <= N - 1 - n_slots_used
           /\ Len(d) <= Dist(Inc(h_tail, N), h_head, N) /\ Len(d) <= Len(q)
           /\ \A i \in 1..Len(d) : d[i] = q[i]
           /\ Len(d) # 0 => dequeue_host_req \/ ~(not_ack_h > 0)
<1>1. n_slots_used \in Int /\ n_slots_used <= N - 1 /\ q \in Seq(Int)
  BY DEF NumbersInv, CountsInv
<1>2. Dist(Inc(h_tail, N), h_head, N) \in 0..N-1
  <2>1. h_tail \in SQ /\ h_head \in SQ
    BY DEF NumbersInv
  <2>2. PICK x \in SQ : x = Inc(h_tail, N)
    BY <2>1, Sizes, DistFacts DEF SQ
  <2> QED
    BY <2>1, <2>2, Sizes, DistFacts DEF SQ
<1>3. PICK a \in Nat : a = N - 1 - n_slots_used
  BY <1>1, Sizes
<1>4. PICK b \in Nat : b = Dist(Inc(h_tail, N), h_head, N)
  BY <1>2
<1>5. PICK room \in Nat : room = Room /\ room <= a /\ room <= b
  BY <1>3, <1>4, MinTwo DEF Room
<1>6. PICK len \in Nat : len = Len(q)
  BY <1>1
<1>a. Min({room, len}) \in {room, len} /\ Min({room, len}) <= room /\ Min({room, len}) <= len
  <2>1. room \in Int /\ len \in Int
    OBVIOUS
  <2> QED
    BY ONLY <2>1, MinTwo
<1>7. PICK m \in Nat : m = Min({room, len}) /\ m <= room /\ m <= len
  BY ONLY <1>a, room \in Nat, len \in Nat
<1>8. d = IF ~dequeue_host_req /\ not_ack_h > 0 THEN <<>> ELSE SubSeq(q, 1, m)
  BY <1>5, <1>6, <1>7 DEF Dequeued
<1>9. /\ Len(SubSeq(q, 1, m)) = m
      /\ \A i \in 1..m : SubSeq(q, 1, m)[i] = q[i]
  <2>1. q \in Seq(Int) /\ m \in Nat /\ m <= Len(q)
    BY <1>1, <1>6, <1>7
  <2> QED
    BY ONLY <2>1
<1>10. CASE ~dequeue_host_req /\ not_ack_h > 0
  <2>1. Len(d) = 0
    BY <1>8, <1>10
  <2> QED
    BY <1>1, <1>2, <1>6, <2>1, Sizes
<1>11. CASE ~(~dequeue_host_req /\ not_ack_h > 0)
  <2>1. d = SubSeq(q, 1, m) /\ Len(d) = m
    BY <1>8, <1>9, <1>11
  <2>2. m <= a /\ m <= b /\ m <= Len(q)
    BY ONLY <1>3, <1>4, <1>5, <1>6, <1>7
  <2>3. \A i \in 1..Len(d) : d[i] = q[i]
    BY ONLY <1>9, <2>1
  <2>4. Len(d) # 0 => dequeue_host_req \/ ~(not_ack_h > 0)
    BY ONLY <1>11
  <2> QED
    BY ONLY <1>3, <1>4, <1>7, <2>1, <2>2, <2>3, <2>4
<1> QED
  BY <1>10, <1>11

\* What is left of a queue.
LEMMA Rest ==
    ASSUME NEW q \in Seq(Int), NEW n \in Nat, n <= Len(q)
    PROVE  /\ SubSeq(q, n + 1, Len(q)) \in Seq(Int)
           /\ Len(SubSeq(q, n + 1, Len(q))) = Len(q) - n
           /\ \A i \in 1 .. Len(q) - n : SubSeq(q, n + 1, Len(q))[i] = q[n + i]
  OBVIOUS

\* The slots get_free_slots gives are different.
LEMMA FreeSlots ==
    ASSUME NumbersInv, NEW n \in Nat, NEW slot \in [1..n -> SQ], get_free_slots(slot, n)
    PROVE  \A i, j \in 1..n : slot[i] = slot[j] => i = j
<1>1. ASSUME NEW i \in 1..n, NEW j \in 1..n, i < j, slot[i] = slot[j] PROVE FALSE
  <2>1. slot[i] \in 0..N-1 /\ slot[j] \in 0..N-1 /\ next_slot \in 0..N-1
    BY DEF NumbersInv, SQ
  <2>2. i \in 1..j-1
    BY <1>1
  <2>3. Dist(next_slot, slot[i], N) < Dist(next_slot, slot[j], N)
    BY <2>1, <2>2 DEF get_free_slots
  <2>4. Dist(next_slot, slot[i], N) \in 0..N-1
    BY <2>1, Sizes, DistFacts
  <2> QED
    BY <1>1, <2>3, <2>4
<1>2. \A i, j \in 1..n : i # j => i < j \/ j < i
  OBVIOUS
<1> QED
  BY <1>1, <1>2

\* What a submission leaves alone.
Around == UNCHANGED <<issued, gsq, gtail, gsqhd, gcqhead, gcqphase, answered, g_tail, g_cur_tail,
                      g_new_tail, gcq, g_head, g_phase, g_new_head, h_head, h_cqhead, h_phase,
                      last_write, c_head, inflight, hcq, c_cqtail, c_phase, executed, creq, cent,
                      first, hosts>>

\* The requests that leave their queue are the ones that enter the slots.
LEMMA BatchQueues ==
    ASSUME NumbersInv, CountsInv, InQueuesInv, Around, NEW d, NEW n \in Nat, n = Len(d),
           NEW q, q = IF dequeue_host_req THEN queuing_h ELSE queuing_g, n <= Len(q),
           \A i \in 1..n : d[i] = q[i],
           dequeue_host_req =>
              queuing_h' = SubSeq(queuing_h, n + 1, Len(queuing_h)) /\ queuing_g' = queuing_g,
           ~dequeue_host_req =>
              queuing_g' = SubSeq(queuing_g, n + 1, Len(queuing_g)) /\ queuing_h' = queuing_h
    PROVE  /\ InQueuesInv' /\ NewRequests(n, d)
           /\ queuing_g' \in Seq(Int) /\ queuing_h' \in Seq(Int)
           /\ \A i \in 1..n : d[i] # None
           /\ dequeue_host_req => \A i \in 1..n : d[i] \in Host
           /\ ~dequeue_host_req => \A i \in 1..n : d[i] \in Guest
<1>1. queuing_g \in Seq(Int) /\ queuing_h \in Seq(Int) /\ Len(queuing_g) \in Nat
  BY DEF NumbersInv
<1>2. Submitted \in Int /\ 1..Submitted \subseteq Guest /\ 0 <= Submitted
  BY SubmittedBound DEF InQueuesInv
<1>3. /\ \A i \in 1..Len(queuing_g) : queuing_g[i] = Submitted + i
      /\ \A i \in 1..Len(queuing_h) : queuing_h[i] \in Host
      /\ \A p \in Window(g_cur_tail, gtail, N) : gsq[p] = issued + 1 - Dist(p, gtail, N)
  BY DEF InQueuesInv
<1>4. (\A p \in Window(g_cur_tail, gtail, N) : gsq[p] = issued + 1 - Dist(p, gtail, N))'
  BY <1>3 DEF Around, Window
<1>5. /\ issued \in 0..MAXG /\ Dist(g_cur_tail, gtail, N) \in 0..N-1
      /\ Submitted = issued - Dist(g_cur_tail, gtail, N) - Len(queuing_g)
      /\ Submitted' = issued - Dist(g_cur_tail, gtail, N) - Len(queuing_g')
  <2>1. issued \in 0..MAXG /\ g_cur_tail \in SQ /\ gtail \in SQ
    BY DEF NumbersInv
  <2>2. Dist(g_cur_tail, gtail, N) \in 0..N-1
    BY <2>1, Sizes, DistFacts DEF SQ
  <2> QED
    BY <2>1, <2>2 DEF Submitted, Fetched, Around
<1>6. CASE dequeue_host_req
  <2>1. q = queuing_h /\ queuing_g' = queuing_g /\ queuing_h' = SubSeq(queuing_h, n + 1, Len(queuing_h))
    BY <1>6
  <2>2. Submitted' = Submitted
    BY <1>5, <2>1
  <2>3. \A i \in 1..n : d[i] \in Host /\ d[i] \notin Guest /\ d[i] # None
    <3>1. 1..n \subseteq 1..Len(queuing_h)
      BY <1>1, <2>1
    <3> QED
      BY <1>3, <2>1, <3>1, NotNone
  <2>4. NewRequests(n, d)
    BY <1>2, <2>2, <2>3 DEF NewRequests
  <2>5. /\ queuing_h' \in Seq(Int) /\ Len(queuing_h') = Len(queuing_h) - n
        /\ \A i \in 1 .. Len(queuing_h) - n : queuing_h'[i] = queuing_h[n + i]
    BY <1>1, <2>1, Rest
  <2>6. \A i \in 1..Len(queuing_h') : queuing_h'[i] \in Host
    <3>1. \A i \in 1 .. Len(queuing_h) - n : n + i \in 1..Len(queuing_h)
      BY <1>1, <2>1
    <3> QED
      BY <1>3, <2>5, <3>1
  <2>7. InQueuesInv'
    BY <1>2, <1>3, <1>4, <2>1, <2>2, <2>6 DEF InQueuesInv, Host
  <2> QED
    BY <1>1, <1>6, <2>1, <2>3, <2>4, <2>5, <2>7
<1>7. CASE ~dequeue_host_req
  <2>1. q = queuing_g /\ queuing_h' = queuing_h /\ queuing_g' = SubSeq(queuing_g, n + 1, Len(queuing_g))
    BY <1>7
  <2>2. /\ queuing_g' \in Seq(Int) /\ Len(queuing_g') = Len(queuing_g) - n
        /\ \A i \in 1 .. Len(queuing_g) - n : queuing_g'[i] = queuing_g[n + i]
    BY <1>1, <2>1, Rest
  <2>3. Submitted' = Submitted + n /\ Submitted + n <= MAXG
    <3>1. /\ issued \in 0..MAXG /\ MAXG \in Nat /\ Dist(g_cur_tail, gtail, N) \in Nat
          /\ Len(queuing_g) \in Nat /\ n <= Len(queuing_g) /\ n \in Nat
      BY <1>1, <1>5, <2>1, Sizes
    <3> QED
      BY ONLY <1>5, <2>2, <3>1
  <2>4. \A i \in 1..n : d[i] = Submitted + i
    <3>1. 1..n \subseteq 1..Len(queuing_g)
      BY <1>1, <2>1
    <3> QED
      BY <1>3, <2>1, <3>1
  <2>5. \A i \in 1..n : d[i] \in Guest /\ d[i] # None
    BY <1>2, <2>3, <2>4, Sizes DEF Guest, None
  <2>6. NewRequests(n, d)
    <3>1. \A i \in 1..n : d[i] \in 1..Submitted' /\ d[i] \notin 1..Submitted
      BY <1>2, <2>3, <2>4
    <3>2. \A i, j \in 1..n : d[i] = d[j] => i = j
      BY <1>2, <2>4
    <3>3. Submitted <= Submitted'
      BY <1>2, <2>3
    <3> QED
      BY <3>1, <3>2, <3>3 DEF NewRequests
  <2>7. \A i \in 1..Len(queuing_g') : queuing_g'[i] = Submitted' + i
    <3> SUFFICES ASSUME NEW i \in 1..Len(queuing_g') PROVE queuing_g'[i] = Submitted' + i
      OBVIOUS
    <3>1. n + i \in 1..Len(queuing_g) /\ i \in 1 .. Len(queuing_g) - n
      BY <1>1, <2>1, <2>2
    <3>2. queuing_g'[i] = Submitted + (n + i)
      BY <1>3, <2>2, <3>1
    <3> QED
      BY <1>2, <2>3, <3>2
  <2>8. 0 <= Submitted'
    BY <1>2, <2>3
  <2>9. InQueuesInv'
    BY <1>3, <1>4, <2>1, <2>7, <2>8 DEF InQueuesInv, Host
  <2> QED
    BY <1>1, <1>7, <2>1, <2>2, <2>5, <2>6, <2>9
<1> QED
  BY <1>6, <1>7

LEMMA SubmitInv ==
    ASSUME QueueInv, submit, Around, LockInv', Delivering' = Delivering,
           pc' \in [Contexts -> Places]
    PROVE  QueueInv'
<1>0. /\ NumbersInv /\ LockInv /\ GuestRingsInv /\ HostRingsInv /\ OwnInv /\ CountsInv
      /\ InQueuesInv /\ InSlotsInv /\ AnswersInv /\ ExecutedInv
  BY DEF QueueInv, CommandsInv
<1>1. PICK d : d = Dequeued
  OBVIOUS
<1>2. PICK q : q = IF dequeue_host_req THEN queuing_h ELSE queuing_g
  OBVIOUS
<1>3. PICK n : n = Len(d)
  OBVIOUS
<1>4. /\ n \in Nat /\ n <= N - 1 - n_slots_used /\ n <= Dist(Inc(h_tail, N), h_head, N)
      /\ n <= Len(q) /\ \A i \in 1..n : d[i] = q[i]
      /\ n # 0 => dequeue_host_req \/ ~(not_ack_h > 0)
  BY <1>0, <1>1, <1>2, <1>3, TheBatch
<1>a. PICK slot \in [1..Len(Dequeued) -> 0..N-1] :
       /\ get_free_slots(slot, Len(Dequeued))
       /\ req_slot' = [s \in 0..N-1 |->
             IF \E i \in 1..Len(Dequeued) : slot[i] = s
             THEN Dequeued[CHOOSE i \in 1..Len(Dequeued) : slot[i] = s] ELSE req_slot[s]]
       /\ next_slot' = IF Len(Dequeued) = 0 THEN next_slot ELSE Inc(slot[Len(Dequeued)], N)
       /\ hsq' = [p \in 0..N-1 |-> LET i == Dist(h_tail, p, N) + 1 IN
                    IF i <= Len(Dequeued) THEN <<slot[i], Dequeued[i]>> ELSE hsq[p]]
  BY Zenon DEF submit
<1>5. /\ slot \in [1..n -> SQ] /\ get_free_slots(slot, n)
      /\ req_slot' = [s \in SQ |-> IF \E i \in 1..n : slot[i] = s
                                   THEN d[CHOOSE i \in 1..n : slot[i] = s] ELSE req_slot[s]]
      /\ next_slot' = IF n = 0 THEN next_slot ELSE Inc(slot[n], N)
      /\ hsq' = [p \in SQ |-> LET i == Dist(h_tail, p, N) + 1 IN
                              IF i <= n THEN <<slot[i], d[i]>> ELSE hsq[p]]
  <2>1. Dequeued = d /\ Len(Dequeued) = n /\ 0..N-1 = SQ
    BY <1>1, <1>3 DEF SQ
  <2>2. slot \in [1..n -> SQ] /\ get_free_slots(slot, n)
    BY <1>a, <2>1
  <2>3. next_slot' = IF n = 0 THEN next_slot ELSE Inc(slot[n], N)
    BY <1>a, <2>1
  <2>4. req_slot' = [s \in SQ |-> IF \E i \in 1..n : slot[i] = s
                                  THEN d[CHOOSE i \in 1..n : slot[i] = s] ELSE req_slot[s]]
    BY <1>a, <2>1, Zenon
  <2>5. hsq' = [p \in SQ |-> LET i == Dist(h_tail, p, N) + 1 IN
                             IF i <= n THEN <<slot[i], d[i]>> ELSE hsq[p]]
    BY <1>a, <2>1, Zenon
  <2> QED
    BY <2>2, <2>3, <2>4, <2>5
<1>6. /\ h_tail' = (h_tail + n) % N /\ c_tail' = h_tail' /\ n_slots_used' = n_slots_used + n
      /\ dequeue_host_req =>
            /\ queuing_h' = SubSeq(queuing_h, n + 1, Len(queuing_h)) /\ queuing_g' = queuing_g
            /\ not_ack_h' = not_ack_h + n /\ not_ack_g' = not_ack_g
      /\ ~dequeue_host_req =>
            /\ queuing_g' = SubSeq(queuing_g, n + 1, Len(queuing_g)) /\ queuing_h' = queuing_h
            /\ not_ack_g' = not_ack_g + n /\ not_ack_h' = not_ack_h
  BY <1>1, <1>3 DEF submit
<1>7. /\ InQueuesInv' /\ NewRequests(n, d)
      /\ queuing_g' \in Seq(Int) /\ queuing_h' \in Seq(Int)
      /\ \A i \in 1..n : d[i] # None
      /\ dequeue_host_req => \A i \in 1..n : d[i] \in Host
      /\ ~dequeue_host_req => \A i \in 1..n : d[i] \in Guest
  BY <1>0, <1>2, <1>3, <1>4, <1>6, BatchQueues
<1>8. PICK t : t = (h_tail + n) % N
  OBVIOUS
<1>9. /\ t \in SQ /\ Dist(h_tail, t, N) = n /\ n \in 0..N-1
      /\ Between(h_head, c_head, t, N)
      /\ Window(c_head, t, N) = Unfetched \cup Window(h_tail, t, N)
      /\ Unfetched \cap Window(h_tail, t, N) = {} /\ Unfetched \subseteq SQ
  BY <1>0, <1>4, <1>8, BatchFits
<1>10. Placed(n, d, slot)
  <2>1. \A i, j \in 1..n : slot[i] = slot[j] => i = j
    BY <1>0, <1>4, <1>5, FreeSlots
  <2>2. \A i \in 1..n : slot[i] \in SQ /\ req_slot[slot[i]] = None
    BY <1>5 DEF get_free_slots
  <2>3. ASSUME NEW i \in 1..n PROVE req_slot'[slot[i]] = d[i]
    <3>1. (CHOOSE j \in 1..n : slot[j] = slot[i]) = i
      BY <2>1
    <3> QED
      BY <1>5, <2>2, <3>1
  <2>4. \A s \in SQ : (\A i \in 1..n : slot[i] # s) => req_slot'[s] = req_slot[s]
    BY <1>5
  <2> QED
    BY <2>1, <2>2, <2>3, <2>4 DEF Placed
<1>11. Written(n, d, slot)
  <2> SUFFICES ASSUME NEW p \in SQ
               PROVE  /\ Dist(h_tail, p, N) < n => hsq'[p] = <<slot[Dist(h_tail, p, N) + 1],
                                                              d[Dist(h_tail, p, N) + 1]>>
                      /\ ~(Dist(h_tail, p, N) < n) => hsq'[p] = hsq[p]
    BY DEF Written
  <2>1. h_tail \in SQ
    BY <1>0 DEF NumbersInv
  <2>2. Dist(h_tail, p, N) \in 0..N-1
    BY <2>1, Sizes, DistFacts DEF SQ
  <2>3. PICK k \in Nat : k = Dist(h_tail, p, N)
    BY <2>2
  <2>4. hsq'[p] = IF k + 1 <= n THEN <<slot[k + 1], d[k + 1]>> ELSE hsq[p]
    BY <1>5, <2>3
  <2>5. k + 1 <= n <=> k < n
    BY <1>4
  <2> QED
    BY <2>3, <2>4, <2>5
<1>12. Unfetched' = Unfetched \cup Window(h_tail, t, N) /\ Unseen' = Unseen
  BY <1>6, <1>8, <1>9 DEF Unfetched, Unseen, Window, Around
<1>13. OwnInv'
  BY <1>0, <1>7, <1>9, <1>10, <1>11, <1>12, BatchOwn DEF Around
<1>14. NumbersInv'
  <2>1. /\ req_slot \in [SQ -> Int] /\ hsq \in [SQ -> Int \X Int] /\ n_slots_used \in Int
        /\ not_ack_g \in Int /\ not_ack_h \in Int /\ next_slot \in SQ
    BY <1>0 DEF NumbersInv
  <2>2. h_tail' \in SQ /\ c_tail' \in SQ
    BY <1>6, <1>8, <1>9
  <2>3. n_slots_used' \in Int /\ not_ack_g' \in Int /\ not_ack_h' \in Int
    <3>1. /\ n_slots_used' = n_slots_used + n
          /\ not_ack_g' = not_ack_g + n \/ not_ack_g' = not_ack_g
          /\ not_ack_h' = not_ack_h + n \/ not_ack_h' = not_ack_h
      BY <1>6
    <3> QED
      BY ONLY <1>4, <2>1, <3>1
  <2>4. \A i \in 1..n : d[i] \in Int
    BY <1>7 DEF Guest, Host
  <2>5. req_slot' \in [SQ -> Int]
    <3>1. \A s \in SQ : req_slot'[s] \in Int
      <4> SUFFICES ASSUME NEW s \in SQ PROVE req_slot'[s] \in Int
        OBVIOUS
      <4>1. CASE \E i \in 1..n : slot[i] = s
        BY <1>10, <2>4, <4>1 DEF Placed
      <4>2. CASE \A i \in 1..n : slot[i] # s
        BY <1>10, <2>1, <4>2 DEF Placed
      <4> QED
        BY <4>1, <4>2
    <3>2. req_slot' = [s \in SQ |-> req_slot'[s]]
      BY <1>5
    <3> QED
      BY <3>1, <3>2
  <2>6. hsq' \in [SQ -> Int \X Int]
    <3>1. ASSUME NEW p \in SQ PROVE hsq'[p] \in Int \X Int
      <4>1. h_tail \in SQ
        BY <1>0 DEF NumbersInv
      <4>2. Dist(h_tail, p, N) \in 0..N-1
        BY <4>1, Sizes, DistFacts DEF SQ
      <4>3. CASE Dist(h_tail, p, N) < n
        <5>1. PICK i \in 1..n : i = Dist(h_tail, p, N) + 1
          BY <1>4, <4>2, <4>3
        <5>2. hsq'[p] = <<slot[i], d[i]>>
          BY <1>11, <4>3, <5>1 DEF Written
        <5>3. slot[i] \in Int /\ d[i] \in Int
          <6>1. slot \in [1..n -> SQ]
            BY <1>5
          <6>2. slot[i] \in SQ
            BY <6>1
          <6> QED
            BY <2>4, <6>2 DEF SQ
        <5> QED
          BY <5>2, <5>3
      <4>4. CASE ~(Dist(h_tail, p, N) < n)
        BY <1>11, <2>1, <4>4 DEF Written
      <4> QED
        BY <4>3, <4>4
    <3>2. hsq' = [p \in SQ |-> hsq'[p]]
      BY <1>5
    <3> QED
      BY <3>1, <3>2
  <2>7. next_slot' \in SQ
    <3>1. n # 0 => Inc(slot[n], N) \in SQ
      <4>1. n # 0 => n \in 1..n
        BY <1>4
      <4>2. n # 0 => slot[n] \in SQ
        BY <1>5, <4>1
      <4> QED
        BY <4>2, Sizes, DistFacts DEF SQ
    <3> QED
      BY <1>5, <2>1, <3>1
  <2> QED
    BY <1>0, <1>7, <2>2, <2>3, <2>5, <2>6, <2>7 DEF NumbersInv, Around
<1>15. GuestRingsInv'
  BY <1>0, GuestRingsFrame DEF Around
<1>16. HostRingsInv'
  <2>1. HeadsOK(h_head, c_head, h_cqhead, c_cqtail, Heads(hcq))'
    BY <1>0 DEF HostRingsInv, HeadsOK, Heads, Window, Around, CQ
  <2>2. PhasesOK(Phases(hcq), c_cqtail, c_phase, h_cqhead, h_phase)'
    BY <1>0 DEF HostRingsInv, PhasesOK, Phases, Around, CQ
  <2>3. Between(h_head, c_head, h_tail, N)'
    BY <1>6, <1>8, <1>9 DEF Around, Between
  <2>4. Between(last_write, h_cqhead, c_cqtail, M)'
    BY <1>0 DEF HostRingsInv, Around, Between
  <2> QED
    BY <1>6, <2>1, <2>2, <2>3, <2>4 DEF HostRingsInv
<1>17. Eff' = Eff /\ Answers' = Answers
  BY DEF Around, Eff, Answers, Window
<1>18. InSlotsInv' /\ AnswersInv'
  BY <1>0, <1>4, <1>7, <1>10, <1>14, <1>17, BatchCommands DEF Around
<1>19. ExecutedInv'
  BY <1>0, <1>17, ExecutedFrame DEF Around
<1>20. CountsInv'
  <2>1. /\ n_slots_used = Cardinality(SlotsOf(Guest \cup Host))
        /\ not_ack_g = Cardinality(SlotsOf(Guest)) + InHand(Guest) + Dist(g_new_head, g_head, M)
        /\ not_ack_h = Cardinality(SlotsOf(Host)) + InHand(Host)
        /\ not_ack_g = 0 \/ not_ack_h = 0
        /\ Dist(last_write, h_cqhead, M) = Dist(g_new_head, g_head, M)
        /\ \A i \in Window(last_write, h_cqhead, M) : hcq[i].req \in Guest
    BY <1>0 DEF CountsInv
  <2>2. InHand(Guest)' = InHand(Guest) /\ InHand(Host)' = InHand(Host)
    BY DEF InHand, Around, Guest, Host
  <2>3. /\ Cardinality(SlotsOf(Guest)) \in Nat /\ Cardinality(SlotsOf(Host)) \in Nat
        /\ Cardinality(SlotsOf(Guest \cup Host)) \in Nat
        /\ InHand(Guest) \in Nat /\ InHand(Host) \in Nat
    BY SlotsFinite DEF InHand
  <2>4. Dist(g_new_head, g_head, M) \in 0..M-1 /\ n_slots_used \in Int
    <3>1. g_new_head \in CQ /\ g_head \in CQ /\ n_slots_used \in Int
      BY <1>0 DEF NumbersInv
    <3> QED
      BY <3>1, Sizes, DistFacts DEF CQ
  <2>5. (n_slots_used = Cardinality(SlotsOf(Guest \cup Host)) /\ n_slots_used <= N - 1)'
    <3>1. Cardinality(SlotsOf(Guest \cup Host))' = Cardinality(SlotsOf(Guest \cup Host)) + n
      BY <1>4, <1>7, <1>10, NotNone, BatchSlots
    <3>2. n_slots_used' <= N - 1
      BY <1>4, <1>6, <2>4, Sizes
    <3> QED
      BY <1>6, <2>1, <3>1, <3>2
  <2>6. Dist(g_new_head, g_head, M)' = Dist(g_new_head, g_head, M)
    BY DEF Around
  <2>7. /\ (Dist(last_write, h_cqhead, M) = Dist(g_new_head, g_head, M))'
        /\ (\A i \in Window(last_write, h_cqhead, M) : hcq[i].req \in Guest)'
    BY <2>1 DEF Around, Window, Guest
  <2>8. /\ (not_ack_g = Cardinality(SlotsOf(Guest)) + InHand(Guest) + Dist(g_new_head, g_head, M))'
        /\ (not_ack_h = Cardinality(SlotsOf(Host)) + InHand(Host))'
        /\ (not_ack_g = 0 \/ not_ack_h = 0)'
    <3>1. CASE dequeue_host_req
      <4>1. \A i \in 1..n : d[i] \in Host /\ d[i] \notin Guest
        BY <1>7, <3>1, NotNone
      <4>2. Cardinality(SlotsOf(Host))' = Cardinality(SlotsOf(Host)) + n
        BY <1>4, <1>10, <4>1, NotNone, BatchSlots
      <4>3. Cardinality(SlotsOf(Guest))' = Cardinality(SlotsOf(Guest))
        BY <1>4, <1>10, <4>1, NotNone, BatchOthers
      <4>4. not_ack_h' = not_ack_h + n /\ not_ack_g' = not_ack_g /\ not_ack_g = 0
        BY <1>6, <3>1 DEF dequeue_host_req
      <4>5. (not_ack_g = Cardinality(SlotsOf(Guest)) + InHand(Guest) + Dist(g_new_head, g_head, M))'
        BY <2>1, <2>2, <2>6, <4>3, <4>4
      <4>6. (not_ack_h = Cardinality(SlotsOf(Host)) + InHand(Host))'
        BY <1>4, <2>1, <2>2, <2>3, <4>2, <4>4
      <4> QED
        BY <4>4, <4>5, <4>6
    <3>2. CASE ~dequeue_host_req
      <4>1. \A i \in 1..n : d[i] \in Guest /\ d[i] \notin Host
        BY <1>7, <3>2, NotNone
      <4>2. Cardinality(SlotsOf(Guest))' = Cardinality(SlotsOf(Guest)) + n
        BY <1>4, <1>10, <4>1, NotNone, BatchSlots
      <4>3. Cardinality(SlotsOf(Host))' = Cardinality(SlotsOf(Host))
        BY <1>4, <1>10, <4>1, NotNone, BatchOthers
      <4>4. not_ack_g' = not_ack_g + n /\ not_ack_h' = not_ack_h
        BY <1>6, <3>2
      <4>5. (not_ack_g = Cardinality(SlotsOf(Guest)) + InHand(Guest) + Dist(g_new_head, g_head, M))'
        BY <1>4, <2>1, <2>2, <2>3, <2>4, <2>6, <4>2, <4>4
      <4>6. (not_ack_h = Cardinality(SlotsOf(Host)) + InHand(Host))'
        BY <2>1, <2>2, <4>3, <4>4
      <4>7. not_ack_h \in Nat /\ not_ack_g \in Nat
        BY <2>1, <2>3, <2>4
      <4>8. (not_ack_g = 0 \/ not_ack_h = 0)'
        <5>1. CASE n = 0
          BY <2>1, <4>4, <4>7, <5>1
        <5>2. CASE n # 0
          BY <1>4, <3>2, <4>4, <4>7, <5>2
        <5> QED
          BY <5>1, <5>2
      <4> QED
        BY <4>5, <4>6, <4>8
    <3> QED
      BY <3>1, <3>2
  <2> QED
    BY <2>5, <2>7, <2>8 DEF CountsInv
<1> QED
  BY <1>7, <1>13, <1>14, <1>15, <1>16, <1>18, <1>19, <1>20 DEF QueueInv, CommandsInv
----------------------------------------------------------------------------
(* The steps together.                                                     *)

LEMMA SubmitHostInv == ASSUME QueueInv, submit_host PROVE QueueInv'
<1>0. NumbersInv /\ LockInv
  BY DEF QueueInv
<1>1. /\ pc["host"] = "submit" /\ pc' = [pc EXCEPT !["host"] = "idle"] /\ submit
      /\ UNCHANGED comp_lock
  BY DEF submit_host, Goto, proc
<1>2. h_head' = h_head
  BY <1>1 DEF submit
<1>3. Around
  BY <1>2 DEF submit_host, Around, guestVars, gq, gc, hc, ctrl, proc
<1>4. LockInv' /\ Delivering' = Delivering /\ pc' \in [Contexts -> Places]
  BY <1>0, <1>1, <1>3, LockFrame DEF Contexts, Around
<1> QED
  BY <1>1, <1>3, <1>4, SubmitInv

LEMMA SubmitGuestInv ==
    ASSUME QueueInv, NEW c \in {"subm", "comp"}, submit_guest(c) PROVE QueueInv'
<1>0. NumbersInv /\ LockInv
  BY DEF QueueInv
<1>1. /\ pc[c] \in {"fetch", "again"} /\ submit /\ UNCHANGED comp_lock
      /\ pc' = [pc EXCEPT ![c] = IF @ = "fetch" THEN "comp" ELSE "idle"]
  BY DEF submit_guest, Fetching, proc
<1>2. h_head' = h_head
  BY <1>1 DEF submit
<1>3. Around
  BY <1>2 DEF submit_guest, Around, guestVars, gq, gc, hc, ctrl, proc
<1>4. PICK to \in {"idle", "comp"} : pc' = [pc EXCEPT ![c] = to]
  BY <1>1
<1>5. LockInv' /\ Delivering' = Delivering /\ pc' \in [Contexts -> Places]
  BY <1>0, <1>1, <1>3, <1>4, LockFrame DEF Contexts, Around
<1> QED
  BY <1>1, <1>3, <1>5, SubmitInv

LEMMA StutterInv == ASSUME QueueInv, UNCHANGED vars PROVE QueueInv'
<1>1. Idle /\ UNCHANGED <<pc, comp_lock, creq, cent>>
  BY DEF vars, guestVars, gq, gc, queues, slots, counts, hq, hc, ctrl, proc, Idle
<1>2. LockInv /\ creq \in Int /\ cent \in Entry /\ pc \in [Contexts -> Places]
  BY DEF QueueInv, NumbersInv
<1>3. Delivering' = Delivering /\ LockInv'
  BY <1>1, <1>2 DEF Delivering, LockInv, Idle
<1>4. creq' = creq /\ creq' \in Int /\ cent' \in Entry /\ pc' \in [Contexts -> Places]
  BY <1>1, <1>2
<1> QED
  BY <1>1, <1>3, <1>4, IdleInv

LEMMA QueueNextInv == QueueInv /\ [Next]_vars => QueueInv'
<1> SUFFICES ASSUME QueueInv, [Next]_vars PROVE QueueInv'
  OBVIOUS
<1>1. CASE register_host
  BY <1>1, RegisterHostInv
<1>2. CASE submit_host
  BY <1>2, SubmitHostInv
<1>3. CASE ring_sq
  BY <1>3, RingSqInv
<1>4. CASE ring_cq
  BY <1>4, RingCqInv
<1>5. CASE interrupt
  BY <1>5, MoveInv
<1>6. ASSUME NEW c \in {"subm", "comp"}, Driver(c) PROVE QueueInv'
  <2>1. CASE fetch(c)
    BY <2>1, FetchInv
  <2>a. CASE move_tail(c)
    BY <2>a, MoveTailInv
  <2>2. CASE submit_guest(c)
    BY <2>2, SubmitGuestInv
  <2>3. CASE lock_comp_queue(c) \/ nvme_free_request(c) \/ lock_subm_queue(c)
    BY <2>3, MoveInv
  <2>4. CASE get_request(c)
    BY <2>4, GetRequestInv
  <2>5. CASE deliver(c)
    BY <2>5, DeliverInv
  <2>6. CASE show_first(c)
    BY <2>6, ShowFirstInv
  <2> QED
    BY <1>6, <2>1, <2>a, <2>2, <2>3, <2>4, <2>5, <2>6 DEF Driver
<1>7. CASE issue
  BY <1>7, IssueInv
<1>8. CASE take_answer
  BY <1>8, TakeAnswerInv
<1>9. CASE ctrl_fetch
  BY <1>9, CtrlFetchInv
<1>10. CASE ctrl_complete
  BY <1>10, CtrlCompleteInv
<1>11. CASE UNCHANGED vars
  BY <1>11, StutterInv
<1> QED
  BY <1>1, <1>2, <1>3, <1>4, <1>5, <1>6, <1>7, <1>8, <1>9, <1>10, <1>11 DEF Next

(* The inductive invariant holds in every state of the queue pair.         *)
THEOREM QueueInvariance == Spec => []QueueInv
<1>1. Init => QueueInv
  BY QueueInitInv
<1>2. QueueInv /\ [Next]_vars => QueueInv'
  BY QueueNextInv
<1> QED
  BY <1>1, <1>2, PTL DEF Spec

(* A command of the guest is answered at most once, and not before the     *)
(* controller has completed it, however the completions, the doorbells and *)
(* the interrupts come.                                                    *)
THEOREM NvmeAnsweredOnce == Spec => []AnsweredOnce
<1>1. QueueInv => AnsweredOnce
  <2> SUFFICES ASSUME QueueInv, NEW k \in Guest
               PROVE  answered[k] <= 1 /\ (answered[k] = 1 => k \in executed)
    BY DEF AnsweredOnce
  <2>1. answered[k] \in {0, 1} /\ (answered[k] = 1 => k \in executed)
    BY DEF QueueInv, CommandsInv, AnswersInv, ExecutedInv
  <2> QED
    BY <2>1
<1> QED
  BY <1>1, QueueInvariance, PTL

(* The completion doorbell the driver writes says what the guest has       *)
(* acknowledged: between it and the head are completions of the guest's    *)
(* commands, as many as the guest has not acknowledged.                    *)
THEOREM NvmeDoorbell == Spec => []DoorbellIsGuests
<1>1. QueueInv => DoorbellIsGuests
  <2> SUFFICES ASSUME QueueInv PROVE DoorbellIsGuests
    OBVIOUS
  <2>1. last_write \in CQ /\ h_cqhead \in CQ
    BY DEF QueueInv, NumbersInv
  <2>2. Cardinality(Window(last_write, h_cqhead, M)) = Dist(last_write, h_cqhead, M)
    BY <2>1, Sizes, WindowSize DEF CQ
  <2> QED
    BY <2>2 DEF DoorbellIsGuests, QueueInv, CountsInv
<1> QED
  BY <1>1, QueueInvariance, PTL

(* The head pointers the answers carry never tell the guest that the place *)
(* of a command is free that the driver has not fetched.                   *)
THEOREM NvmeGuestRing == Spec => []GuestRingKept
<1>1. QueueInv => GuestRingKept
  <2> SUFFICES ASSUME QueueInv PROVE GuestRingKept
    OBVIOUS
  <2>1. gsqhd \in SQ /\ g_tail \in SQ /\ g_cur_tail \in SQ /\ gtail \in SQ
    BY DEF QueueInv, NumbersInv
  <2>2. Between(gsqhd, g_tail, gtail, N) /\ Between(g_tail, g_cur_tail, gtail, N)
    BY DEF QueueInv, GuestRingsInv
  <2>3. Between(gsqhd, g_cur_tail, gtail, N)
    BY <2>1, <2>2, Sizes, BetweenTrans DEF SQ
  <2> QED
    BY <2>1, <2>3, Sizes, WindowSplit DEF SQ, GuestRingKept
<1> QED
  BY <1>1, QueueInvariance, PTL

(* Every command at the controller has the identifier of the slot of its   *)
(* request, and every slot in use belongs to one command there: a          *)
(* completion is given to the request it is for.                           *)
THEOREM NvmeOwnSlots == Spec => []CommandsOwnSlots
<1>1. QueueInv => CommandsOwnSlots
  <2> SUFFICES ASSUME QueueInv PROVE CommandsOwnSlots
    OBVIOUS
  <2>0. NumbersInv /\ LockInv /\ OwnInv /\ CountsInv /\ InSlotsInv
    BY DEF QueueInv, CommandsInv
  <2> DEFINE Ring == {hsq[i] : i \in Window(c_head, c_tail, N)}
             Done == {<<hcq[i].cid, hcq[i].req>> :
                        i \in Window(h_cqhead, c_cqtail, M)
                                  \ (IF creq # None /\ pc[comp_lock] = "deliver"
                                     THEN {h_cqhead} ELSE {})}
             Used == {i \in 0..N-1 : req_slot[i] # None}
             inUse == {<<s, req_slot[s]>> : s \in Used}
  <2>1. Delivering <=> creq # None /\ pc[comp_lock] = "deliver"
    BY <2>0 DEF LockInv, Delivering, Contexts
  <2>2. Done = {<<hcq[i].cid, hcq[i].req>> : i \in Unseen} /\ Ring = {hsq[i] : i \in Unfetched}
    BY <2>1 DEF Unseen, Unfetched
  <2>3. \A e \in Int \X Int : Holds(e[1], e[2]) => e \in inUse
    BY DEF Holds, SQ
  <2>4. Ring \subseteq Int \X Int /\ inflight \subseteq Int \X Int
    <3>1. Unfetched \subseteq SQ
      BY DEF Unfetched, Window, SQ
    <3> QED
      BY <2>0, <2>2, <3>1 DEF NumbersInv
  <2>5. Ring \cup inflight \cup Done \subseteq inUse
    <3>1. Ring \subseteq inUse /\ inflight \subseteq inUse
      BY <2>0, <2>2, <2>3, <2>4 DEF OwnInv
    <3>2. Done \subseteq inUse
      BY <2>0, <2>2 DEF OwnInv, Holds, SQ
    <3> QED
      BY <3>1, <3>2
  <2>6. inUse \subseteq Ring \cup inflight \cup Done
    <3> SUFFICES ASSUME NEW s \in SQ, req_slot[s] # None
                 PROVE  <<s, req_slot[s]>> \in Ring \cup inflight \cup Done
      BY DEF SQ
    <3> HIDE DEF Ring, Done, inUse, Used
    <3>1. ASSUME NEW i \in Unfetched, hsq[i][1] = s PROVE <<s, req_slot[s]>> \in Ring
      <4>1. hsq[i] \in Ring /\ hsq[i][2] = req_slot[s]
        BY <2>0, <2>2, <3>1 DEF OwnInv, Holds
      <4>2. hsq[i] = <<hsq[i][1], hsq[i][2]>>
        BY <2>4, <4>1
      <4> QED
        BY <3>1, <4>1, <4>2
    <3>2. ASSUME NEW e \in inflight, e[1] = s PROVE <<s, req_slot[s]>> \in inflight
      <4>1. e[2] = req_slot[s]
        BY <2>0, <3>2 DEF OwnInv, Holds
      <4>2. e = <<e[1], e[2]>>
        BY <2>4
      <4> QED
        BY <3>2, <4>1, <4>2
    <3>3. ASSUME NEW j \in Unseen, hcq[j].cid = s PROVE <<s, req_slot[s]>> \in Done
      BY <2>0, <2>2, <3>3 DEF OwnInv, Holds
    <3> QED
      BY <2>0, <3>1, <3>2, <3>3 DEF OwnInv
  <2>7. Cardinality(inUse) = n_slots_used
    <3>1. Used = SlotsOf(Guest \cup Host)
      <4>1. \A s \in SQ : req_slot[s] # None <=> req_slot[s] \in Guest \cup Host
        BY <2>0, SubmittedBound, NotNone DEF InSlotsInv
      <4> QED
        BY <4>1 DEF SlotsOf, SQ
    <3> DEFINE f == [s \in Used |-> <<s, req_slot[s]>>]
    <3>2. IsFiniteSet(Used)
      BY <3>1, SlotsFinite
    <3>3. /\ f \in [Used -> inUse] /\ \A s, t \in Used : f[s] = f[t] => s = t
          /\ \A u \in inUse : \E s \in Used : f[s] = u
      OBVIOUS
    <3> HIDE DEF f, Used, inUse
    <3>4. Cardinality(inUse) = Cardinality(Used)
      BY <3>2, <3>3, SameSize
    <3> QED
      BY <2>0, <3>1, <3>4 DEF CountsInv
  <2>8. Ring \cup inflight \cup Done = inUse
    BY <2>5, <2>6
  <2> QED
    BY <2>7, <2>8 DEF CommandsOwnSlots
<1> QED
  BY <1>1, QueueInvariance, PTL
=============================================================================

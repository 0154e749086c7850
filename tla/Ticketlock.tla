----------------------------- MODULE Ticketlock -----------------------------
(***************************************************************************)
(* The ticket lock of include/core/x86/spinlock.h, which thread_lock is.   *)
(* A locked instruction is one step.  A ticket is taken with a compare and *)
(* exchange that is repeated when another processor was faster; the lock   *)
(* is then awaited by comparing now_serving with it.  Both counters wrap.  *)
(***************************************************************************)
EXTENDS Integers, FiniteSets, FiniteSetsExt

CONSTANTS
    Cpus,
    WRAP            \* 2^32, the range of next_ticket and now_serving

ASSUME TicketAssumption ==
    /\ IsFiniteSet(Cpus)
    /\ WRAP \in Nat /\ Cardinality(Cpus) < WRAP

VARIABLES
    next_ticket, now_serving,
    eax,            \* the register the instructions compare with
    pc

vars == <<next_ticket, now_serving, eax, pc>>

u32 == 0 .. WRAP - 1
Inc(n) == (n + 1) % WRAP

\* ticketlock_init
Init ==
    /\ next_ticket = 0
    /\ now_serving = 0
    /\ eax = [c \in Cpus |-> 0]
    /\ pc = [c \in Cpus |-> "out"]

\* The first cmpxchg only reads next_ticket into eax.
load(c) ==
    /\ pc[c] = "out"
    /\ eax' = [eax EXCEPT ![c] = next_ticket]
    /\ pc' = [pc EXCEPT ![c] = "take"]
    /\ UNCHANGED <<next_ticket, now_serving>>

\* Mutant: the ticket is stored without comparing.
take_Blind(c) ==
    /\ pc[c] = "take"
    /\ next_ticket' = Inc(eax[c])
    /\ pc' = [pc EXCEPT ![c] = "wait"]
    /\ UNCHANGED <<now_serving, eax>>

\* The second one takes the ticket in eax, or reads a newer one.
take(c) ==
    /\ pc[c] = "take"
    /\ IF next_ticket = eax[c]
       THEN /\ next_ticket' = Inc(eax[c])
            /\ pc' = [pc EXCEPT ![c] = "wait"]
            /\ UNCHANGED eax
       ELSE /\ eax' = [eax EXCEPT ![c] = next_ticket]
            /\ UNCHANGED <<next_ticket, pc>>
    /\ UNCHANGED now_serving

\* Mutant: whoever looks first gets a lock that nobody holds.
served_Barge(c) == \A x \in Cpus : pc[x] # "in"
served(c) == now_serving = eax[c]

wait(c) ==
    /\ pc[c] = "wait"
    /\ served(c)
    /\ pc' = [pc EXCEPT ![c] = "in"]
    /\ UNCHANGED <<next_ticket, now_serving, eax>>

ticketlock_unlock(c) ==
    /\ pc[c] = "in"
    /\ now_serving' = Inc(now_serving)
    /\ pc' = [pc EXCEPT ![c] = "out"]
    /\ UNCHANGED <<next_ticket, eax>>

Step(c) == load(c) \/ take(c) \/ wait(c) \/ ticketlock_unlock(c)
Next == \E c \in Cpus : Step(c)

Spec == Init /\ [][Next]_vars
----------------------------------------------------------------------------
TypeOK ==
    /\ next_ticket \in u32 /\ now_serving \in u32
    /\ eax \in [Cpus -> u32]
    /\ pc \in [Cpus -> {"out", "take", "wait", "in"}]

(* Only one processor is between ticketlock_lock and ticketlock_unlock,    *)
(* also when the counters wrap.                                            *)
MutualExclusion == \A c1, c2 \in Cpus : pc[c1] = "in" /\ pc[c2] = "in" => c1 = c2

\* The processors with a ticket, in the order now_serving will come to them.
Ticketed == {c \in Cpus : pc[c] \in {"wait", "in"}}
Ahead(c) == (eax[c] - now_serving) % WRAP
Queue == [i \in 1 .. Cardinality(Ticketed) |-> CHOOSE c \in Ticketed : Ahead(c) = i - 1]

(* The lock is given in the order in which the tickets were taken.         *)
Fifo == INSTANCE FifoMutex
          WITH queue <- Queue, holders <- {c \in Cpus : pc[c] = "in"}
FirstComeFirstServed == Fifo!Spec
----------------------------------------------------------------------------
(* A processor goes on spinning and leaves its critical section.           *)
Fairness == \A c \in Cpus : WF_vars(wait(c)) /\ WF_vars(ticketlock_unlock(c))
FairSpec == Spec /\ Fairness

(* Who has a ticket gets the lock.  (Taking the ticket may be overtaken    *)
(* for ever: take(c) can always find a newer next_ticket.)                 *)
TicketIsServed == \A c \in Cpus : pc[c] = "wait" ~> pc[c] = "in"
=============================================================================

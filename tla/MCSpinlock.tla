----------------------------- MODULE MCSpinlock -----------------------------
(* One lock of each kind of spinlock.h, used independently of each other:  *)
(* a ticket lock with counters of two bits, so that every ticket is used   *)
(* again and again, and a reader-writer lock with a word of three bits.    *)
EXTENDS Ticketlock

CONSTANT SIGN
VARIABLES l, rwpc
rwvars == <<l, rwpc>>
rw == INSTANCE RwSpinlock WITH pc <- rwpc
ASSUME RwBits == rw!RwAssumption

LocksInit == Init /\ rw!Init
LocksNext ==
    \/ Next /\ UNCHANGED rwvars
    \/ rw!Next /\ UNCHANGED vars
both == <<next_ticket, now_serving, eax, pc, l, rwpc>>

\* The fairness of the two modules.
LocksFairness == \A c \in Cpus :
    /\ WF_both((wait(c) \/ ticketlock_unlock(c)) /\ UNCHANGED rwvars)
    /\ WF_both((rw!rw_spinlock_wait_sh(c) \/ rw!rw_spinlock_unlock_ex(c)) /\ UNCHANGED vars)
LocksSpec == LocksInit /\ [][LocksNext]_both /\ LocksFairness

(* RwSpinlock: a writer excludes everybody.                                *)
WriterAlone == rw!WriterAlone
(* RwSpinlock: a waiting reader gets the lock.                             *)
ReaderGetsLock == rw!ReaderGetsLock
=============================================================================

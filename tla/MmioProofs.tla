----------------------------- MODULE MmioProofs -----------------------------
(***************************************************************************)
(* Proofs about the hooks of Mmio, for every number of processors, handles *)
(* and buckets, all ranges and accesses and every depth of locking.        *)
(***************************************************************************)
EXTENDS Mmio, CoreTheorems

\* The lock word agrees with what the processors have of the lock.
RwInv == RwLock(Cpus, SIGN, l, lk)

Exclusive == {"register", "unreg_ex", "sweep_start", "sweep", "sweep_next"}
Calling == {"register", "unreg_ex", "unreg_mark", "unreg_flag"}

(* What a processor at place a has of the lock, k, and how many calls of   *)
(* mmio_lock, n; r is where mmio_register or mmio_unregister returns to.   *)
Fits(a, r, k, n) ==
    LET home == IF a \in Calling THEN r ELSE a IN
    /\ a \in Exclusive <=> k = "ex"
    /\ home \in {"walk", "handler", "served"} => k = "sh"
    /\ home \in {"exit", "relocked"} => k \in {"sh", "wait_sh"}
    /\ home \in {"guest", "unlocked"} => k \in {"out", "ex"}
    /\ home = "guest" => n = 0
    /\ home \in {"exit", "walk", "handler", "served", "unlocked", "relocked"} => n > 0
    /\ a \in {"unlock_test", "unlock_try"} => k = IF n = 0 THEN "out" ELSE "sh"
    /\ a \in {"sweep_start", "sweep", "sweep_next"} => n = 0
    /\ a \in {"register", "unreg_ex"} => r \in {"guest", "unlocked"}

LockTypes ==
    /\ lock_count \in [Cpus -> 0..NEST]
    /\ at \in [Cpus -> Where] /\ ret \in [Cpus -> {"guest", "unlocked", "handler"}]

(* The lock is a reader-writer lock, and every processor has of it what    *)
(* its place in the code says.                                             *)
LockInv ==
    /\ LockTypes
    /\ RwInv
    /\ \A c \in Cpus : Fits(at[c], ret[c], lk[c], lock_count[c])
----------------------------------------------------------------------------
\* A writer excludes everybody.
LEMMA Alone ==
    ASSUME LockInv, NEW c \in Cpus, lk[c] = "ex"
    PROVE  \A d \in Cpus : d # c => lk[d] \notin {"sh", "ex"}
  BY DEF LockInv, RwInv, RwLock

\* What the lock word can count.
LEMMA RwBitsFacts == IsFiniteSet(Cpus) /\ SIGN \in Nat /\ Cardinality(Cpus) < SIGN
  BY RwBits DEF rw!RwAssumption, rw!IsFiniteSet, rw!Cardinality, IsFiniteSet, Cardinality

\* What the lock operations do keeps the lock a lock.
LEMMA RwStep ==
    ASSUME RwInv, NEW c \in Cpus,
           \/ rw!rw_spinlock_lock_sh(c) \/ rw!rw_spinlock_wait_sh(c)
           \/ rw!rw_spinlock_unlock_sh(c)
           \/ rw!rw_spinlock_lock_ex(c) \/ rw!rw_spinlock_unlock_ex(c)
           \/ UNCHANGED lock
    PROVE  RwInv'
<1>1. RwLock(Cpus, SIGN, l, lk)
  BY DEF RwInv
<1>2. /\ lk[c] = "out" => RwLock(Cpus, SIGN, (l + 1) % (2 * SIGN),
                                 [lk EXCEPT ![c] = IF l >= SIGN THEN "wait_sh" ELSE "sh"])
      /\ lk[c] = "wait_sh" /\ ~(l >= SIGN) => RwLock(Cpus, SIGN, l, [lk EXCEPT ![c] = "sh"])
      /\ lk[c] = "sh" => RwLock(Cpus, SIGN, (l - 1) % (2 * SIGN), [lk EXCEPT ![c] = "out"])
      /\ lk[c] = "out" /\ l = 0 => RwLock(Cpus, SIGN, SIGN, [lk EXCEPT ![c] = "ex"])
      /\ lk[c] = "ex" => RwLock(Cpus, SIGN, l % SIGN, [lk EXCEPT ![c] = "out"])
  BY <1>1, RwBitsFacts, RwOperations
<1> QED
  BY <1>1, <1>2 DEF RwInv, lock, rw!Goto, rw!Negative, rw!Idle, rw!WithoutWriter,
     rw!rw_spinlock_lock_sh, rw!rw_spinlock_wait_sh, rw!rw_spinlock_unlock_sh,
     rw!rw_spinlock_lock_ex, rw!rw_spinlock_unlock_ex

\* What they do to the share of the processor that makes them and of others.
LEMMA RwFacts ==
    ASSUME LockInv, NEW c \in Cpus
    PROVE  /\ rw!rw_spinlock_lock_sh(c) =>
                 /\ lk[c] = "out" /\ lk'[c] \in {"sh", "wait_sh"}
                 /\ \A d \in Cpus : d # c => lk'[d] = lk[d]
           /\ rw!rw_spinlock_wait_sh(c) =>
                 /\ lk[c] = "wait_sh" /\ lk'[c] = "sh"
                 /\ \A d \in Cpus : d # c => lk'[d] = lk[d]
           /\ rw!rw_spinlock_unlock_sh(c) =>
                 /\ lk[c] = "sh" /\ lk'[c] = "out"
                 /\ \A d \in Cpus : d # c => lk'[d] = lk[d]
           /\ rw!rw_spinlock_lock_ex(c) =>
                 /\ lk[c] = "out" /\ lk'[c] = "ex"
                 /\ \A d \in Cpus : d # c => lk'[d] = lk[d]
           /\ rw!rw_spinlock_unlock_ex(c) =>
                 /\ lk[c] = "ex" /\ lk'[c] = "out"
                 /\ \A d \in Cpus : d # c => lk'[d] = lk[d]
           /\ UNCHANGED lock => lk' = lk
<1>1. lk \in [Cpus -> {"out", "wait_sh", "sh", "ex"}]
  BY DEF LockInv, RwInv, RwLock
<1> QED
  BY <1>1 DEF lock, rw!Goto, rw!rw_spinlock_lock_sh, rw!rw_spinlock_wait_sh,
              rw!rw_spinlock_unlock_sh, rw!rw_spinlock_lock_ex, rw!rw_spinlock_unlock_ex

\* A step of processor c.
LEMMA StepFits ==
    ASSUME LockInv, NEW c \in Cpus, LockTypes', RwInv',
           \A d \in Cpus : d # c => /\ at'[d] = at[d] /\ ret'[d] = ret[d]
                                    /\ lk'[d] = lk[d] /\ lock_count'[d] = lock_count[d],
           Fits(at'[c], ret'[c], lk'[c], lock_count'[c])
    PROVE  LockInv'
  BY DEF LockInv

\* Every step leaves each processor with what its place says.
LEMMA LockStep ==
    ASSUME LockInv, NEW c \in Cpus,
           Locking(c) \/ Walking(c) \/ Changing(c) \/ Sweeping(c)
    PROVE  LockInv'
<1>1. /\ lock_count \in [Cpus -> 0..NEST] /\ at \in [Cpus -> Where]
      /\ ret \in [Cpus -> {"guest", "unlocked", "handler"}]
      /\ RwInv
      /\ lk \in [Cpus -> {"out", "wait_sh", "sh", "ex"}]
      /\ Fits(at[c], ret[c], lk[c], lock_count[c])
      /\ NEST \in Nat
  BY MmioAssumption DEF LockInv, LockTypes, RwInv, RwLock
<1>2. CASE mmio_lock(c)
  <2>1. RwInv'
    BY <1>1, <1>2, RwStep DEF mmio_lock
  <2>2. LockTypes'
    BY <1>1, <1>2 DEF LockTypes, mmio_lock, Goto, Where, Fits, Exclusive, Calling
  <2>3. \A d \in Cpus : d # c => /\ at'[d] = at[d] /\ ret'[d] = ret[d]
                                 /\ lk'[d] = lk[d] /\ lock_count'[d] = lock_count[d]
    BY <1>1, <1>2, RwFacts DEF mmio_lock, Goto, lock
  <2>4. Fits(at'[c], ret'[c], lk'[c], lock_count'[c])
    BY <1>1, <1>2, RwFacts DEF mmio_lock, Goto, Where, Holds, Fits, Exclusive, Calling
  <2> QED
    BY <2>1, <2>2, <2>3, <2>4, StepFits
<1>3. CASE wait_sh(c)
  <2>1. RwInv'
    BY <1>1, <1>3, RwStep DEF wait_sh
  <2>2. LockTypes'
    BY <1>1, <1>3 DEF LockTypes, wait_sh, Goto, Where, Fits, Exclusive, Calling
  <2>3. \A d \in Cpus : d # c => /\ at'[d] = at[d] /\ ret'[d] = ret[d]
                                 /\ lk'[d] = lk[d] /\ lock_count'[d] = lock_count[d]
    BY <1>1, <1>3, RwFacts DEF wait_sh, Goto, lock
  <2>4. Fits(at'[c], ret'[c], lk'[c], lock_count'[c])
    BY <1>1, <1>3, RwFacts DEF wait_sh, Goto, Where, Holds, Fits, Exclusive, Calling
  <2> QED
    BY <2>1, <2>2, <2>3, <2>4, StepFits
<1>4. CASE mmio_unlock(c)
  <2>1. RwInv'
    BY <1>1, <1>4, RwStep DEF mmio_unlock
  <2>2. LockTypes'
    BY <1>1, <1>4 DEF LockTypes, mmio_unlock, Goto, Where, Fits, Exclusive, Calling, LastUnlock
  <2>3. \A d \in Cpus : d # c => /\ at'[d] = at[d] /\ ret'[d] = ret[d]
                                 /\ lk'[d] = lk[d] /\ lock_count'[d] = lock_count[d]
    BY <1>1, <1>4, RwFacts DEF mmio_unlock, Goto, lock
  <2>4. Fits(at'[c], ret'[c], lk'[c], lock_count'[c])
    BY <1>1, <1>4, RwFacts DEF mmio_unlock, Goto, Where, Holds, Fits, Exclusive, Calling, LastUnlock
  <2> QED
    BY <2>1, <2>2, <2>3, <2>4, StepFits
<1>5. CASE unlock_test(c)
  <2>1. RwInv'
    BY <1>1, <1>5, RwStep DEF unlock_test
  <2>2. LockTypes'
    BY <1>1, <1>5 DEF LockTypes, unlock_test, Goto, Where, Fits, Exclusive, Calling, After
  <2>3. \A d \in Cpus : d # c => /\ at'[d] = at[d] /\ ret'[d] = ret[d]
                                 /\ lk'[d] = lk[d] /\ lock_count'[d] = lock_count[d]
    BY <1>1, <1>5, RwFacts DEF unlock_test, Goto, lock
  <2>4. Fits(at'[c], ret'[c], lk'[c], lock_count'[c])
    BY <1>1, <1>5, RwFacts DEF unlock_test, Goto, Where, Holds, Fits, Exclusive, Calling, After
  <2> QED
    BY <2>1, <2>2, <2>3, <2>4, StepFits
<1>6. CASE unlock_try(c)
  <2>1. RwInv'
    BY <1>1, <1>6, RwStep DEF unlock_try, try_ex
  <2>2. LockTypes'
    BY <1>1, <1>6 DEF LockTypes, unlock_try, Goto, Where, Fits, Exclusive, Calling, After, try_ex
  <2>3. \A d \in Cpus : d # c => /\ at'[d] = at[d] /\ ret'[d] = ret[d]
                                 /\ lk'[d] = lk[d] /\ lock_count'[d] = lock_count[d]
    BY <1>1, <1>6, RwFacts DEF unlock_try, Goto, lock, try_ex
  <2>4. Fits(at'[c], ret'[c], lk'[c], lock_count'[c])
    BY <1>1, <1>6, RwFacts DEF unlock_try, Goto, Where, Holds, Fits, Exclusive, Calling, After, try_ex
  <2> QED
    BY <2>1, <2>2, <2>3, <2>4, StepFits
<1>7. CASE access(c)
  <2>1. RwInv'
    BY <1>1, <1>7, RwStep DEF access
  <2>2. LockTypes'
    BY <1>1, <1>7 DEF LockTypes, access, Goto, Where, Fits, Exclusive, Calling
  <2>3. \A d \in Cpus : d # c => /\ at'[d] = at[d] /\ ret'[d] = ret[d]
                                 /\ lk'[d] = lk[d] /\ lock_count'[d] = lock_count[d]
    BY <1>1, <1>7, RwFacts DEF access, Goto, lock
  <2>4. Fits(at'[c], ret'[c], lk'[c], lock_count'[c])
    BY <1>1, <1>7, RwFacts DEF access, Goto, Where, Holds, Fits, Exclusive, Calling
  <2> QED
    BY <2>1, <2>2, <2>3, <2>4, StepFits
<1>8. CASE walk_skip(c)
  <2>1. RwInv'
    BY <1>1, <1>8, RwStep DEF walk_skip
  <2>2. LockTypes'
    BY <1>1, <1>8 DEF LockTypes, walk_skip, Goto, Where, Fits, Exclusive, Calling
  <2>3. \A d \in Cpus : d # c => /\ at'[d] = at[d] /\ ret'[d] = ret[d]
                                 /\ lk'[d] = lk[d] /\ lock_count'[d] = lock_count[d]
    BY <1>1, <1>8, RwFacts DEF walk_skip, Goto, lock
  <2>4. Fits(at'[c], ret'[c], lk'[c], lock_count'[c])
    BY <1>1, <1>8, RwFacts DEF walk_skip, Goto, Where, Holds, Fits, Exclusive, Calling
  <2> QED
    BY <2>1, <2>2, <2>3, <2>4, StepFits
<1>9. CASE walk_hit(c)
  <2>1. RwInv'
    BY <1>1, <1>9, RwStep DEF walk_hit
  <2>2. LockTypes'
    BY <1>1, <1>9 DEF LockTypes, walk_hit, Goto, Where, Fits, Exclusive, Calling
  <2>3. \A d \in Cpus : d # c => /\ at'[d] = at[d] /\ ret'[d] = ret[d]
                                 /\ lk'[d] = lk[d] /\ lock_count'[d] = lock_count[d]
    BY <1>1, <1>9, RwFacts DEF walk_hit, Goto, lock
  <2>4. Fits(at'[c], ret'[c], lk'[c], lock_count'[c])
    BY <1>1, <1>9, RwFacts DEF walk_hit, Goto, Where, Holds, Fits, Exclusive, Calling
  <2> QED
    BY <2>1, <2>2, <2>3, <2>4, StepFits
<1>10. CASE handler_return(c)
  <2>1. RwInv'
    BY <1>1, <1>10, RwStep DEF handler_return
  <2>2. LockTypes'
    BY <1>1, <1>10 DEF LockTypes, handler_return, Goto, Where, Fits, Exclusive, Calling
  <2>3. \A d \in Cpus : d # c => /\ at'[d] = at[d] /\ ret'[d] = ret[d]
                                 /\ lk'[d] = lk[d] /\ lock_count'[d] = lock_count[d]
    BY <1>1, <1>10, RwFacts DEF handler_return, Goto, lock
  <2>4. Fits(at'[c], ret'[c], lk'[c], lock_count'[c])
    BY <1>1, <1>10, RwFacts DEF handler_return, Goto, Where, Holds, Fits, Exclusive, Calling
  <2> QED
    BY <2>1, <2>2, <2>3, <2>4, StepFits
<1>11. CASE walk_out(c)
  <2>1. RwInv'
    BY <1>1, <1>11, RwStep DEF walk_out
  <2>2. LockTypes'
    BY <1>1, <1>11 DEF LockTypes, walk_out, Goto, Where, Fits, Exclusive, Calling
  <2>3. \A d \in Cpus : d # c => /\ at'[d] = at[d] /\ ret'[d] = ret[d]
                                 /\ lk'[d] = lk[d] /\ lock_count'[d] = lock_count[d]
    BY <1>1, <1>11, RwFacts DEF walk_out, Goto, lock
  <2>4. Fits(at'[c], ret'[c], lk'[c], lock_count'[c])
    BY <1>1, <1>11, RwFacts DEF walk_out, Goto, Where, Holds, Fits, Exclusive, Calling
  <2> QED
    BY <2>1, <2>2, <2>3, <2>4, StepFits
<1>12. CASE unlocked_return(c)
  <2>1. RwInv'
    BY <1>1, <1>12, RwStep DEF unlocked_return
  <2>2. LockTypes'
    BY <1>1, <1>12 DEF LockTypes, unlocked_return, Goto, Where, Fits, Exclusive, Calling
  <2>3. \A d \in Cpus : d # c => /\ at'[d] = at[d] /\ ret'[d] = ret[d]
                                 /\ lk'[d] = lk[d] /\ lock_count'[d] = lock_count[d]
    BY <1>1, <1>12, RwFacts DEF unlocked_return, Goto, lock
  <2>4. Fits(at'[c], ret'[c], lk'[c], lock_count'[c])
    BY <1>1, <1>12, RwFacts DEF unlocked_return, Goto, Where, Holds, Fits, Exclusive, Calling
  <2> QED
    BY <2>1, <2>2, <2>3, <2>4, StepFits
<1>13. CASE access_return(c)
  <2>1. RwInv'
    BY <1>1, <1>13, RwStep DEF access_return
  <2>2. LockTypes'
    BY <1>1, <1>13 DEF LockTypes, access_return, Goto, Where, Fits, Exclusive, Calling
  <2>3. \A d \in Cpus : d # c => /\ at'[d] = at[d] /\ ret'[d] = ret[d]
                                 /\ lk'[d] = lk[d] /\ lock_count'[d] = lock_count[d]
    BY <1>1, <1>13, RwFacts DEF access_return, Goto, lock
  <2>4. Fits(at'[c], ret'[c], lk'[c], lock_count'[c])
    BY <1>1, <1>13, RwFacts DEF access_return, Goto, Where, Holds, Fits, Exclusive, Calling
  <2> QED
    BY <2>1, <2>2, <2>3, <2>4, StepFits
<1>14. CASE mmio_register(c)
  <2>1. RwInv'
    BY <1>1, <1>14, RwStep DEF mmio_register
  <2>2. LockTypes'
    BY <1>1, <1>14 DEF LockTypes, mmio_register, Goto, Where, Fits, Exclusive, Calling
  <2>3. \A d \in Cpus : d # c => /\ at'[d] = at[d] /\ ret'[d] = ret[d]
                                 /\ lk'[d] = lk[d] /\ lock_count'[d] = lock_count[d]
    BY <1>1, <1>14, RwFacts DEF mmio_register, Goto, lock
  <2>4. Fits(at'[c], ret'[c], lk'[c], lock_count'[c])
    BY <1>1, <1>14, RwFacts DEF mmio_register, Goto, Where, Holds, Fits, Exclusive, Calling
  <2> QED
    BY <2>1, <2>2, <2>3, <2>4, StepFits
<1>15. CASE registered(c)
  <2>1. RwInv'
    BY <1>1, <1>15, RwStep DEF registered
  <2>2. LockTypes'
    BY <1>1, <1>15 DEF LockTypes, registered, Goto, Where, Fits, Exclusive, Calling
  <2>3. \A d \in Cpus : d # c => /\ at'[d] = at[d] /\ ret'[d] = ret[d]
                                 /\ lk'[d] = lk[d] /\ lock_count'[d] = lock_count[d]
    BY <1>1, <1>15, RwFacts DEF registered, Goto, lock
  <2>4. Fits(at'[c], ret'[c], lk'[c], lock_count'[c])
    BY <1>1, <1>15, RwFacts DEF registered, Goto, Where, Holds, Fits, Exclusive, Calling
  <2> QED
    BY <2>1, <2>2, <2>3, <2>4, StepFits
<1>16. CASE register_fail(c)
  <2>1. RwInv'
    BY <1>1, <1>16, RwStep DEF register_fail
  <2>2. LockTypes'
    BY <1>1, <1>16 DEF LockTypes, register_fail, Goto, Where, Fits, Exclusive, Calling
  <2>3. \A d \in Cpus : d # c => /\ at'[d] = at[d] /\ ret'[d] = ret[d]
                                 /\ lk'[d] = lk[d] /\ lock_count'[d] = lock_count[d]
    BY <1>1, <1>16, RwFacts DEF register_fail, Goto, lock
  <2>4. Fits(at'[c], ret'[c], lk'[c], lock_count'[c])
    BY <1>1, <1>16, RwFacts DEF register_fail, Goto, Where, Holds, Fits, Exclusive, Calling
  <2> QED
    BY <2>1, <2>2, <2>3, <2>4, StepFits
<1>17. CASE mmio_unregister(c)
  <2>1. RwInv'
    BY <1>1, <1>17, RwStep DEF mmio_unregister, try_ex
  <2>2. LockTypes'
    BY <1>1, <1>17 DEF LockTypes, mmio_unregister, Goto, Where, Fits, Exclusive, Calling, try_ex
  <2>3. \A d \in Cpus : d # c => /\ at'[d] = at[d] /\ ret'[d] = ret[d]
                                 /\ lk'[d] = lk[d] /\ lock_count'[d] = lock_count[d]
    BY <1>1, <1>17, RwFacts DEF mmio_unregister, Goto, lock, try_ex
  <2>4. Fits(at'[c], ret'[c], lk'[c], lock_count'[c])
    BY <1>1, <1>17, RwFacts DEF mmio_unregister, Goto, Where, Holds, Fits, Exclusive, Calling, try_ex
  <2> QED
    BY <2>1, <2>2, <2>3, <2>4, StepFits
<1>18. CASE unregister_now(c)
  <2>1. RwInv'
    BY <1>1, <1>18, RwStep DEF unregister_now
  <2>2. LockTypes'
    BY <1>1, <1>18 DEF LockTypes, unregister_now, Goto, Where, Fits, Exclusive, Calling
  <2>3. \A d \in Cpus : d # c => /\ at'[d] = at[d] /\ ret'[d] = ret[d]
                                 /\ lk'[d] = lk[d] /\ lock_count'[d] = lock_count[d]
    BY <1>1, <1>18, RwFacts DEF unregister_now, Goto, lock
  <2>4. Fits(at'[c], ret'[c], lk'[c], lock_count'[c])
    BY <1>1, <1>18, RwFacts DEF unregister_now, Goto, Where, Holds, Fits, Exclusive, Calling
  <2> QED
    BY <2>1, <2>2, <2>3, <2>4, StepFits
<1>19. CASE unregister_mark(c)
  <2>1. RwInv'
    BY <1>1, <1>19, RwStep DEF unregister_mark
  <2>2. LockTypes'
    BY <1>1, <1>19 DEF LockTypes, unregister_mark, Goto, Where, Fits, Exclusive, Calling
  <2>3. \A d \in Cpus : d # c => /\ at'[d] = at[d] /\ ret'[d] = ret[d]
                                 /\ lk'[d] = lk[d] /\ lock_count'[d] = lock_count[d]
    BY <1>1, <1>19, RwFacts DEF unregister_mark, Goto, lock
  <2>4. Fits(at'[c], ret'[c], lk'[c], lock_count'[c])
    BY <1>1, <1>19, RwFacts DEF unregister_mark, Goto, Where, Holds, Fits, Exclusive, Calling
  <2> QED
    BY <2>1, <2>2, <2>3, <2>4, StepFits
<1>20. CASE unregister_flagged(c)
  <2>1. RwInv'
    BY <1>1, <1>20, RwStep DEF unregister_flagged
  <2>2. LockTypes'
    BY <1>1, <1>20 DEF LockTypes, unregister_flagged, Goto, Where, Fits, Exclusive, Calling
  <2>3. \A d \in Cpus : d # c => /\ at'[d] = at[d] /\ ret'[d] = ret[d]
                                 /\ lk'[d] = lk[d] /\ lock_count'[d] = lock_count[d]
    BY <1>1, <1>20, RwFacts DEF unregister_flagged, Goto, lock
  <2>4. Fits(at'[c], ret'[c], lk'[c], lock_count'[c])
    BY <1>1, <1>20, RwFacts DEF unregister_flagged, Goto, Where, Holds, Fits, Exclusive, Calling
  <2> QED
    BY <2>1, <2>2, <2>3, <2>4, StepFits
<1>21. CASE sweep_start(c)
  <2>1. RwInv'
    BY <1>1, <1>21, RwStep DEF sweep_start
  <2>2. LockTypes'
    BY <1>1, <1>21 DEF LockTypes, sweep_start, Goto, Where, Fits, Exclusive, Calling
  <2>3. \A d \in Cpus : d # c => /\ at'[d] = at[d] /\ ret'[d] = ret[d]
                                 /\ lk'[d] = lk[d] /\ lock_count'[d] = lock_count[d]
    BY <1>1, <1>21, RwFacts DEF sweep_start, Goto, lock
  <2>4. Fits(at'[c], ret'[c], lk'[c], lock_count'[c])
    BY <1>1, <1>21, RwFacts DEF sweep_start, Goto, Where, Holds, Fits, Exclusive, Calling
  <2> QED
    BY <2>1, <2>2, <2>3, <2>4, StepFits
<1>22. CASE sweep_keep(c)
  <2>1. RwInv'
    BY <1>1, <1>22, RwStep DEF sweep_keep
  <2>2. LockTypes'
    BY <1>1, <1>22 DEF LockTypes, sweep_keep, Goto, Where, Fits, Exclusive, Calling
  <2>3. \A d \in Cpus : d # c => /\ at'[d] = at[d] /\ ret'[d] = ret[d]
                                 /\ lk'[d] = lk[d] /\ lock_count'[d] = lock_count[d]
    BY <1>1, <1>22, RwFacts DEF sweep_keep, Goto, lock
  <2>4. Fits(at'[c], ret'[c], lk'[c], lock_count'[c])
    BY <1>1, <1>22, RwFacts DEF sweep_keep, Goto, Where, Holds, Fits, Exclusive, Calling
  <2> QED
    BY <2>1, <2>2, <2>3, <2>4, StepFits
<1>23. CASE sweep_free(c)
  <2>1. RwInv'
    BY <1>1, <1>23, RwStep DEF sweep_free
  <2>2. LockTypes'
    BY <1>1, <1>23 DEF LockTypes, sweep_free, Goto, Where, Fits, Exclusive, Calling
  <2>3. \A d \in Cpus : d # c => /\ at'[d] = at[d] /\ ret'[d] = ret[d]
                                 /\ lk'[d] = lk[d] /\ lock_count'[d] = lock_count[d]
    BY <1>1, <1>23, RwFacts DEF sweep_free, Goto, lock
  <2>4. Fits(at'[c], ret'[c], lk'[c], lock_count'[c])
    BY <1>1, <1>23, RwFacts DEF sweep_free, Goto, Where, Holds, Fits, Exclusive, Calling
  <2> QED
    BY <2>1, <2>2, <2>3, <2>4, StepFits
<1>24. CASE sweep_next(c)
  <2>1. RwInv'
    BY <1>1, <1>24, RwStep DEF sweep_next
  <2>2. LockTypes'
    BY <1>1, <1>24 DEF LockTypes, sweep_next, Goto, Where, Fits, Exclusive, Calling
  <2>3. \A d \in Cpus : d # c => /\ at'[d] = at[d] /\ ret'[d] = ret[d]
                                 /\ lk'[d] = lk[d] /\ lock_count'[d] = lock_count[d]
    BY <1>1, <1>24, RwFacts DEF sweep_next, Goto, lock
  <2>4. Fits(at'[c], ret'[c], lk'[c], lock_count'[c])
    BY <1>1, <1>24, RwFacts DEF sweep_next, Goto, Where, Holds, Fits, Exclusive, Calling
  <2> QED
    BY <2>1, <2>2, <2>3, <2>4, StepFits
<1>25. CASE sweep_end(c)
  <2>1. RwInv'
    BY <1>1, <1>25, RwStep DEF sweep_end
  <2>2. LockTypes'
    BY <1>1, <1>25 DEF LockTypes, sweep_end, Goto, Where, Fits, Exclusive, Calling, After
  <2>3. \A d \in Cpus : d # c => /\ at'[d] = at[d] /\ ret'[d] = ret[d]
                                 /\ lk'[d] = lk[d] /\ lock_count'[d] = lock_count[d]
    BY <1>1, <1>25, RwFacts DEF sweep_end, Goto, lock
  <2>4. Fits(at'[c], ret'[c], lk'[c], lock_count'[c])
    BY <1>1, <1>25, RwFacts DEF sweep_end, Goto, Where, Holds, Fits, Exclusive, Calling, After
  <2> QED
    BY <2>1, <2>2, <2>3, <2>4, StepFits
<1>26. CASE unlocked_call(c)
  <2>1. RwInv'
    BY <1>1, <1>26, RwStep DEF unlocked_call
  <2>2. LockTypes'
    BY <1>1, <1>26 DEF LockTypes, unlocked_call, Goto, Where, Fits, Exclusive, Calling
  <2>3. \A d \in Cpus : d # c => /\ at'[d] = at[d] /\ ret'[d] = ret[d]
                                 /\ lk'[d] = lk[d] /\ lock_count'[d] = lock_count[d]
    BY <1>1, <1>26, RwFacts DEF unlocked_call, Goto, lock
  <2>4. Fits(at'[c], ret'[c], lk'[c], lock_count'[c])
    BY <1>1, <1>26, RwFacts DEF unlocked_call, Goto, Where, Holds, Fits, Exclusive, Calling
  <2> QED
    BY <2>1, <2>2, <2>3, <2>4, StepFits
<1> QED
  BY <1>2, <1>3, <1>4, <1>5, <1>6, <1>7, <1>8, <1>9, <1>10, <1>11, <1>12, <1>13, <1>14, <1>15,
     <1>16, <1>17, <1>18, <1>19, <1>20, <1>21, <1>22, <1>23, <1>24, <1>25, <1>26
     DEF Locking, Walking, Changing, Sweeping
----------------------------------------------------------------------------
DataTypes ==
    /\ handle \in Seq(Handles) /\ mmio \in [Buckets -> Seq(Handles)]
    /\ mem \in [Handles -> Chunk \cup {None}]
    /\ unregister_flag \in BOOLEAN /\ owned \subseteq Handles
    /\ un \in [Cpus -> Handles \cup {None}] /\ nxt \in [Cpus -> Handles \cup {None}]

Registered(h) == h \in Handles /\ mem[h] # None /\ ~mem[h].unregistered
Unregistering == {"unreg_ex", "unreg_mark"}

(* A handle has one owner until it is unregistered: its client, or the one *)
(* processor that unregisters it for the client.                           *)
OwnInv ==
    /\ \A h \in owned : Registered(h)
    /\ \A c \in Cpus : at[c] \in Unregistering => Registered(un[c]) /\ un[c] \notin owned
    /\ \A c, d \in Cpus : c # d /\ at[c] \in Unregistering /\ at[d] \in Unregistering
            => un[c] # un[d]

(* The sweep's pointer and the link it saved are on the list, or NULL.     *)
SweepInv ==
    /\ \A c \in Cpus : at[c] = "sweep" => un[c] \in Elems(handle) \cup {None}
    /\ \A c \in Cpus : at[c] = "sweep_next" => nxt[c] \in Elems(handle) \cup {None}

DataInv == DataTypes /\ OwnInv /\ SweepInv /\ BucketsIndexHandles
----------------------------------------------------------------------------
\* The keys by which the bucket lists are sorted.
Keys == [h \in Handles |-> IF mem[h] = None THEN 0 ELSE mem[h].gphys]

\* The buckets a chunk's range meets.
BucketsOf(x) == BucketOf(x.gphys)..BucketOf(x.gphys + x.len - 1)

\* What BucketsIndexHandles says of the list s of bucket i.
Indexed(i, s) ==
    /\ s \in Seq(Handles) /\ IsList(s)
    /\ Elems(s) = {h \in Handles : mem[h] # None /\ i \in BucketsOf(mem[h])}
    /\ SortedBy(s, Keys)

\* The key of a list is the address of the handle.
LEMMA KeyTypes == ASSUME DataTypes PROVE Keys \in [Handles -> Int]
  BY MmioAssumption DEF DataTypes, Keys, Chunk

Index ==
    /\ IsList(handle) /\ Elems(handle) = {h \in Handles : mem[h] # None}
    /\ \A i \in Buckets : Indexed(i, mmio[i])

\* The property of the run, bucket by bucket.
LEMMA IndexForms == DataTypes => (BucketsIndexHandles <=> Index)
<1> SUFFICES ASSUME DataTypes PROVE BucketsIndexHandles <=> Index
  OBVIOUS
<1>1. ASSUME NEW s \in Seq(Handles), \A h \in Elems(s) : mem[h] # None
      PROVE  SortedBy(s, Keys) <=> \A i, j \in 1 .. Len(s) : i < j => mem[s[i]].gphys <= mem[s[j]].gphys
  <2>1. \A i \in 1 .. Len(s) : s[i] \in Handles /\ mem[s[i]] # None
    BY <1>1, ElemsFacts, LenProperties
  <2>2. \A i \in 1 .. Len(s) : Keys[s[i]] = mem[s[i]].gphys
    BY <2>1 DEF Keys
  <2> QED
    BY <2>2 DEF SortedBy
<1>2. ASSUME IsList(handle), Elems(handle) = {h \in Handles : mem[h] # None}, NEW i \in Buckets
      PROVE  Indexed(i, mmio[i]) <=>
                /\ IsList(mmio[i])
                /\ Elems(mmio[i]) = {h \in Elems(handle) :
                    i \in BucketOf(mem[h].gphys)..BucketOf(mem[h].gphys + mem[h].len - 1)}
                /\ \A j, k \in 1 .. Len(mmio[i]) : j < k => mem[mmio[i][j]].gphys <= mem[mmio[i][k]].gphys
  <2>1. mmio[i] \in Seq(Handles)
    BY DEF DataTypes
  <2>2. {h \in Elems(handle) : i \in BucketOf(mem[h].gphys)..BucketOf(mem[h].gphys + mem[h].len - 1)}
            = {h \in Handles : mem[h] # None /\ i \in BucketsOf(mem[h])}
    BY <1>2 DEF BucketsOf
  <2> QED
    BY <2>1, <2>2, <1>1 DEF Indexed
<1> QED
  BY <1>2 DEF BucketsIndexHandles, IsSorted, Index

\* The same in the next state.
LEMMA IndexFormsNext == DataTypes' => (BucketsIndexHandles' <=> Index')
  BY IndexForms, PTL

\* The place add looks for keeps the list sorted.
LEMMA PlaceFacts ==
    ASSUME DataTypes, NEW i \in Buckets, NEW s \in Seq(Handles), Indexed(i, s), NEW g \in Nat
    PROVE  /\ AddPlace(s, g) \in 1 .. Len(s) + 1
           /\ \A j \in 1 .. AddPlace(s, g) - 1 : Keys[s[j]] <= g
           /\ AddPlace(s, g) \in 1 .. Len(s) => g <= Keys[s[AddPlace(s, g)]]
<1> DEFINE after == {k \in DOMAIN s : mem[s[k]].gphys > g}
<1>1. Len(s) \in Nat /\ DOMAIN s = 1 .. Len(s)
  BY LenProperties
<1>2. \A j \in 1 .. Len(s) : Keys[s[j]] = mem[s[j]].gphys /\ Keys[s[j]] \in Int
  BY <1>1, ElemsFacts, KeyTypes DEF Indexed, Keys
<1>3. CASE after = {}
  <2>1. AddPlace(s, g) = Len(s) + 1
    BY <1>3 DEF AddPlace
  <2>2. \A j \in 1 .. Len(s) : ~(mem[s[j]].gphys > g)
    BY <1>1, <1>3
  <2> QED
    BY <1>1, <1>2, <2>1, <2>2
<1>4. CASE after # {}
  <2>1. after \subseteq Nat
    BY <1>1
  <2>2. \E k \in after : \A j \in after : k <= j
    BY <1>4, <2>1, LeastExists
  <2>3. /\ AddPlace(s, g) \in after
        /\ \A j \in after : AddPlace(s, g) <= j
    BY <1>4, <2>2 DEF AddPlace
  <2>4. \A j \in 1 .. Len(s) : j < AddPlace(s, g) => ~(mem[s[j]].gphys > g)
    BY <1>1, <2>3
  <2> QED
    BY <1>1, <1>2, <2>3, <2>4
<1> QED
  BY <1>3, <1>4
\* A list that holds the right handles stays an index of bucket i when the
\* chunks it does not hold change and the others keep their range.
LEMMA SameIndex ==
    ASSUME DataTypes, mem' \in [Handles -> Chunk \cup {None}], 
           NEW i \in Buckets, NEW s \in Seq(Handles), Indexed(i, s),
           \A h \in Handles : \/ mem'[h] = mem[h]
                              \/ /\ mem[h] # None /\ mem'[h] # None
                                 /\ mem'[h].gphys = mem[h].gphys /\ mem'[h].len = mem[h].len
    PROVE  Indexed(i, s)'
<1>1. {h \in Handles : mem[h] # None /\ i \in BucketsOf(mem[h])}'
        = {h \in Handles : mem[h] # None /\ i \in BucketsOf(mem[h])}
  BY DEF BucketsOf
<1>2. Keys' = Keys
  BY DEF Keys
<1> QED
  BY <1>1, <1>2 DEF Indexed

\* add: the new handle is put on the lists of the buckets its range meets.
LEMMA AddIndex ==
    ASSUME DataTypes, mem' \in [Handles -> Chunk \cup {None}],
           NEW h \in Handles, mem[h] = None, NEW r \in Ranges,
           NEW i \in Buckets, Indexed(i, mmio[i]),
           mem'[h] # None, mem'[h].gphys = r.gphys, mem'[h].len = r.len,
           \A x \in Handles : x # h => mem'[x] = mem[x]
    PROVE  add(h, r)[i] \in Seq(Handles) /\ (mmio'[i] = add(h, r)[i] => Indexed(i, mmio[i])')
<1> DEFINE s == mmio[i]
           k == AddPlace(s, r.gphys)
           t == LIST1_INSERT(s, k, h)
<1>1. /\ s \in Seq(Handles) /\ IsList(s) /\ SortedBy(s, Keys)
      /\ Elems(s) = {x \in Handles : mem[x] # None /\ i \in BucketsOf(mem[x])}
      /\ h \notin Elems(s)
      /\ r.gphys \in Nat
  BY MmioAssumption DEF Indexed, DataTypes
<1>2. \A x \in Elems(s) : Keys'[x] = Keys[x]
  BY <1>1 DEF Keys
<1>3. Len(s) \in Nat /\ \A j \in 1 .. Len(s) : s[j] \in Elems(s)
  BY <1>1, ElemsFacts, LenProperties
<1>4. SortedBy(s, Keys')
  BY <1>1, <1>2, <1>3 DEF SortedBy
<1>5. i \in BucketsOf(mem'[h]) <=> i \in scan(r.gphys, r.len)
  BY DEF BucketsOf, scan
<1>6. CASE i \in scan(r.gphys, r.len)
  <2>1. add(h, r)[i] = t
    BY <1>6 DEF add
  <2>2. /\ k \in 1 .. Len(s) + 1
        /\ \A j \in 1 .. k - 1 : Keys[s[j]] <= r.gphys
        /\ k \in 1 .. Len(s) => r.gphys <= Keys[s[k]]
    BY <1>1, PlaceFacts
  <2> HIDE DEF k
  <2>3. t \in Seq(Handles) /\ IsList(t) /\ Elems(t) = Elems(s) \cup {h}
    BY <1>1, <2>2, InsertFacts
  <2>4. Keys' \in [Handles -> Int] /\ Keys'[h] = r.gphys
    BY KeyTypes, MmioAssumption DEF Keys, DataTypes, Chunk
  <2>5. /\ \A j \in 1 .. k - 1 : Keys'[s[j]] <= Keys'[h]
        /\ k \in 1 .. Len(s) => Keys'[h] <= Keys'[s[k]]
    <3>1. \A j \in 1 .. Len(s) : Keys'[s[j]] = Keys[s[j]]
      BY <1>2, <1>3
    <3> HIDE DEF s
    <3>2. \A j \in 1 .. k - 1 : j \in 1 .. Len(s)
      BY <1>3, <2>2
    <3> QED
      BY <2>2, <2>4, <3>1, <3>2
  <2> DEFINE K == Keys'
  <2>6. SortedBy(s, K) /\ K \in [Handles -> Int]
    BY <1>4, <2>4
  <2>7. /\ \A j \in 1 .. k - 1 : K[s[j]] <= K[h]
        /\ k \in 1 .. Len(s) => K[h] <= K[s[k]]
    BY <2>5
  <2> HIDE DEF K, s
  <2>8. SortedBy(t, K)
    BY <1>1, <2>2, <2>6, <2>7, InsertSorted
  <2> USE DEF K, s
  <2>9. Elems(t) = {x \in Handles : mem'[x] # None /\ i \in BucketsOf(mem'[x])}
    BY <1>1, <1>5, <1>6, <2>3
  <2> HIDE DEF t, s
  <2> QED
    BY <2>1, <2>3, <2>8, <2>9 DEF Indexed, K
<1>7. CASE i \notin scan(r.gphys, r.len)
  <2>1. add(h, r)[i] = s
    BY <1>7 DEF add
  <2>2. Elems(s) = {x \in Handles : mem'[x] # None /\ i \in BucketsOf(mem'[x])}
    BY <1>1, <1>5, <1>7
  <2> HIDE DEF s
  <2> QED
    BY <1>1, <1>4, <2>1, <2>2 DEF Indexed
<1> QED
  BY <1>6, <1>7

\* del: a handle is taken from every list it is on.
LEMMA DelIndex ==
    ASSUME DataTypes, mem' \in [Handles -> Chunk \cup {None}],
           NEW h \in Handles, mem[h] # None,
           NEW i \in Buckets, Indexed(i, mmio[i]),
           mem'[h] = None, \A x \in Handles : x # h => mem'[x] = mem[x]
    PROVE  del(h)[i] \in Seq(Handles) /\ (mmio'[i] = del(h)[i] => Indexed(i, mmio[i])')
<1> DEFINE s == mmio[i]
           t == LIST1_DEL(s, h)
<1>1. /\ s \in Seq(Handles) /\ IsList(s) /\ SortedBy(s, Keys)
      /\ Elems(s) = {x \in Handles : mem[x] # None /\ i \in BucketsOf(mem[x])}
  BY DEF Indexed, DataTypes
<1>2. \A x \in Handles : x # h => Keys'[x] = Keys[x]
  BY <1>1 DEF Keys
<1>3. i \in BucketsOf(mem[h]) <=> i \in scan(mem[h].gphys, mem[h].len)
  BY DEF BucketsOf, scan
<1>4. ASSUME NEW q \in Seq(Handles), SortedBy(q, Keys), h \notin Elems(q)
      PROVE  SortedBy(q, Keys')
  <2>1. Len(q) \in Nat /\ \A j \in 1 .. Len(q) : q[j] \in Elems(q) /\ q[j] \in Handles
    BY <1>4, ElemsFacts, LenProperties
  <2> QED
    BY <1>2, <1>4, <2>1 DEF SortedBy
<1>5. CASE h \in Elems(s)
  <2>1. del(h)[i] = t
    BY <1>1, <1>3, <1>5 DEF del
  <2>2. t \in Seq(Handles) /\ IsList(t) /\ Elems(t) = Elems(s) \ {h}
    BY <1>1, <1>5, DelFacts
  <2> DEFINE K == Keys
  <2> HIDE DEF K, s
  <2>3. SortedBy(t, K)
    BY <1>1, <1>5, DelSorted DEF K
  <2> USE DEF K, s
  <2>4. SortedBy(t, Keys')
    BY <1>4, <2>2, <2>3
  <2>5. Elems(t) = {x \in Handles : mem'[x] # None /\ i \in BucketsOf(mem'[x])}
    BY <1>1, <2>2
  <2> HIDE DEF t, s
  <2> QED
    BY <2>1, <2>2, <2>4, <2>5 DEF Indexed
<1>6. CASE h \notin Elems(s)
  <2>1. del(h)[i] = s
    BY <1>1, <1>6 DEF del
  <2>2. SortedBy(s, Keys')
    BY <1>1, <1>4, <1>6
  <2>3. Elems(s) = {x \in Handles : mem'[x] # None /\ i \in BucketsOf(mem'[x])}
    BY <1>1, <1>6
  <2> HIDE DEF s
  <2> QED
    BY <1>1, <2>1, <2>2, <2>3 DEF Indexed
<1> QED
  BY <1>5, <1>6
----------------------------------------------------------------------------
\* Steps that leave the handles, their owners and the sweep alone.
LEMMA QuietData ==
    ASSUME DataInv, UNCHANGED <<handle, mmio, mem, owned, un, nxt>>,
           unregister_flag' \in BOOLEAN,
           \A d \in Cpus : at'[d] \in Unregistering \cup {"sweep", "sweep_next"} => at'[d] = at[d]
    PROVE  DataInv'
<1>1. DataTypes'
  BY DEF DataInv, DataTypes
<1>2. OwnInv'
  BY DEF DataInv, OwnInv, Registered, Unregistering
<1>3. SweepInv'
  BY DEF DataInv, SweepInv
<1>4. BucketsIndexHandles'
  BY DEF DataInv, BucketsIndexHandles, IsSorted, IsList, IsInjective
<1> QED
  BY <1>1, <1>2, <1>3, <1>4 DEF DataInv

\* Nobody else sweeps or discards while a processor has the lock exclusively.
LEMMA OthersOut ==
    ASSUME LockInv, NEW c \in Cpus, at[c] \in Exclusive
    PROVE  \A d \in Cpus : d # c => at[d] \notin Exclusive
<1>1. \A d \in Cpus : Fits(at[d], ret[d], lk[d], lock_count[d])
  BY DEF LockInv
<1>2. lk[c] = "ex"
  BY <1>1 DEF Fits
<1>3. \A d \in Cpus : d # c => lk[d] # "ex"
  BY <1>2, Alone
<1> QED
  BY <1>1, <1>3 DEF Fits

\* mmio_register: the new handle is on the lists and its client owns it.
LEMMA RegisteredData ==
    ASSUME LockInv, DataInv, NEW c \in Cpus, registered(c)
    PROVE  DataInv'
<1>1. PICK r \in Ranges, h \in {h \in Handles : mem[h] = None} :
        /\ mem' = [mem EXCEPT ![h] = [gphys |-> r.gphys, len |-> r.len,
                       unlocked |-> r.unlocked, unregistered |-> FALSE]]
        /\ handle' = LIST1_ADD(handle, h)
        /\ mmio' = add(h, r)
        /\ owned' = owned \cup {h}
  BY DEF registered
<1>2. /\ at' = [at EXCEPT ![c] = ret[c]] /\ un' = un /\ nxt' = nxt
      /\ unregister_flag' = unregister_flag
      /\ at[c] = "register" /\ at \in [Cpus -> Where]
      /\ ret[c] \in {"guest", "unlocked", "handler"}
  BY DEF registered, LockInv, LockTypes
<1>3. DataTypes /\ OwnInv /\ SweepInv /\ BucketsIndexHandles
  BY DEF DataInv
<1>4. [gphys |-> r.gphys, len |-> r.len, unlocked |-> r.unlocked, unregistered |-> FALSE] \in Chunk
  BY MmioAssumption DEF Chunk
<1>5. /\ mem' \in [Handles -> Chunk \cup {None}]
      /\ mem'[h] # None /\ mem'[h].gphys = r.gphys /\ mem'[h].len = r.len
      /\ ~mem'[h].unregistered
      /\ \A x \in Handles : x # h => mem'[x] = mem[x]
  BY <1>1, <1>3, <1>4, MmioAssumption DEF DataTypes
<1>6. /\ IsList(handle) /\ Elems(handle) = {x \in Handles : mem[x] # None}
      /\ \A i \in Buckets : Indexed(i, mmio[i])
  BY <1>3, IndexForms DEF Index
<1>7. /\ handle' \in Seq(Handles) /\ IsList(handle')
      /\ Elems(handle') = Elems(handle) \cup {h}
  BY <1>1, <1>3, <1>6, AddFacts DEF DataTypes
<1>8. \A i \in Buckets : add(h, r)[i] \in Seq(Handles) /\ (mmio'[i] = add(h, r)[i] => Indexed(i, mmio[i])')
  BY <1>1, <1>3, <1>5, <1>6, AddIndex
<1>9. DataTypes'
  <2>1. mmio' \in [Buckets -> Seq(Handles)]
    BY <1>1, <1>8 DEF add
  <2> QED
    BY <1>1, <1>2, <1>3, <1>5, <1>7, <2>1 DEF DataTypes
<1>10. BucketsIndexHandles'
  <2>1. Elems(handle') = {x \in Handles : mem'[x] # None}
    BY <1>5, <1>6, <1>7
  <2>2. \A i \in Buckets : Indexed(i, mmio[i])'
    BY <1>1, <1>8
  <2> QED
    BY <1>7, <1>9, <2>1, <2>2, IndexFormsNext DEF Index
<1>11. \A d \in Cpus : at'[d] \in Unregistering \cup {"sweep", "sweep_next"} => at'[d] = at[d]
  BY <1>2 DEF Unregistering
<1>12. \A x \in Handles : Registered(x) => x # h /\ Registered(x)'
  BY <1>1, <1>5 DEF Registered
<1>13. OwnInv'
  <2>1. \A x \in owned' : Registered(x)'
    BY <1>1, <1>3, <1>5, <1>12 DEF OwnInv, Registered
  <2>2. ASSUME NEW d \in Cpus, at'[d] \in Unregistering
        PROVE  Registered(un[d])' /\ un'[d] \notin owned'
    <3>1. Registered(un[d]) /\ un[d] \notin owned /\ un[d] \in Handles
      BY <1>3, <1>11, <2>2 DEF OwnInv, Registered
    <3>2. un[d] # h /\ Registered(un[d])' /\ un'[d] = un[d]
      BY <1>2, <1>12, <3>1 DEF Registered
    <3> QED
      BY <1>1, <1>2, <3>1, <3>2
  <2>3. \A d, e \in Cpus : d # e /\ at'[d] \in Unregistering /\ at'[e] \in Unregistering
            => un'[d] # un'[e]
    BY <1>2, <1>3, <1>11 DEF OwnInv
  <2> QED
    BY <2>1, <2>2, <2>3 DEF OwnInv
<1>14. SweepInv'
  BY <1>2, <1>3, <1>7, <1>11 DEF SweepInv
<1> QED
  BY <1>9, <1>10, <1>13, <1>14 DEF DataInv

\* Discard: the handle leaves the lists and its chunk is free.
LEMMA DiscardData ==
    ASSUME DataTypes, BucketsIndexHandles, NEW h \in Handles, mem[h] # None, Discard(h)
    PROVE  /\ handle' \in Seq(Handles) /\ mmio' \in [Buckets -> Seq(Handles)]
           /\ mem' \in [Handles -> Chunk \cup {None}]
           /\ Elems(handle') = Elems(handle) \ {h}
           /\ mem'[h] = None
           /\ \A x \in Handles : x # h => mem'[x] = mem[x]
           /\ DataTypes' => BucketsIndexHandles'
<1>1. /\ mem' \in [Handles -> Chunk \cup {None}] /\ mem'[h] = None
      /\ \A x \in Handles : x # h => mem'[x] = mem[x]
  BY DEF DataTypes, Discard
<1>2. /\ IsList(handle) /\ Elems(handle) = {x \in Handles : mem[x] # None}
      /\ \A i \in Buckets : Indexed(i, mmio[i])
  BY IndexForms DEF Index
<1>3. /\ handle' \in Seq(Handles) /\ IsList(handle')
      /\ Elems(handle') = Elems(handle) \ {h}
  BY <1>2, DelFacts DEF DataTypes, Discard
<1>4. \A i \in Buckets : del(h)[i] \in Seq(Handles) /\ (mmio'[i] = del(h)[i] => Indexed(i, mmio[i])')
  BY <1>1, <1>2, DelIndex
<1>5. mmio' = del(h)
  BY DEF Discard
<1>6. mmio' \in [Buckets -> Seq(Handles)]
  BY <1>4, <1>5 DEF del
<1>7. Elems(handle') = {x \in Handles : mem'[x] # None}
  BY <1>1, <1>2, <1>3
<1>8. DataTypes' => BucketsIndexHandles'
  BY <1>3, <1>4, <1>5, <1>7, IndexFormsNext DEF Index
<1> QED
  BY <1>1, <1>3, <1>6, <1>8

\* mmio_unregister: the client's handle passes to the processor.
LEMMA UnregisterData ==
    ASSUME LockInv, DataInv, NEW c \in Cpus, mmio_unregister(c)
    PROVE  DataInv'
<1>1. PICK p \in owned : owned' = owned \ {p} /\ un' = [un EXCEPT ![c] = p]
  BY DEF mmio_unregister
<1>2. /\ UNCHANGED <<handle, mmio, mem, unregister_flag, nxt>>
      /\ \E w \in Unregistering : at' = [at EXCEPT ![c] = w]
      /\ at \in [Cpus -> Where] /\ at[c] \in {"guest", "unlocked", "handler"}
  BY DEF mmio_unregister, lists, Unregistering, LockInv, LockTypes
<1>3. DataTypes /\ OwnInv /\ SweepInv /\ BucketsIndexHandles
  BY DEF DataInv
<1>4. /\ un'[c] = p /\ at'[c] \in Unregistering /\ at[c] \notin Unregistering
      /\ \A d \in Cpus : d # c => un'[d] = un[d] /\ at'[d] = at[d]
  BY <1>1, <1>2, <1>3 DEF DataTypes, Unregistering
<1>5. DataTypes'
  BY <1>1, <1>2, <1>3 DEF DataTypes
<1>6. \A x : Registered(x) => Registered(x)'
  BY <1>2 DEF Registered
<1>7. \A d \in Cpus : at'[d] \in Unregistering => Registered(un[d])' /\ un'[d] \notin owned'
  BY <1>1, <1>3, <1>4, <1>6 DEF OwnInv, Registered
<1>8. \A d, e \in Cpus : d # e /\ at'[d] \in Unregistering /\ at'[e] \in Unregistering
            => un'[d] # un'[e]
  BY <1>1, <1>3, <1>4 DEF OwnInv
<1>9. OwnInv'
  <2>1. \A x \in owned' : Registered(x)'
    BY <1>1, <1>3, <1>6 DEF OwnInv
  <2> QED
    BY <1>7, <1>8, <2>1 DEF OwnInv
<1>10. SweepInv'
  BY <1>2, <1>3, <1>4 DEF SweepInv, Unregistering
<1>11. BucketsIndexHandles'
  BY <1>2, <1>3 DEF BucketsIndexHandles, IsSorted, IsList, IsInjective
<1> QED
  BY <1>5, <1>9, <1>10, <1>11 DEF DataInv

\* mmio_unregister with the lock: the handle is discarded at once.
LEMMA UnregisterNowData ==
    ASSUME LockInv, DataInv, NEW c \in Cpus, unregister_now(c)
    PROVE  DataInv'
<1> DEFINE p == un[c]
<1>1. /\ at[c] = "unreg_ex" /\ at' = [at EXCEPT ![c] = ret[c]] /\ Discard(p)
      /\ un' = [un EXCEPT ![c] = None]
      /\ UNCHANGED <<unregister_flag, owned, nxt>>
      /\ at \in [Cpus -> Where] /\ ret[c] \in {"guest", "unlocked", "handler"}
  BY DEF unregister_now, Goto, LockInv, LockTypes
<1>2. DataTypes /\ OwnInv /\ SweepInv /\ BucketsIndexHandles
  BY DEF DataInv
<1>3. Registered(p) /\ p \notin owned /\ p \in Handles /\ mem[p] # None
  BY <1>1, <1>2 DEF OwnInv, Unregistering, Registered
<1> HIDE DEF p
<1>4. /\ handle' \in Seq(Handles) /\ mmio' \in [Buckets -> Seq(Handles)]
      /\ mem' \in [Handles -> Chunk \cup {None}]
      /\ Elems(handle') = Elems(handle) \ {p}
      /\ \A x \in Handles : x # p => mem'[x] = mem[x]
      /\ DataTypes' => BucketsIndexHandles'
  BY <1>1, <1>2, <1>3, DiscardData
<1>5. DataTypes'
  BY <1>1, <1>2, <1>4 DEF DataTypes
<1>6. \A d \in Cpus : d # c => un'[d] = un[d] /\ at'[d] = at[d] /\ at[d] \notin {"sweep", "sweep_next"}
  BY <1>1, <1>2, OthersOut DEF DataTypes, Exclusive
<1>7. at'[c] \notin Unregistering \cup {"sweep", "sweep_next"}
  BY <1>1 DEF Unregistering
<1>8. \A x : Registered(x) /\ x # p => Registered(x)'
  BY <1>4 DEF Registered
<1>9. OwnInv'
  <2>1. \A x \in owned' : Registered(x)'
    BY <1>1, <1>2, <1>3, <1>8 DEF OwnInv
  <2>2. \A d \in Cpus : at'[d] \in Unregistering => Registered(un[d])' /\ un'[d] \notin owned'
    BY <1>1, <1>2, <1>6, <1>7, <1>8 DEF OwnInv, Unregistering, p
  <2>3. \A d, e \in Cpus : d # e /\ at'[d] \in Unregistering /\ at'[e] \in Unregistering
            => un'[d] # un'[e]
    BY <1>2, <1>6, <1>7 DEF OwnInv
  <2> QED
    BY <2>1, <2>2, <2>3 DEF OwnInv
<1>10. SweepInv'
  BY <1>6, <1>7 DEF SweepInv
<1> QED
  BY <1>4, <1>5, <1>9, <1>10 DEF DataInv

\* mmio_unregister without the lock: the handle is marked.
LEMMA MarkData ==
    ASSUME LockInv, DataInv, NEW c \in Cpus, unregister_mark(c)
    PROVE  DataInv'
<1> DEFINE p == un[c]
<1>1. /\ at[c] = "unreg_mark" /\ at' = [at EXCEPT ![c] = "unreg_flag"]
      /\ mem' = [mem EXCEPT ![p].unregistered = TRUE]
      /\ un' = [un EXCEPT ![c] = None]
      /\ UNCHANGED <<handle, mmio, unregister_flag, owned, nxt>>
      /\ at \in [Cpus -> Where]
  BY DEF unregister_mark, Goto, LockInv, LockTypes
<1>2. DataTypes /\ OwnInv /\ SweepInv /\ BucketsIndexHandles
  BY DEF DataInv
<1>3. Registered(p) /\ p \notin owned /\ p \in Handles /\ mem[p] # None
  BY <1>1, <1>2 DEF OwnInv, Unregistering, Registered
<1> HIDE DEF p
<1>4. mem[p] \in Chunk
  BY <1>2, <1>3 DEF DataTypes
<1>5. /\ mem'[p] = [mem[p] EXCEPT !.unregistered = TRUE]
      /\ \A x \in Handles : x # p => mem'[x] = mem[x]
  BY <1>1, <1>2, <1>3 DEF DataTypes
<1>6. /\ mem'[p] \in Chunk
      /\ mem'[p].gphys = mem[p].gphys /\ mem'[p].len = mem[p].len
  BY <1>4, <1>5 DEF Chunk
<1>7. mem'[p] # None
  BY <1>6, MmioAssumption
<1>8. mem' \in [Handles -> Chunk \cup {None}]
  <2>1. \A x \in Handles : mem'[x] \in Chunk \cup {None}
    BY <1>2, <1>5, <1>6 DEF DataTypes
  <2>2. DOMAIN mem' = Handles /\ mem' = [x \in Handles |-> mem'[x]]
    BY <1>1, <1>2 DEF DataTypes
  <2> QED
    BY <2>1, <2>2
<1>9. DataTypes'
  BY <1>1, <1>2, <1>8 DEF DataTypes
<1>10. \A d \in Cpus : d # c => un'[d] = un[d] /\ at'[d] = at[d]
  BY <1>1, <1>2 DEF DataTypes
<1>11. at'[c] = "unreg_flag"
  BY <1>1
<1>12. \A x : Registered(x) /\ x # p => Registered(x)'
  BY <1>5 DEF Registered
<1>13. OwnInv'
  <2>1. \A x \in owned' : Registered(x)'
    BY <1>1, <1>2, <1>3, <1>12 DEF OwnInv
  <2>2. \A d \in Cpus : at'[d] \in Unregistering => Registered(un[d])' /\ un'[d] \notin owned'
    BY <1>1, <1>2, <1>10, <1>11, <1>12 DEF OwnInv, Unregistering, p
  <2>3. \A d, e \in Cpus : d # e /\ at'[d] \in Unregistering /\ at'[e] \in Unregistering
            => un'[d] # un'[e]
    BY <1>2, <1>10, <1>11 DEF OwnInv, Unregistering
  <2> QED
    BY <2>1, <2>2, <2>3 DEF OwnInv
<1>14. SweepInv'
  BY <1>1, <1>2, <1>10, <1>11 DEF SweepInv
<1>15. BucketsIndexHandles'
  <2>1. Index
    BY <1>2, IndexForms
  <2>2. ASSUME NEW i \in Buckets PROVE Indexed(i, mmio[i])'
    <3>1. PICK q \in Seq(Handles) : Indexed(i, q) /\ mmio'[i] = q
      BY <1>1, <1>2, <2>1 DEF DataTypes, Index
    <3>2. Indexed(i, q)'
      BY <1>2, <1>3, <1>5, <1>6, <1>7, <1>8, <3>1, SameIndex
    <3> QED
      BY <3>1, <3>2 DEF Indexed
  <2>3. {x \in Handles : mem'[x] # None} = {x \in Handles : mem[x] # None}
    BY <1>3, <1>5, <1>7
  <2> QED
    BY <1>1, <1>9, <2>1, <2>2, <2>3, IndexFormsNext DEF Index
<1> QED
  BY <1>9, <1>13, <1>14, <1>15 DEF DataInv
----------------------------------------------------------------------------
\* An element of a list is at one place.
LEMMA PlaceIsIndex ==
    ASSUME NEW S, NEW s \in Seq(S), IsList(s), NEW i \in 1 .. Len(s)
    PROVE  s[i] \in Elems(s) /\ IndexOf(s, s[i]) = i
<1>1. Len(s) \in Nat /\ DOMAIN s = 1 .. Len(s)
  BY LenProperties
<1>2. s[i] \in Elems(s)
  BY <1>1, ElemsFacts
<1>3. IndexOf(s, s[i]) \in 1 .. Len(s) /\ s[IndexOf(s, s[i])] = s[i]
  BY <1>2, IndexOfFacts
<1> QED
  BY <1>1, <1>2, <1>3 DEF IsList, IsInjective

\* The next pointer leads to the next place.
LEMMA SuccessorFacts ==
    ASSUME NEW S, NEW s \in Seq(S), IsList(s), NEW p \in Elems(s)
    PROVE  IF IndexOf(s, p) = Len(s) THEN Successor(s, p) = None
           ELSE /\ Successor(s, p) \in Elems(s) \ {p}
                /\ IndexOf(s, Successor(s, p)) = IndexOf(s, p) + 1
<1> DEFINE i == IndexOf(s, p)
<1>1. Len(s) \in Nat /\ i \in 1 .. Len(s)
  BY LenProperties, IndexOfFacts
<1> HIDE DEF i
<1>2. CASE i = Len(s)
  BY <1>2 DEF Successor, i
<1>3. CASE i # Len(s)
  <2>1. i + 1 \in 1 .. Len(s)
    BY <1>1, <1>3
  <2>2. Successor(s, p) = s[i + 1]
    BY <1>3 DEF Successor, i
  <2>3. s[i + 1] \in Elems(s) /\ IndexOf(s, s[i + 1]) = i + 1
    BY <2>1, PlaceIsIndex
  <2>4. s[i + 1] # p
    BY <1>1, <2>3 DEF i
  <2> QED
    BY <1>3, <2>2, <2>3, <2>4 DEF i
<1> QED
  BY <1>2, <1>3 DEF i

\* Unlinking an element moves those behind it up by one place.
LEMMA DelIndexOf ==
    ASSUME NEW S, NEW s \in Seq(S), IsList(s), NEW p \in Elems(s), NEW x \in Elems(s), x # p
    PROVE  IndexOf(LIST1_DEL(s, p), x) =
             IF IndexOf(s, x) < IndexOf(s, p) THEN IndexOf(s, x) ELSE IndexOf(s, x) - 1
<1> DEFINE i == IndexOf(s, p)
           k == IndexOf(s, x)
           r == LIST1_DEL(s, p)
           j == IF k < i THEN k ELSE k - 1
<1>1. Len(s) \in Nat /\ i \in 1 .. Len(s) /\ k \in 1 .. Len(s) /\ s[i] = p /\ s[k] = x
  BY LenProperties, IndexOfFacts
<1>2. r \in Seq(S) /\ IsList(r)
  BY DelFacts
<1>3. r = RemoveAt(s, i)
  BY DEF LIST1_DEL
<1> HIDE DEF i, k, r
<1>4. /\ Len(r) = Len(s) - 1
      /\ \A n \in 1 .. Len(s) - 1 : r[n] = IF n < i THEN s[n] ELSE s[n + 1]
  BY <1>1, <1>3, RemoveAtFacts
<1>5. k # i
  BY <1>1
<1>6. j \in 1 .. Len(r) /\ r[j] = x
  BY <1>1, <1>4, <1>5
<1> HIDE DEF j
<1>7. IndexOf(r, r[j]) = j
  BY <1>2, <1>6, PlaceIsIndex
<1> QED
  BY <1>6, <1>7 DEF i, k, r, j
----------------------------------------------------------------------------
\* A step of the sweep that only moves its pointer.
LEMMA PointerData ==
    ASSUME DataInv, NEW c \in Cpus, UNCHANGED <<handle, mmio, mem, owned>>,
           unregister_flag' \in BOOLEAN, at'[c] = "sweep",
           un' \in [Cpus -> Handles \cup {None}], nxt' \in [Cpus -> Handles \cup {None}],
           \A d \in Cpus : d # c => at'[d] = at[d] /\ un'[d] = un[d] /\ nxt'[d] = nxt[d],
           un'[c] \in Elems(handle) \cup {None}
    PROVE  DataInv'
<1>1. DataTypes /\ OwnInv /\ SweepInv /\ BucketsIndexHandles
  BY DEF DataInv
<1>2. DataTypes'
  BY <1>1 DEF DataTypes
<1>3. OwnInv'
  BY <1>1 DEF OwnInv, Registered, Unregistering
<1>4. SweepInv'
  BY <1>1 DEF SweepInv
<1>5. BucketsIndexHandles'
  BY <1>1 DEF BucketsIndexHandles, IsSorted, IsList, IsInjective
<1> QED
  BY <1>2, <1>3, <1>4, <1>5 DEF DataInv

\* The sweep goes on to its next handle, which is still on the list.
LEMMA SweepPointerData ==
    ASSUME LockInv, DataInv, NEW c \in Cpus, sweep_start(c) \/ sweep_keep(c) \/ sweep_next(c)
    PROVE  DataInv'
<1>1. DataTypes /\ SweepInv /\ at \in [Cpus -> Where] /\ IsList(handle)
  BY DEF DataInv, LockInv, LockTypes, BucketsIndexHandles
<1>2. Elems(handle) \subseteq Handles
  BY <1>1, ElemsFacts DEF DataTypes
<1>3. CASE sweep_start(c)
  <2>1. (IF handle = <<>> THEN None ELSE Head(handle)) \in Elems(handle) \cup {None}
    BY <1>1, PopFacts DEF DataTypes
  <2>2. un'[c] \in Elems(handle) \cup {None} /\ un' \in [Cpus -> Handles \cup {None}]
    BY <1>1, <1>2, <1>3, <2>1 DEF sweep_start, DataTypes
  <2>3. /\ UNCHANGED <<handle, mmio, mem, owned>> /\ nxt' = nxt
        /\ unregister_flag' \in BOOLEAN /\ at'[c] = "sweep"
        /\ \A d \in Cpus : d # c => at'[d] = at[d] /\ un'[d] = un[d] /\ nxt'[d] = nxt[d]
    BY <1>1, <1>3 DEF sweep_start, Goto, clear_flag, lists, DataTypes
  <2>4. nxt' \in [Cpus -> Handles \cup {None}]
    BY <1>1, <2>3 DEF DataTypes
  <2> QED
    BY <2>2, <2>3, <2>4, PointerData
<1>4. CASE sweep_keep(c)
  <2>1. un[c] \in Elems(handle)
    BY <1>1, <1>4 DEF sweep_keep, SweepInv
  <2>2. Successor(handle, un[c]) \in Elems(handle) \cup {None}
    BY <1>1, <2>1, SuccessorFacts DEF DataTypes
  <2>3. un'[c] \in Elems(handle) \cup {None} /\ un' \in [Cpus -> Handles \cup {None}]
    BY <1>1, <1>2, <1>4, <2>2 DEF sweep_keep, DataTypes
  <2>4. /\ UNCHANGED <<handle, mmio, mem, owned>> /\ nxt' = nxt
        /\ unregister_flag' \in BOOLEAN /\ at'[c] = "sweep"
        /\ \A d \in Cpus : d # c => at'[d] = at[d] /\ un'[d] = un[d] /\ nxt'[d] = nxt[d]
    BY <1>1, <1>4 DEF sweep_keep, lists, DataTypes
  <2>5. nxt' \in [Cpus -> Handles \cup {None}]
    BY <1>1, <2>4 DEF DataTypes
  <2> QED
    BY <2>3, <2>4, <2>5, PointerData
<1>5. CASE sweep_next(c)
  <2>1. nxt[c] \in Elems(handle) \cup {None}
    BY <1>1, <1>5 DEF sweep_next, Goto, SweepInv
  <2>2. /\ un'[c] \in Elems(handle) \cup {None} /\ un' \in [Cpus -> Handles \cup {None}]
        /\ nxt' \in [Cpus -> Handles \cup {None}]
    BY <1>1, <1>2, <1>5, <2>1 DEF sweep_next, DataTypes
  <2>3. /\ UNCHANGED <<handle, mmio, mem, owned>>
        /\ unregister_flag' \in BOOLEAN /\ at'[c] = "sweep"
        /\ \A d \in Cpus : d # c => at'[d] = at[d] /\ un'[d] = un[d] /\ nxt'[d] = nxt[d]
    BY <1>1, <1>5 DEF sweep_next, Goto, lists, DataTypes
  <2> QED
    BY <2>2, <2>3, PointerData
<1> QED
  BY <1>3, <1>4, <1>5

\* The sweep frees a marked handle; nobody owns one.
LEMMA SweepFreeData ==
    ASSUME LockInv, DataInv, NEW c \in Cpus, sweep_free(c)
    PROVE  DataInv'
<1>1. PICK p : p = un[c]
  OBVIOUS
<1>2. /\ at[c] = "sweep" /\ p # None /\ mem[p].unregistered
      /\ at' = [at EXCEPT ![c] = "sweep_next"] /\ at \in [Cpus -> Where]
      /\ nxt' = [nxt EXCEPT ![c] = Successor(handle, p)] /\ Discard(p)
      /\ UNCHANGED <<unregister_flag, owned, un>>
  BY <1>1 DEF sweep_free, LockInv, LockTypes
<1>3. DataTypes /\ OwnInv /\ SweepInv /\ BucketsIndexHandles /\ IsList(handle)
  BY DEF DataInv, BucketsIndexHandles
<1>4. p \in Elems(handle) /\ p \in Handles /\ mem[p] # None /\ ~Registered(p)
  BY <1>1, <1>2, <1>3 DEF SweepInv, BucketsIndexHandles, Registered
<1>5. /\ handle' \in Seq(Handles) /\ mmio' \in [Buckets -> Seq(Handles)]
      /\ mem' \in [Handles -> Chunk \cup {None}]
      /\ Elems(handle') = Elems(handle) \ {p}
      /\ \A x \in Handles : x # p => mem'[x] = mem[x]
      /\ DataTypes' => BucketsIndexHandles'
  BY <1>2, <1>3, <1>4, DiscardData
<1>6. Successor(handle, p) \in Elems(handle') \cup {None}
  BY <1>3, <1>4, <1>5, SuccessorFacts DEF DataTypes
<1>7. nxt' \in [Cpus -> Handles \cup {None}] /\ nxt'[c] \in Elems(handle') \cup {None}
  <2>1. Elems(handle') \subseteq Handles
    BY <1>5, ElemsFacts
  <2> QED
    BY <1>2, <1>3, <1>6, <2>1 DEF DataTypes
<1>8. DataTypes'
  BY <1>2, <1>3, <1>5, <1>7 DEF DataTypes
<1>9. \A d \in Cpus : d # c => un'[d] = un[d] /\ at'[d] = at[d] /\ at[d] \notin {"sweep", "sweep_next"}
  BY <1>2, OthersOut DEF Exclusive
<1>10. at'[c] = "sweep_next"
  BY <1>2
<1>11. \A x : Registered(x) => Registered(x)'
  BY <1>4, <1>5 DEF Registered
<1>12. OwnInv'
  <2>1. \A x \in owned' : Registered(x)'
    BY <1>2, <1>3, <1>11 DEF OwnInv
  <2>2. \A d \in Cpus : at'[d] \in Unregistering => Registered(un[d])' /\ un'[d] \notin owned'
    <3> SUFFICES ASSUME NEW d \in Cpus, at'[d] \in Unregistering
                 PROVE  Registered(un[d])' /\ un'[d] \notin owned'
      OBVIOUS
    <3>1. Registered(un[d]) /\ un[d] \notin owned /\ un'[d] = un[d]
      BY <1>2, <1>3, <1>9, <1>10 DEF OwnInv, Unregistering
    <3> QED
      BY <1>2, <1>4, <1>5, <3>1 DEF Registered
  <2>3. \A d, e \in Cpus : d # e /\ at'[d] \in Unregistering /\ at'[e] \in Unregistering
            => un'[d] # un'[e]
    BY <1>3, <1>9, <1>10 DEF OwnInv, Unregistering
  <2> QED
    BY <2>1, <2>2, <2>3 DEF OwnInv
<1>13. SweepInv'
  BY <1>7, <1>9, <1>10 DEF SweepInv
<1> QED
  BY <1>5, <1>8, <1>12, <1>13 DEF DataInv

\* Every step keeps the data.
LEMMA DataStep ==
    ASSUME LockInv, DataInv, NEW c \in Cpus,
           Locking(c) \/ Walking(c) \/ Changing(c) \/ Sweeping(c)
    PROVE  DataInv'
<1>1. /\ at \in [Cpus -> Where] /\ ret \in [Cpus -> {"guest", "unlocked", "handler"}]
      /\ unregister_flag \in BOOLEAN
  BY DEF LockInv, LockTypes, DataInv, DataTypes
<1>2. CASE Locking(c)
  BY <1>1, <1>2, QuietData DEF Locking, mmio_lock, wait_sh, mmio_unlock, unlock_test, unlock_try,
     lists, Goto, After, Unregistering
<1>3. CASE Walking(c)
  BY <1>1, <1>3, QuietData DEF Walking, access, walk_skip, walk_hit, handler_return, walk_out,
     unlocked_call, unlocked_return, access_return, lists, Goto, Unregistering
<1>4. CASE mmio_register(c) \/ register_fail(c) \/ unregister_flagged(c) \/ sweep_end(c)
  BY <1>1, <1>4, QuietData DEF mmio_register, register_fail, unregister_flagged, sweep_end,
     lists, Goto, After, clear_flag, Unregistering
<1> QED
  BY <1>2, <1>3, <1>4, RegisteredData, UnregisterData, UnregisterNowData, MarkData,
     SweepPointerData, SweepFreeData DEF Changing, Sweeping
----------------------------------------------------------------------------
\* The sweep of processor d is still to come to the handle h.
Coming(d, h) ==
    /\ at[d] \in {"sweep", "sweep_next"}
    /\ LET p == IF at[d] = "sweep" THEN un[d] ELSE nxt[d]
       IN  p # None /\ IndexOf(handle, p) <= IndexOf(handle, h)

Marked(h) == h \in Elems(handle) /\ mem[h].unregistered
Noticed == unregister_flag \/ \E c \in Cpus : at[c] = "unreg_flag"

\* The property of the run, handle by handle.
LEMMA MarkForms ==
    MarkedIsSwept <=> \A h : Marked(h) => Noticed \/ \E d \in Cpus : Coming(d, h)
  BY DEF MarkedIsSwept, Marked, Noticed, Coming

\* The same in the next state.
LEMMA MarkFormsNext ==
    MarkedIsSwept' <=> (\A h : Marked(h) => Noticed \/ \E d \in Cpus : Coming(d, h))'
  BY MarkForms, PTL

\* Steps that mark nothing and leave the list, the flag and the sweep alone.
LEMMA QuietMarks ==
    ASSUME MarkedIsSwept, handle' = handle,
           \A h \in Elems(handle) : mem'[h].unregistered => mem[h].unregistered,
           unregister_flag => unregister_flag',
           \A d \in Cpus : at[d] \in {"unreg_flag", "sweep", "sweep_next"} =>
                at'[d] = at[d] /\ un'[d] = un[d] /\ nxt'[d] = nxt[d]
    PROVE  MarkedIsSwept'
<1>1. \A h : Marked(h)' => Marked(h)
  BY DEF Marked
<1>2. Noticed => Noticed'
  BY DEF Noticed
<1>3. \A h : \A d \in Cpus : Coming(d, h) => Coming(d, h)'
  BY DEF Coming
<1> QED
  BY <1>1, <1>2, <1>3, MarkForms, MarkFormsNext

\* While c has the lock exclusively, only c can be sweeping.
LEMMA OneSweeper ==
    ASSUME LockInv, NEW c \in Cpus, at[c] \in Exclusive
    PROVE  \A h : \A d \in Cpus : Coming(d, h) => d = c
  BY OthersOut DEF Coming, Exclusive

\* Every step keeps the promise that a marked handle will be swept.
LEMMA MarkStep ==
    ASSUME LockInv, DataInv, MarkedIsSwept, NEW c \in Cpus,
           Locking(c) \/ Walking(c) \/ Changing(c) \/ Sweeping(c)
    PROVE  MarkedIsSwept'
<1>1. /\ at \in [Cpus -> Where] /\ ret \in [Cpus -> {"guest", "unlocked", "handler"}]
      /\ un \in [Cpus -> Handles \cup {None}] /\ nxt \in [Cpus -> Handles \cup {None}]
      /\ handle \in Seq(Handles) /\ IsList(handle) /\ SweepInv
      /\ Elems(handle) = {h \in Handles : mem[h] # None}
      /\ mem \in [Handles -> Chunk \cup {None}]
  BY DEF LockInv, LockTypes, DataInv, DataTypes, BucketsIndexHandles
<1>2. CASE Locking(c)
  BY <1>1, <1>2, QuietMarks DEF Locking, mmio_lock, wait_sh, mmio_unlock, unlock_test, unlock_try,
     lists, Goto
<1>3. CASE Walking(c)
  <2>1. UNCHANGED <<handle, mem, unregister_flag, un, nxt>>
    BY <1>3 DEF Walking, access, walk_skip, walk_hit, handler_return, walk_out,
       unlocked_call, unlocked_return, access_return, lists
  <2>2. \A d \in Cpus : at[d] \in {"unreg_flag", "sweep", "sweep_next"} => at'[d] = at[d]
    BY <1>1, <1>3 DEF Walking, access, walk_skip, walk_hit, handler_return, walk_out,
       unlocked_call, unlocked_return, access_return, Goto
  <2> QED
    BY <2>1, <2>2, QuietMarks
<1>4. CASE mmio_register(c) \/ register_fail(c) \/ mmio_unregister(c)
  BY <1>1, <1>4, QuietMarks DEF mmio_register, register_fail, mmio_unregister, lists, Goto
<1>5. CASE unregister_flagged(c)
  BY <1>5, MarkFormsNext DEF unregister_flagged, Noticed
<1>6. CASE unregister_mark(c)
  <2>1. at'[c] = "unreg_flag"
    BY <1>1, <1>6 DEF unregister_mark, Goto
  <2> QED
    BY <2>1, MarkFormsNext DEF Noticed
<1>7. CASE registered(c) \/ unregister_now(c)
  <2>1. /\ at[c] \in {"register", "unreg_ex"} /\ unregister_flag' = unregister_flag
        /\ at' = [at EXCEPT ![c] = ret[c]]
    BY <1>7 DEF registered, unregister_now, Goto
  <2>2. \A h : ~ \E d \in Cpus : Coming(d, h)
    BY <2>1, OneSweeper DEF Coming, Exclusive
  <2>3. Noticed => Noticed'
    BY <1>1, <2>1 DEF Noticed
  <2>4. \A h : Marked(h)' => Marked(h)
    <3>1. CASE registered(c)
      <4>1. PICK r \in Ranges, h \in {h \in Handles : mem[h] = None} :
                /\ mem' = [mem EXCEPT ![h] = [gphys |-> r.gphys, len |-> r.len,
                               unlocked |-> r.unlocked, unregistered |-> FALSE]]
                /\ handle' = LIST1_ADD(handle, h)
        BY <3>1 DEF registered
      <4>2. Elems(handle') = Elems(handle) \cup {h}
        BY <1>1, <4>1, AddFacts
      <4>3. ~mem'[h].unregistered /\ \A x \in Handles : x # h => mem'[x] = mem[x]
        BY <1>1, <4>1
      <4> QED
        BY <1>1, <4>2, <4>3 DEF Marked
    <3>2. CASE unregister_now(c)
      <4>1. PICK p : p = un[c] /\ Discard(p)
        BY <3>2 DEF unregister_now
      <4>2. p \in Handles /\ mem[p] # None
        BY <2>1, <3>2, <4>1 DEF unregister_now, Goto, DataInv, OwnInv, Registered, Unregistering
      <4>3. /\ Elems(handle') = Elems(handle) \ {p}
            /\ \A x \in Handles : x # p => mem'[x] = mem[x]
        BY <4>1, <4>2, DiscardData DEF DataInv
      <4> QED
        BY <1>1, <4>3 DEF Marked
    <3> QED
      BY <1>7, <3>1, <3>2
  <2> QED
    BY <2>2, <2>3, <2>4, MarkForms, MarkFormsNext
<1>8. CASE sweep_start(c)
  <2> SUFFICES ASSUME NEW h, Marked(h)' PROVE Coming(c, h)'
    BY MarkFormsNext
  <2>1. /\ handle' = handle /\ at'[c] = "sweep"
        /\ un'[c] = IF handle = <<>> THEN None ELSE Head(handle)
    BY <1>1, <1>8 DEF sweep_start, Goto, lists
  <2>2. h \in Elems(handle)
    BY <2>1 DEF Marked
  <2>3. IndexOf(handle, h) \in 1 .. Len(handle) /\ Len(handle) \in Nat
    BY <1>1, <2>2, IndexOfFacts, LenProperties
  <2>4. handle # <<>> /\ Head(handle) = handle[1] /\ 1 \in 1 .. Len(handle)
    BY <1>1, <2>3
  <2>5. Head(handle) \in Elems(handle) /\ IndexOf(handle, Head(handle)) = 1
    BY <1>1, <2>4, PlaceIsIndex
  <2>6. un'[c] = Head(handle) /\ Head(handle) # None
    BY <1>1, <2>1, <2>4, <2>5, MmioAssumption
  <2> QED
    BY <2>1, <2>3, <2>5, <2>6 DEF Coming
<1>9. CASE sweep_keep(c)
  <2>1. /\ at[c] = "sweep" /\ un[c] # None /\ ~mem[un[c]].unregistered
        /\ un'[c] = Successor(handle, un[c]) /\ at' = at
        /\ UNCHANGED <<handle, mem, unregister_flag>>
    BY <1>1, <1>9 DEF sweep_keep, lists
  <2>2. un[c] \in Elems(handle)
    BY <1>1, <2>1 DEF SweepInv
  <2>3. Noticed => Noticed'
    BY <2>1 DEF Noticed
  <2>4. ASSUME NEW h, Marked(h)', Coming(c, h) PROVE Coming(c, h)'
    <3>1. h \in Elems(handle) /\ h # un[c]
      BY <2>1, <2>4 DEF Marked
    <3>2. IndexOf(handle, un[c]) <= IndexOf(handle, h)
      BY <2>1, <2>4 DEF Coming
    <3>3. /\ IndexOf(handle, h) \in 1 .. Len(handle) /\ handle[IndexOf(handle, h)] = h
          /\ IndexOf(handle, un[c]) \in 1 .. Len(handle) /\ handle[IndexOf(handle, un[c])] = un[c]
          /\ Len(handle) \in Nat
      BY <1>1, <2>2, <3>1, IndexOfFacts, LenProperties
    <3>4. IndexOf(handle, un[c]) # IndexOf(handle, h) /\ IndexOf(handle, un[c]) # Len(handle)
      BY <3>1, <3>2, <3>3
    <3>5. /\ Successor(handle, un[c]) \in Elems(handle)
          /\ IndexOf(handle, Successor(handle, un[c])) = IndexOf(handle, un[c]) + 1
      BY <1>1, <2>2, <3>4, SuccessorFacts
    <3>6. Successor(handle, un[c]) # None
      BY <1>1, <3>5, MmioAssumption
    <3>7. IndexOf(handle, un[c]) + 1 <= IndexOf(handle, h)
      BY <3>2, <3>3, <3>4
    <3> QED
      BY <2>1, <3>5, <3>6, <3>7 DEF Coming
  <2>5. \A h : Marked(h)' => Marked(h)
    BY <2>1 DEF Marked
  <2>6. \A h : \A d \in Cpus : Coming(d, h) => d = c
    BY <2>1, OneSweeper DEF Exclusive
  <2> QED
    BY <2>3, <2>4, <2>5, <2>6, MarkForms, MarkFormsNext
<1>10. CASE sweep_free(c)
  <2>1. PICK p : p = un[c]
    OBVIOUS
  <2>2. /\ at[c] = "sweep" /\ p # None /\ Discard(p)
        /\ nxt'[c] = Successor(handle, p) /\ at'[c] = "sweep_next"
        /\ \A d \in Cpus : d # c => at'[d] = at[d]
        /\ unregister_flag' = unregister_flag
    BY <1>1, <1>10, <2>1 DEF sweep_free
  <2>3. p \in Elems(handle)
    BY <1>1, <2>1, <2>2 DEF SweepInv
  <2>4. Noticed => Noticed'
    BY <2>2 DEF Noticed
  <2>5. /\ Elems(handle') = Elems(handle) \ {p} /\ handle' = LIST1_DEL(handle, p)
        /\ \A x \in Handles : x # p => mem'[x] = mem[x]
    BY <1>1, <2>2, <2>3, DiscardData DEF DataInv, Discard
  <2>6. \A h : Marked(h)' => Marked(h) /\ h # p
    BY <1>1, <2>5 DEF Marked
  <2>7. ASSUME NEW h, Marked(h), h # p, Coming(c, h) PROVE Coming(c, h)'
    <3>1. h \in Elems(handle) /\ IndexOf(handle, p) <= IndexOf(handle, h)
      BY <2>1, <2>2, <2>7 DEF Marked, Coming
    <3>2. /\ IndexOf(handle, h) \in 1 .. Len(handle) /\ handle[IndexOf(handle, h)] = h
          /\ IndexOf(handle, p) \in 1 .. Len(handle) /\ handle[IndexOf(handle, p)] = p
          /\ Len(handle) \in Nat
      BY <1>1, <2>3, <3>1, IndexOfFacts, LenProperties
    <3>3. IndexOf(handle, p) # IndexOf(handle, h) /\ IndexOf(handle, p) # Len(handle)
      BY <2>7, <3>1, <3>2
    <3>4. PICK q : q = Successor(handle, p)
      OBVIOUS
    <3>5. q \in Elems(handle) \ {p} /\ IndexOf(handle, q) = IndexOf(handle, p) + 1
      BY <1>1, <2>3, <3>3, <3>4, SuccessorFacts
    <3>6. IndexOf(handle', h) = IndexOf(handle, h) - 1
      BY <1>1, <2>3, <2>5, <2>7, <3>1, <3>2, DelIndexOf
    <3>7. IndexOf(handle', q) = IndexOf(handle, p)
      <4>1. IndexOf(LIST1_DEL(handle, p), q) =
               IF IndexOf(handle, q) < IndexOf(handle, p) THEN IndexOf(handle, q) ELSE IndexOf(handle, q) - 1
        BY <1>1, <2>3, <3>5, DelIndexOf
      <4> QED
        BY <2>5, <3>2, <3>5, <4>1
    <3>8. q # None
      BY <1>1, <3>5, MmioAssumption
    <3>9. IndexOf(handle', q) <= IndexOf(handle', h)
      BY <3>1, <3>2, <3>3, <3>6, <3>7
    <3> QED
      BY <2>2, <3>4, <3>8, <3>9 DEF Coming
  <2>8. \A h : \A d \in Cpus : Coming(d, h) => d = c
    BY <2>2, OneSweeper DEF Exclusive
  <2> QED
    BY <2>4, <2>6, <2>7, <2>8, MarkForms, MarkFormsNext
<1>11. CASE sweep_next(c)
  <2>1. /\ at[c] = "sweep_next" /\ at'[c] = "sweep" /\ un'[c] = nxt[c]
        /\ \A d \in Cpus : d # c => at'[d] = at[d]
        /\ UNCHANGED <<handle, mem, unregister_flag>>
    BY <1>1, <1>11 DEF sweep_next, Goto, lists
  <2>2. Noticed => Noticed'
    BY <2>1 DEF Noticed
  <2>3. \A h : Coming(c, h) => Coming(c, h)'
    BY <2>1 DEF Coming
  <2>4. \A h : Marked(h)' => Marked(h)
    BY <2>1 DEF Marked
  <2>5. \A h : \A d \in Cpus : Coming(d, h) => d = c
    BY <2>1, OneSweeper DEF Exclusive
  <2> QED
    BY <2>2, <2>3, <2>4, <2>5, MarkForms, MarkFormsNext
<1>12. CASE sweep_end(c)
  <2>1. /\ at[c] = "sweep" /\ un[c] = None
        /\ \A d \in Cpus : d # c => at'[d] = at[d]
        /\ handle' = handle /\ mem' = mem /\ (unregister_flag => unregister_flag')
    BY <1>1, <1>12 DEF sweep_end, Goto, lists, clear_flag
  <2>2. Noticed => Noticed'
    BY <2>1 DEF Noticed
  <2>3. \A h : ~ \E d \in Cpus : Coming(d, h)
    BY <2>1, OneSweeper DEF Coming, Exclusive
  <2>4. \A h : Marked(h)' => Marked(h)
    BY <2>1 DEF Marked
  <2> QED
    BY <2>2, <2>3, <2>4, MarkForms, MarkFormsNext
<1> QED
  BY <1>2, <1>3, <1>4, <1>5, <1>6, <1>7, <1>8, <1>9, <1>10, <1>11, <1>12 DEF Changing, Sweeping
----------------------------------------------------------------------------
Pieces == [lo : Int, len : Int, by : Handles \cup {None}, memory : BOOLEAN]
Walk == [gphys : Int, len : Int, whole : Accesses, todo : Seq(Handles),
         later : Handles \cup {None}, done : Seq(Pieces)]

Meets(h, g, len) ==
    len > 0 /\ mem[h].gphys < g + len /\ g < mem[h].gphys + mem[h].len

\* No byte of the range is a registered handle's.
Unhooked(g, len) == \A h \in Handles : Registered(h) => ~Meets(h, g, len)

\* No byte of the range is a registered handle's, but for p's.
OnlyOf(p, g, len) == \A h \in Handles : Registered(h) /\ Meets(h, g, len) => h = p

\* All the visits of an access, and how many of them are over.
Tour(a) == Visit(a.whole.gphys, a.whole.len)
Over(a) == Len(Tour(a)) - Len(a.todo)

(* What is left of an access is its end; the visits to come are the end of *)
(* the tour, and no registered handle on the tour so far meets what is     *)
(* left; what the memory got at once is no handle's, and what a handler    *)
(* got is of no other handle, and its own is still there.                  *)
Rest(a) ==
    /\ a.gphys >= a.whole.gphys /\ a.len \in Nat
    /\ a.gphys + a.len = a.whole.gphys + a.whole.len
    /\ a.done = <<>> => a.gphys = a.whole.gphys
OnTour(a) ==
    /\ Over(a) \in 0 .. Len(Tour(a))
    /\ \A j \in 1 .. Len(a.todo) : a.todo[j] = Tour(a)[Over(a) + j]
Behind(a) ==
    \A j \in 1 .. Over(a) : Registered(Tour(a)[j]) => ~Meets(Tour(a)[j], a.gphys, a.len)
Given(done) ==
    \A k \in 1 .. Len(done) :
        /\ OnlyOf(done[k].by, done[k].lo, done[k].len)
        /\ done[k].by # None => mem[done[k].by] # None
Going(a) == a \in Walk /\ Rest(a) /\ OnTour(a) /\ Behind(a) /\ Given(a.done)

Home(c) == IF at[c] \in Calling THEN ret[c] ELSE at[c]
Walked(c) == at[c] = "served"

Bounded == \A h \in Handles : mem[h] # None => mem[h].gphys + mem[h].len <= PHYS

\* mmio_register refuses a range that meets a registered one.
Disjoint ==
    \A g, h \in Handles : Registered(g) /\ Registered(h) /\ Meets(g, mem[h].gphys, mem[h].len) => g = h

WalkInv ==
    /\ Bounded /\ Disjoint /\ DOMAIN acc = Cpus
    /\ \A c \in Cpus : Home(c) \in {"walk", "handler"} => Going(acc[c])
    /\ \A c \in Cpus : Walked(c) =>
        /\ lk[c] = "sh" /\ acc[c] \in Walk /\ Given(acc[c].done)
        /\ acc[c].done = <<>> => Unhooked(acc[c].whole.gphys, acc[c].whole.len)
----------------------------------------------------------------------------
\* Subtraction that wraps.
LEMMA SubValue ==
    ASSUME NEW x \in 0 .. SPACE - 1, NEW y \in 0 .. SPACE - 1
    PROVE  Sub(x, y) = IF y <= x THEN x - y ELSE x - y + SPACE
<1>1. SPACE \in Nat /\ SPACE > 0
  BY MmioAssumption
<1>2. \A z \in Int : z \in 0 .. SPACE - 1 => z % SPACE = z
  BY <1>1
<1>3. \A z \in Int : z < 0 /\ -SPACE <= z => z % SPACE = z + SPACE
  BY <1>1
<1> QED
  BY <1>1, <1>2, <1>3 DEF Sub

\* Buckets come in the order of the addresses.
LEMMA BucketOrder ==
    ASSUME NEW x \in Nat, NEW y \in Nat, x <= y
    PROVE  /\ BucketOf(x) \in Buckets /\ BucketOf(y) \in Buckets
           /\ BucketOf(x) <= BucketOf(y)
<1>1. LAST \in Nat /\ BUCKET \in Nat /\ BUCKET > 0 /\ LAST * BUCKET \in Nat
  BY MmioAssumption
<1>2. ASSUME NEW z \in Nat
      PROVE  /\ z \div BUCKET \in Nat /\ z % BUCKET \in 0 .. BUCKET - 1
             /\ z = BUCKET * (z \div BUCKET) + (z % BUCKET)
  BY <1>1
<1>3. ASSUME NEW p \in Nat, NEW q \in Nat, NEW u \in 0 .. BUCKET - 1, NEW v \in 0 .. BUCKET - 1,
             BUCKET * p + u <= BUCKET * q + v
      PROVE  p <= q
  <2> SUFFICES ASSUME p >= q + 1 PROVE FALSE
    OBVIOUS
  <2>1. BUCKET * p >= BUCKET * (q + 1)
    BY <1>1
  <2>2. BUCKET * (q + 1) = BUCKET * q + BUCKET
    BY <1>1
  <2> QED
    BY <1>1, <1>3, <2>1, <2>2
<1>4. ASSUME NEW z \in Nat, z < LAST * BUCKET PROVE z \div BUCKET < LAST
  <2> SUFFICES ASSUME z \div BUCKET >= LAST PROVE FALSE
    BY <1>1, <1>2
  <2>1. BUCKET * (z \div BUCKET) >= BUCKET * LAST
    BY <1>1, <1>2
  <2> QED
    BY <1>1, <1>2, <1>4, <2>1
<1>5. x \div BUCKET <= y \div BUCKET
  <2>1. BUCKET * (x \div BUCKET) + (x % BUCKET) <= BUCKET * (y \div BUCKET) + (y % BUCKET)
    BY <1>2
  <2> QED
    BY <1>2, <1>3, <2>1
<1> QED
  BY <1>1, <1>2, <1>4, <1>5 DEF BucketOf, Buckets

\* The range of a handle in use.
LEMMA ChunkFacts ==
    ASSUME NEW x \in Chunk
    PROVE  x.gphys \in Nat /\ x.len \in Nat /\ x.len > 0 /\ x.gphys < SPACE
<1>1. SPACE \in Nat
  BY MmioAssumption
<1> QED
  BY <1>1 DEF Chunk

\* An access and a handle that meet do so at an address, in a bucket of both.
LEMMA MeetsInBucket ==
    ASSUME DataTypes, NEW a \in Accesses, NEW h \in Handles, mem[h] # None, Meets(h, a.gphys, a.len)
    PROVE  \E y \in Nat :
              /\ BucketOf(y) \in BucketOf(a.gphys)..BucketOf(a.gphys + a.len - 1)
              /\ BucketOf(y) \in BucketsOf(mem[h]) /\ BucketOf(y) \in Buckets
              /\ y = a.gphys \/ y = mem[h].gphys
<1>1. /\ mem[h].gphys \in Nat /\ mem[h].len \in Nat /\ mem[h].len > 0
      /\ a.gphys \in Nat /\ a.len \in Nat /\ a.len > 0
  BY MmioAssumption DEF DataTypes, Chunk
<1>2. mem[h].gphys < a.gphys + a.len /\ a.gphys < mem[h].gphys + mem[h].len
  BY DEF Meets
<1> DEFINE g == mem[h].gphys
           n == mem[h].len
           y == IF g <= a.gphys THEN a.gphys ELSE g
<1>3. /\ y \in Nat /\ a.gphys <= y /\ y <= a.gphys + a.len - 1 /\ g <= y /\ y <= g + n - 1
      /\ a.gphys + a.len - 1 \in Nat /\ g + n - 1 \in Nat
  BY <1>1, <1>2
<1> HIDE DEF y
<1>4. /\ BucketOf(a.gphys) <= BucketOf(y) /\ BucketOf(y) <= BucketOf(a.gphys + a.len - 1)
      /\ BucketOf(g) <= BucketOf(y) /\ BucketOf(y) <= BucketOf(g + n - 1)
      /\ BucketOf(y) \in Buckets /\ BucketOf(a.gphys) \in Buckets /\ BucketOf(g) \in Buckets
      /\ BucketOf(a.gphys + a.len - 1) \in Buckets /\ BucketOf(g + n - 1) \in Buckets
  BY <1>1, <1>3, BucketOrder
<1>5. y = a.gphys \/ y = g
  BY DEF y
<1>6. /\ BucketOf(y) \in BucketOf(a.gphys)..BucketOf(a.gphys + a.len - 1)
      /\ BucketOf(y) \in BucketsOf(mem[h])
  BY <1>4, MmioAssumption DEF Buckets, BucketsOf
<1> QED
  BY <1>3, <1>4, <1>5, <1>6

\* The tour of an access: every handle it meets, and those that start at
\* lower addresses before the others.
LEMMA TourFacts ==
    ASSUME DataInv, NEW a \in Accesses, NEW V, V = Visit(a.gphys, a.len)
    PROVE  /\ V \in Seq(Handles)
           /\ \A j \in 1 .. Len(V) : mem[V[j]] # None
           /\ \A h \in Handles : mem[h] # None /\ Meets(h, a.gphys, a.len) =>
                 \E j \in 1 .. Len(V) : V[j] = h
           /\ \A j \in 1 .. Len(V) : \A h \in Handles :
                 mem[h] # None /\ Meets(h, a.gphys, a.len) /\ mem[h].gphys < mem[V[j]].gphys =>
                    \E z \in 1 .. j - 1 : V[z] = h
<1> DEFINE B == BucketOf(a.gphys)..BucketOf(a.gphys + a.len - 1)
           q == [k \in 1 .. LAST + 1 |-> IF k - 1 \in B THEN mmio[k - 1] ELSE <<>>]
<1>1. /\ LAST \in Nat /\ a.gphys \in Nat /\ a.len \in Nat /\ a.len > 0
      /\ DataTypes /\ mmio \in [Buckets -> Seq(Handles)] /\ mem \in [Handles -> Chunk \cup {None}]
      /\ \A i \in Buckets : Indexed(i, mmio[i])
  BY MmioAssumption, IndexForms DEF DataInv, DataTypes, Index
<1>2. \A k \in 1 .. LAST + 1 : k - 1 \in Buckets /\ q[k] \in Seq(Handles)
  BY <1>1 DEF Buckets
<1>3. q \in Seq(Seq(Handles)) /\ Len(q) = LAST + 1
  BY <1>1, <1>2
<1>4. V = FlattenSeq(q)
  BY DEF Visit
<1>5. \A k \in 1 .. LAST + 1 : \A m \in 1 .. Len(q[k]) :
          /\ k - 1 \in B /\ k - 1 \in Buckets /\ q[k] = mmio[k - 1]
          /\ q[k][m] \in Elems(mmio[k - 1])
  <2> SUFFICES ASSUME NEW k \in 1 .. LAST + 1, NEW m \in 1 .. Len(q[k])
               PROVE  k - 1 \in B /\ q[k] = mmio[k - 1] /\ q[k][m] \in Elems(mmio[k - 1])
    BY <1>2
  <2>1. Len(q[k]) # 0
    BY <1>2, LenProperties
  <2>2. k - 1 \in B /\ q[k] = mmio[k - 1]
    BY <2>1
  <2>3. mmio[k - 1] \in Seq(Handles) /\ m \in DOMAIN mmio[k - 1]
    BY <1>1, <1>2, <2>2, LenProperties
  <2> QED
    BY <2>2, <2>3, ElemsFacts
<1>6. ASSUME NEW h \in Handles, mem[h] # None, Meets(h, a.gphys, a.len)
      PROVE  \E y \in Nat : \E m \in 1 .. Len(q[BucketOf(y) + 1]) :
                /\ BucketOf(y) \in Buckets /\ BucketOf(y) \in B
                /\ q[BucketOf(y) + 1][m] = h
                /\ y = a.gphys \/ y = mem[h].gphys
  <2>1. PICK y \in Nat : /\ BucketOf(y) \in B
                         /\ BucketOf(y) \in BucketsOf(mem[h]) /\ BucketOf(y) \in Buckets
                         /\ y = a.gphys \/ y = mem[h].gphys
    BY <1>1, <1>6, MeetsInBucket
  <2>2. h \in Elems(mmio[BucketOf(y)]) /\ mmio[BucketOf(y)] \in Seq(Handles)
    BY <1>1, <1>6, <2>1 DEF Indexed
  <2>3. PICK m \in 1 .. Len(mmio[BucketOf(y)]) : mmio[BucketOf(y)][m] = h
    BY <2>2, LenProperties DEF Elems, Range
  <2>4. BucketOf(y) + 1 \in 1 .. LAST + 1 /\ (BucketOf(y) + 1) - 1 = BucketOf(y)
    BY <1>1, <2>1 DEF Buckets
  <2>5. q[BucketOf(y) + 1] = mmio[BucketOf(y)]
    BY <2>1, <2>4
  <2> HIDE DEF q, B
  <2> QED
    BY <2>1, <2>3, <2>5
<1> HIDE DEF q
<1>7. /\ V \in Seq(Handles)
      /\ \A i \in 1 .. Len(q) : \A m \in 1 .. Len(q[i]) : q[i][m] \in Elems(V)
      /\ \A j \in 1 .. Len(V) :
            \E i \in 1 .. Len(q) : \E m \in 1 .. Len(q[i]) :
               /\ V[j] = q[i][m]
               /\ \A x \in 1 .. Len(q) : \A y \in 1 .. Len(q[x]) :
                     x < i \/ (x = i /\ y < m) => \E z \in 1 .. j - 1 : V[z] = q[x][y]
  <2>1. Len(q) # 0
    BY <1>1, <1>3
  <2>2. V \in Seq(Handles) /\ InOrder(q, V)
    BY <1>3, <1>4, <2>1, FlattenOrder
  <2> QED
    BY <2>2 DEF InOrder
<1>8. \A j \in 1 .. Len(V) : mem[V[j]] # None
  <2> SUFFICES ASSUME NEW j \in 1 .. Len(V) PROVE mem[V[j]] # None
    OBVIOUS
  <2>1. PICK i \in 1 .. Len(q) : \E m \in 1 .. Len(q[i]) : V[j] = q[i][m]
    BY <1>7
  <2>3. i \in 1 .. LAST + 1
    BY <1>3
  <2>2. i - 1 \in Buckets /\ V[j] \in Elems(mmio[i - 1])
    BY <1>5, <2>1, <2>3
  <2> QED
    BY <1>1, <2>2 DEF Indexed
<1>9. ASSUME NEW h \in Handles, mem[h] # None, Meets(h, a.gphys, a.len)
      PROVE  \E j \in 1 .. Len(V) : V[j] = h
  <2>1. PICK y \in Nat : \E m \in 1 .. Len(q[BucketOf(y) + 1]) :
                BucketOf(y) \in Buckets /\ q[BucketOf(y) + 1][m] = h
    BY <1>6, <1>9
  <2>4. BucketOf(y) \in 0 .. LAST
    BY <2>1 DEF Buckets
  <2>2. BucketOf(y) + 1 \in 1 .. Len(q)
    BY <1>1, <1>3, <2>4
  <2>3. h \in Elems(V)
    BY <1>7, <2>1, <2>2
  <2> QED
    BY <1>7, <2>3, LenProperties DEF Elems, Range
<1>10. ASSUME NEW j \in 1 .. Len(V), NEW h \in Handles, mem[h] # None,
              Meets(h, a.gphys, a.len), mem[h].gphys < mem[V[j]].gphys
       PROVE  \E z \in 1 .. j - 1 : V[z] = h
  <2>1. PICK i \in 1 .. Len(q) : \E m \in 1 .. Len(q[i]) :
               /\ V[j] = q[i][m]
               /\ \A x \in 1 .. Len(q) : \A y \in 1 .. Len(q[x]) :
                     x < i \/ (x = i /\ y < m) => \E z \in 1 .. j - 1 : V[z] = q[x][y]
    BY <1>7
  <2>2. PICK m \in 1 .. Len(q[i]) :
               /\ V[j] = q[i][m]
               /\ \A x \in 1 .. Len(q) : \A y \in 1 .. Len(q[x]) :
                     x < i \/ (x = i /\ y < m) => \E z \in 1 .. j - 1 : V[z] = q[x][y]
    BY <2>1
  <2>3. PICK y \in Nat : \E k \in 1 .. Len(q[BucketOf(y) + 1]) :
                /\ BucketOf(y) \in Buckets /\ BucketOf(y) \in B
                /\ q[BucketOf(y) + 1][k] = h
                /\ y = a.gphys \/ y = mem[h].gphys
    BY <1>6, <1>10
  <2>4. PICK k \in 1 .. Len(q[BucketOf(y) + 1]) : q[BucketOf(y) + 1][k] = h
    BY <2>3
  <2>5. /\ i - 1 \in B /\ i - 1 \in Buckets /\ q[i] = mmio[i - 1] /\ V[j] \in Elems(mmio[i - 1])
    BY <1>3, <1>5, <2>2
  <2>6. V[j] \in Handles /\ mem[V[j]] # None /\ i - 1 \in BucketsOf(mem[V[j]])
    BY <1>1, <2>5 DEF Indexed
  <2>7. /\ mem[V[j]].gphys \in Nat /\ mem[V[j]].len \in Nat /\ mem[V[j]].len > 0 /\ mem[h].gphys \in Nat
    <3>1. mem[V[j]] \in Chunk /\ mem[h] \in Chunk
      BY <1>1, <1>10, <2>6
    <3> QED
      BY <3>1, ChunkFacts
  <2>8. BucketOf(y) <= i - 1
    <3>1. CASE y = a.gphys
      BY <1>1, <2>5, <3>1
    <3>2. CASE y = mem[h].gphys
      <4>1. BucketOf(y) <= BucketOf(mem[V[j]].gphys) /\ BucketOf(mem[V[j]].gphys) \in Buckets
        BY <1>10, <2>7, <3>2, BucketOrder
      <4>2. BucketOf(mem[V[j]].gphys) <= i - 1
        BY <2>6 DEF BucketsOf
      <4> QED
        BY <1>1, <2>3, <4>1, <4>2 DEF Buckets
    <3> QED
      BY <2>3, <3>1, <3>2
  <2>9. BucketOf(y) + 1 \in 1 .. Len(q) /\ BucketOf(y) \in Nat
    <3>1. BucketOf(y) \in 0 .. LAST
      BY <2>3 DEF Buckets
    <3>2. LAST \in Nat /\ Len(q) = LAST + 1
      BY <1>1, <1>3
    <3> QED
      BY <3>1, <3>2
  <2>10. BucketOf(y) + 1 < i \/ (BucketOf(y) + 1 = i /\ k < m)
    <3>1. CASE BucketOf(y) + 1 < i
      BY <3>1
    <3>2. CASE BucketOf(y) + 1 = i
      <4>1. /\ mmio[i - 1] \in Seq(Handles) /\ SortedBy(mmio[i - 1], Keys)
            /\ m \in 1 .. Len(mmio[i - 1]) /\ k \in 1 .. Len(mmio[i - 1])
            /\ mmio[i - 1][m] = V[j] /\ mmio[i - 1][k] = h
        BY <1>1, <2>2, <2>4, <2>5, <3>2 DEF Indexed
      <4>2. Keys[V[j]] = mem[V[j]].gphys /\ Keys[h] = mem[h].gphys
        BY <1>10, <2>6 DEF Keys
      <4>3. k # m
        BY <1>10, <2>7, <4>1
      <4>4. ~(m < k)
        <5>1. m < k => Keys[V[j]] <= Keys[h]
          BY <4>1 DEF SortedBy
        <5> QED
          BY <1>10, <2>7, <4>2, <5>1
      <4>5. Len(mmio[i - 1]) \in Nat
        BY <4>1, LenProperties
      <4> QED
        BY <3>2, <4>1, <4>3, <4>4, <4>5
    <3> QED
      BY <1>3, <2>8, <2>9, <3>1, <3>2
  <2> QED
    BY <2>2, <2>4, <2>9, <2>10
<1> QED
  BY <1>7, <1>8, <1>9, <1>10
----------------------------------------------------------------------------
\* rangecheck, which computes relative to the start of the handle and wraps,
\* finds the handles that the access meets, and the part they have in common.
LEMMA RangeCheck ==
    ASSUME NEW x \in Chunk, x.gphys + x.len <= PHYS,
           NEW g \in Nat, NEW n \in Nat, n > 0, g + n <= PHYS
    PROVE  /\ Touches(x, g, n) <=>
                 ~x.unregistered /\ x.gphys < g + n /\ g < x.gphys + x.len
           /\ x.gphys < g + n /\ g < x.gphys + x.len =>
                 /\ Piece(x, g, n).lo = IF x.gphys <= g THEN g ELSE x.gphys
                 /\ Piece(x, g, n).lo + Piece(x, g, n).len =
                       IF x.gphys + x.len <= g + n THEN x.gphys + x.len ELSE g + n
                 /\ Piece(x, g, n).len \in Nat /\ Piece(x, g, n).len > 0
<1> DEFINE a == Sub(g, x.gphys)
           b == Sub(g + n - 1, x.gphys)
           s == x.gphys
           k == x.len
           d == k - 1
           u == IF d < a THEN 0 ELSE a
           v == IF d < b THEN d ELSE b
<1>1. s \in Nat /\ k \in Nat /\ k > 0 /\ PHYS \in Nat /\ SPACE \in Nat /\ PHYS < SPACE
  BY ChunkFacts, MmioAssumption
<1>2. s \in 0 .. SPACE - 1 /\ g \in 0 .. SPACE - 1 /\ g + n - 1 \in 0 .. SPACE - 1
  BY <1>1
<1>3. /\ a = IF s <= g THEN g - s ELSE g - s + SPACE
      /\ b = IF s <= g + n - 1 THEN g + n - 1 - s ELSE g + n - 1 - s + SPACE
  BY <1>2, SubValue
<1>4. /\ Touches(x, g, n) <=> ~x.unregistered /\ ~(d < a /\ a <= b)
      /\ Piece(x, g, n) = [lo |-> (u + s) % SPACE, len |-> v - u + 1]
  BY DEF Touches, Piece
<1> HIDE DEF a, b
<1>5. ~(d < a /\ a <= b) <=> s < g + n /\ g < s + k
  BY <1>1, <1>3
<1>6. ASSUME s < g + n, g < s + k
      PROVE  /\ u + s = IF s <= g THEN g ELSE s
             /\ (u + s) + (v - u + 1) = IF s + k <= g + n THEN s + k ELSE g + n
             /\ v - u + 1 \in Nat /\ v - u + 1 > 0
             /\ u + s \in 0 .. SPACE - 1
  BY <1>1, <1>3, <1>6
<1>7. \A z \in 0 .. SPACE - 1 : z % SPACE = z
  BY <1>1
<1> HIDE DEF u, v, s, k
<1>8. ASSUME s < g + n, g < s + k
      PROVE  /\ Piece(x, g, n).lo = IF s <= g THEN g ELSE s
             /\ Piece(x, g, n).lo + Piece(x, g, n).len = IF s + k <= g + n THEN s + k ELSE g + n
             /\ Piece(x, g, n).len \in Nat /\ Piece(x, g, n).len > 0
  <2>1. Piece(x, g, n).lo = u + s /\ Piece(x, g, n).len = v - u + 1
    BY <1>4, <1>6, <1>7, <1>8
  <2> QED
    BY <1>6, <1>8, <2>1
<1> QED
  BY <1>4, <1>5, <1>8 DEF s, k
----------------------------------------------------------------------------
\* What an access looks like while it goes on.
LEMMA GoingFacts ==
    ASSUME DataInv, NEW a, Going(a), NEW V, V = Tour(a)
    PROVE  /\ a.gphys \in Nat /\ a.len \in Nat /\ a.whole \in Accesses
           /\ a.whole.gphys \in Nat /\ a.whole.len \in Nat /\ a.whole.len > 0
           /\ a.gphys + a.len <= PHYS
           /\ a.todo \in Seq(Handles) /\ Len(a.todo) \in Nat
           /\ V \in Seq(Handles) /\ Len(V) \in Nat
           /\ Over(a) = Len(V) - Len(a.todo) /\ Over(a) \in 0 .. Len(V)
           /\ \A h \in Handles : mem[h] # None /\ Meets(h, a.gphys, a.len) =>
                 Meets(h, a.whole.gphys, a.whole.len)
<1>1. /\ a.whole \in Accesses /\ a.gphys \in Int /\ a.len \in Int /\ a.todo \in Seq(Handles)
  BY DEF Going, Walk
<1>2. /\ a.whole.gphys \in Nat /\ a.whole.len \in Nat /\ a.whole.len > 0
      /\ a.whole.gphys + a.whole.len <= PHYS /\ PHYS \in Nat
  BY <1>1, MmioAssumption
<1>3. /\ a.gphys >= a.whole.gphys /\ a.len \in Nat
      /\ a.gphys + a.len = a.whole.gphys + a.whole.len
  BY DEF Going, Rest
<1>4. V \in Seq(Handles)
  BY <1>1, TourFacts DEF Tour
<1>5. Len(V) \in Nat /\ Len(a.todo) \in Nat
  BY <1>1, <1>4, LenProperties
<1>6. Over(a) = Len(V) - Len(a.todo) /\ Over(a) \in 0 .. Len(V)
  BY DEF Going, OnTour, Over
<1>7. ASSUME NEW h \in Handles, mem[h] # None, Meets(h, a.gphys, a.len)
      PROVE  Meets(h, a.whole.gphys, a.whole.len)
  <2>1. mem[h] \in Chunk
    BY <1>7 DEF DataInv, DataTypes
  <2>2. mem[h].gphys \in Nat /\ mem[h].len \in Nat
    BY <2>1, ChunkFacts
  <2> QED
    BY <1>1, <1>2, <1>3, <1>7, <2>2 DEF Meets
<1>8. a.gphys \in Nat /\ a.gphys + a.len <= PHYS
  BY <1>1, <1>2, <1>3
<1> QED
  BY <1>1, <1>2, <1>3, <1>4, <1>5, <1>6, <1>7, <1>8

\* The next visit is to the handle that starts first of those still met.
LEMMA NextIsFirst ==
    ASSUME DataInv, NEW a, Going(a), a.todo # <<>>
    PROVE  /\ Head(a.todo) \in Handles /\ mem[Head(a.todo)] # None
           /\ Over(a) + 1 \in 1 .. Len(Tour(a)) /\ Tour(a)[Over(a) + 1] = Head(a.todo)
           /\ \A h \in Handles : Registered(h) /\ Meets(h, a.gphys, a.len) =>
                 ~(mem[h].gphys < mem[Head(a.todo)].gphys)
<1>1. PICK V : V = Tour(a)
  OBVIOUS
<1>2. /\ a.whole \in Accesses /\ a.todo \in Seq(Handles) /\ Len(a.todo) \in Nat
      /\ V \in Seq(Handles) /\ Len(V) \in Nat
      /\ Over(a) = Len(V) - Len(a.todo) /\ Over(a) \in 0 .. Len(V)
      /\ \A h \in Handles : mem[h] # None /\ Meets(h, a.gphys, a.len) =>
                 Meets(h, a.whole.gphys, a.whole.len)
  BY <1>1, GoingFacts
<1>3. Len(a.todo) > 0 /\ Head(a.todo) = a.todo[1]
  BY <1>2, EmptySeq
<1>4. Over(a) + 1 \in 1 .. Len(V) /\ V[Over(a) + 1] = Head(a.todo)
  <2>1. 1 \in 1 .. Len(a.todo)
    BY <1>2, <1>3
  <2>2. a.todo[1] = V[Over(a) + 1]
    BY <1>1, <2>1 DEF Going, OnTour
  <2>3. Over(a) + 1 \in 1 .. Len(V)
    BY <1>2, <1>3
  <2> QED
    BY <1>3, <2>2, <2>3
<1>5. /\ \A j \in 1 .. Len(V) : mem[V[j]] # None
      /\ \A j \in 1 .. Len(V) : \A h \in Handles :
            mem[h] # None /\ Meets(h, a.whole.gphys, a.whole.len) /\ mem[h].gphys < mem[V[j]].gphys =>
               \E z \in 1 .. j - 1 : V[z] = h
  <2>1. V = Visit(a.whole.gphys, a.whole.len)
    BY <1>1 DEF Tour
  <2>2. PICK w \in Accesses : w = a.whole
    BY <1>2
  <2> QED
    BY <2>1, <2>2, TourFacts
<1>8. Over(a) \in Nat /\ (Over(a) + 1) - 1 = Over(a)
  BY <1>2
<1>6. Head(a.todo) \in Handles
  BY <1>2, <1>4, ElementOfSeq
<1>7. ASSUME NEW h \in Handles, Registered(h), Meets(h, a.gphys, a.len),
             mem[h].gphys < mem[Head(a.todo)].gphys
      PROVE  FALSE
  <2>1. mem[h] # None
    BY <1>7 DEF Registered
  <2>4. PICK z \in 1 .. (Over(a) + 1) - 1 : V[z] = h
    BY <1>2, <1>4, <1>5, <1>7, <2>1
  <2>2. V[z] = h
    BY <2>4
  <2>3. z \in 1 .. Over(a)
    BY <1>8
  <2> QED
    BY <1>1, <1>7, <2>2, <2>3 DEF Going, Behind
<1> QED
  BY <1>1, <1>4, <1>5, <1>6, <1>7

\* Where a walk ends, no registered handle meets what is left.
LEMMA EndOfWalk ==
    ASSUME DataInv, NEW a, Going(a), ~Continues(a)
    PROVE  Unhooked(a.gphys, a.len)
<1> SUFFICES ASSUME NEW h \in Handles, Registered(h), Meets(h, a.gphys, a.len) PROVE FALSE
  BY DEF Unhooked
<1>1. PICK V : V = Tour(a)
  OBVIOUS
<1>2. /\ a.gphys \in Nat /\ a.len \in Nat /\ a.whole \in Accesses
      /\ a.todo \in Seq(Handles)
      /\ V \in Seq(Handles) /\ Len(V) \in Nat
      /\ Over(a) = Len(V) - Len(a.todo)
      /\ \A x \in Handles : mem[x] # None /\ Meets(x, a.gphys, a.len) =>
                 Meets(x, a.whole.gphys, a.whole.len)
  BY <1>1, GoingFacts
<1>3. mem[h] # None /\ mem[h] \in Chunk
  BY DEF Registered, DataInv, DataTypes
<1>4. a.len > 0 /\ mem[h].gphys < a.gphys + a.len /\ mem[h].gphys \in Nat
  BY <1>3, ChunkFacts DEF Meets
<1>5. CASE a.todo = <<>>
  <2>1. Over(a) = Len(V)
    BY <1>2, <1>5
  <2>2. PICK j \in 1 .. Len(V) : V[j] = h
    BY <1>1, <1>2, <1>3, TourFacts DEF Tour
  <2> QED
    BY <1>1, <2>1, <2>2 DEF Going, Behind
<1>6. CASE a.todo # <<>>
  <2>1. /\ Head(a.todo) \in Handles /\ mem[Head(a.todo)] # None
        /\ ~(mem[h].gphys < mem[Head(a.todo)].gphys)
    BY <1>6, NextIsFirst
  <2>2. mem[Head(a.todo)] \in Chunk
    BY <2>1 DEF DataInv, DataTypes
  <2>3. mem[Head(a.todo)].gphys \in Nat
    BY <2>2, ChunkFacts
  <2>4. ~(mem[Head(a.todo)].gphys < a.gphys + a.len)
    BY <1>4, <1>6 DEF Continues
  <2> QED
    BY <1>2, <1>4, <2>1, <2>3, <2>4
<1> QED
  BY <1>5, <1>6

\* One visit: what is left shrinks, and the handle visited is not met by it.
LEMMA OneVisit ==
    ASSUME DataInv, NEW a, Going(a), a.todo # <<>>,
           NEW b \in Walk, b.whole = a.whole, b.todo = Tail(a.todo), Rest(b), Given(b.done),
           b.gphys >= a.gphys,
           Registered(Head(a.todo)) => ~Meets(Head(a.todo), b.gphys, b.len)
    PROVE  Going(b)
<1>1. PICK V : V = Tour(a)
  OBVIOUS
<1>2. /\ a.gphys \in Nat /\ a.len \in Nat
      /\ a.todo \in Seq(Handles) /\ Len(a.todo) \in Nat
      /\ V \in Seq(Handles) /\ Len(V) \in Nat
      /\ Over(a) = Len(V) - Len(a.todo) /\ Over(a) \in 0 .. Len(V)
  BY <1>1, GoingFacts
<1>3. /\ Over(a) + 1 \in 1 .. Len(V) /\ V[Over(a) + 1] = Head(a.todo)
  BY <1>1, NextIsFirst
<1>4. Tour(b) = V
  BY <1>1 DEF Tour
<1>5. /\ Len(b.todo) = Len(a.todo) - 1
      /\ \A j \in 1 .. Len(b.todo) : b.todo[j] = a.todo[j + 1] /\ j + 1 \in 1 .. Len(a.todo)
  BY <1>2, HeadTailProperties
<1>6. Over(b) = Over(a) + 1 /\ Over(b) \in 0 .. Len(V)
  <2>1. Over(b) = Len(V) - Len(b.todo)
    BY <1>4 DEF Over
  <2>2. Over(b) = Over(a) + 1
    BY <1>2, <1>5, <2>1
  <2> QED
    BY <1>2, <1>3, <2>2
<1>7. OnTour(b)
  <2> SUFFICES ASSUME NEW j \in 1 .. Len(b.todo) PROVE b.todo[j] = V[Over(b) + j]
    BY <1>4, <1>6 DEF OnTour
  <2>1. a.todo[j + 1] = V[Over(a) + (j + 1)]
    BY <1>1, <1>5 DEF Going, OnTour
  <2>2. Over(a) + (j + 1) = Over(b) + j
    BY <1>2, <1>5, <1>6
  <2> QED
    BY <1>5, <2>1, <2>2
<1>8. Behind(b)
  <2> SUFFICES ASSUME NEW j \in 1 .. Over(b), Registered(V[j])
               PROVE  ~Meets(V[j], b.gphys, b.len)
    BY <1>4 DEF Behind
  <2>1. CASE j = Over(a) + 1
    BY <1>3, <2>1
  <2>2. CASE j # Over(a) + 1
    <3>1. j \in 1 .. Over(a)
      BY <1>2, <1>6, <2>2
    <3>2. ~Meets(V[j], a.gphys, a.len)
      BY <1>1, <3>1 DEF Going, Behind
    <3>3. mem[V[j]] \in Chunk
      BY DEF Registered, DataInv, DataTypes
    <3>4. mem[V[j]].gphys \in Nat /\ mem[V[j]].len \in Nat
      BY <3>3, ChunkFacts
    <3>5. /\ a.gphys + a.len = b.gphys + b.len /\ b.gphys \in Int /\ b.len \in Int
      BY DEF Going, Rest, Walk
    <3>6. ASSUME NEW g \in Nat, NEW n \in Nat PROVE
            ~(a.len > 0 /\ g < a.gphys + a.len /\ a.gphys < g + n) =>
            ~(b.len > 0 /\ g < b.gphys + b.len /\ b.gphys < g + n)
      BY <1>2, <3>5
    <3> QED
      BY <3>2, <3>4, <3>6 DEF Meets
  <2>3. j = Over(a) + 1 \/ j # Over(a) + 1
    OBVIOUS
  <2> QED
    BY <2>1, <2>2, <2>3
<1> QED
  BY <1>7, <1>8 DEF Going

\* A walk begins with its whole tour to come.
LEMMA StartGoing ==
    ASSUME DataInv, NEW w \in Accesses, NEW a,
           a = [gphys |-> w.gphys, len |-> w.len, whole |-> w,
                todo |-> Visit(w.gphys, w.len), later |-> None, done |-> <<>>]
    PROVE  Going(a)
<1>1. w.gphys \in Nat /\ w.len \in Nat
  BY MmioAssumption
<1>2. PICK V : V = Visit(w.gphys, w.len)
  OBVIOUS
<1>3. V \in Seq(Handles) /\ Len(V) \in Nat
  BY <1>2, TourFacts, LenProperties
<1>4. a \in Walk
  BY <1>1, <1>2, <1>3 DEF Walk
<1>5. /\ Tour(a) = V /\ a.todo = V /\ a.done = <<>>
      /\ a.gphys = w.gphys /\ a.len = w.len /\ a.whole = w
  BY <1>2 DEF Tour
<1>6. Over(a) = 0
  BY <1>3, <1>5 DEF Over
<1>7. Rest(a)
  BY <1>1, <1>5 DEF Rest
<1>8. OnTour(a) /\ Behind(a) /\ Given(a.done)
  BY <1>3, <1>5, <1>6 DEF OnTour, Behind, Given
<1> QED
  BY <1>4, <1>7, <1>8 DEF Going

\* A handle that the rest of the access misses, or that is marked, is passed.
LEMMA SkipGoing ==
    ASSUME DataInv, Bounded, NEW a, Going(a), Continues(a), ~Hit(a),
           NEW b, b = [a EXCEPT !.todo = Tail(@)]
    PROVE  Going(b)
<1>1. a \in Walk /\ a.todo # <<>> /\ a.len > 0
  BY DEF Going, Continues
<1>2. /\ a.gphys \in Nat /\ a.len \in Nat /\ a.gphys + a.len <= PHYS /\ a.todo \in Seq(Handles)
  BY GoingFacts
<1>3. Tail(a.todo) \in Seq(Handles)
  BY <1>1, <1>2
<1>4. b \in Walk /\ b.whole = a.whole /\ b.todo = Tail(a.todo) /\ b.gphys = a.gphys
      /\ b.len = a.len /\ b.done = a.done
  BY <1>1, <1>3 DEF Walk
<1>5. Rest(b) /\ Given(b.done)
  BY <1>4 DEF Going, Rest
<1>6. ASSUME Registered(Head(a.todo)) PROVE ~Meets(Head(a.todo), b.gphys, b.len)
  <2>1. PICK x : x = mem[Head(a.todo)]
    OBVIOUS
  <2>2. x \in Chunk /\ x.gphys + x.len <= PHYS /\ ~x.unregistered
    BY <1>6, <2>1 DEF Registered, Bounded, DataInv, DataTypes
  <2>3. ~Touches(x, a.gphys, a.len)
    BY <2>1 DEF Hit
  <2>4. ~(x.gphys < a.gphys + a.len /\ a.gphys < x.gphys + x.len)
    BY <1>1, <1>2, <2>2, <2>3, RangeCheck
  <2> QED
    BY <1>4, <2>1, <2>4 DEF Meets
<1>7. b.gphys >= a.gphys
  BY <1>2, <1>4
<1> QED
  BY <1>1, <1>4, <1>5, <1>6, <1>7, OneVisit

\* Parts are given away one after the other.
LEMMA GivenMore ==
    ASSUME NEW s \in Seq(Pieces), NEW t \in Seq(Pieces), Given(s), Given(t)
    PROVE  s \o t \in Seq(Pieces) /\ Given(s \o t)
<1>1. Len(s) \in Nat /\ Len(t) \in Nat
  BY LenProperties
<1>2. PICK r : r = s \o t
  OBVIOUS
<1>3. /\ r \in Seq(Pieces) /\ Len(r) = Len(s) + Len(t)
      /\ \A i \in 1 .. Len(s) + Len(t) : r[i] = IF i <= Len(s) THEN s[i] ELSE t[i - Len(s)]
  BY <1>2, ConcatProperties
<1>4. Given(r)
  <2> SUFFICES ASSUME NEW k \in 1 .. Len(r)
               PROVE  /\ OnlyOf(r[k].by, r[k].lo, r[k].len)
                      /\ r[k].by # None => mem[r[k].by] # None
    BY DEF Given
  <2>1. CASE k <= Len(s)
    <3>1. k \in 1 .. Len(s) /\ r[k] = s[k]
      BY <1>1, <1>3, <2>1
    <3> QED
      BY <3>1 DEF Given
  <2>2. CASE k > Len(s)
    <3>1. k - Len(s) \in 1 .. Len(t) /\ r[k] = t[k - Len(s)]
      BY <1>1, <1>3, <2>2
    <3> QED
      BY <3>1 DEF Given
  <2>3. k <= Len(s) \/ k > Len(s)
    BY <1>1, <1>3
  <2> QED
    BY <2>1, <2>2, <2>3
<1> QED
  BY <1>2, <1>3, <1>4

\* The part that is given away at a hit: to the handler, or before it to the memory.
LEMMA GivenPart ==
    ASSUME NEW lo \in Int, NEW n \in Int, NEW p \in Handles \cup {None},
           n # 0 => OnlyOf(p, lo, n) /\ (p # None => mem[p] # None)
    PROVE  /\ Part(lo, n, p) \in Seq(Pieces) /\ Given(Part(lo, n, p))
           /\ n # 0 => Len(Part(lo, n, p)) = 1
<1>1. CASE n = 0
  BY <1>1 DEF Part, Given
<1>2. CASE n # 0
  <2>1. PICK r : r = [lo |-> lo, len |-> n, by |-> p, memory |-> p = None]
    OBVIOUS
  <2>2. r \in Pieces /\ r.lo = lo /\ r.len = n /\ r.by = p
    BY <2>1 DEF Pieces
  <2>3. Part(lo, n, p) = <<r>>
    BY <1>2, <2>1 DEF Part
  <2>4. <<r>> \in Seq(Pieces) /\ Len(<<r>>) = 1 /\ <<r>>[1] = r
    BY <2>2
  <2>5. Given(<<r>>)
    BY <1>2, <2>2, <2>4 DEF Given
  <2> QED
    BY <2>3, <2>4, <2>5
<1> QED
  BY <1>1, <1>2

\* A handler takes its part; what lies before its range is nobody's.
LEMMA HitGoing ==
    ASSUME DataInv, Bounded, Disjoint, NEW a, Going(a), Continues(a), Hit(a), NEW b, b = Serve(a)
    PROVE  Going(b)
<1>1. a \in Walk /\ a.todo # <<>> /\ a.len > 0
  BY DEF Going, Continues
<1>2. /\ a.gphys \in Nat /\ a.len \in Nat /\ a.gphys + a.len <= PHYS /\ a.todo \in Seq(Handles)
      /\ a.whole.gphys \in Nat /\ a.whole.len \in Nat
  BY GoingFacts
<1>3. PICK h : h = Head(a.todo)
  OBVIOUS
<1>4. PICK x : x = mem[h]
  OBVIOUS
<1>5. /\ h \in Handles /\ x # None
      /\ \A y \in Handles : Registered(y) /\ Meets(y, a.gphys, a.len) => ~(mem[y].gphys < x.gphys)
  BY <1>1, <1>3, <1>4, NextIsFirst
<1>6. x \in Chunk /\ x.gphys + x.len <= PHYS
  BY <1>4, <1>5 DEF Bounded, DataInv, DataTypes
<1>7. x.gphys \in Nat /\ x.len \in Nat
  BY <1>6, ChunkFacts
<1>8. Touches(x, a.gphys, a.len)
  BY <1>3, <1>4 DEF Hit
<1>9. PICK p : p = Piece(x, a.gphys, a.len)
  OBVIOUS
<1> DEFINE end == a.gphys + a.len
<1>10. /\ x.gphys < end /\ a.gphys < x.gphys + x.len
       /\ p.lo = IF x.gphys <= a.gphys THEN a.gphys ELSE x.gphys
       /\ p.lo + p.len = IF x.gphys + x.len <= end THEN x.gphys + x.len ELSE end
       /\ p.len \in Nat /\ p.len > 0
  BY <1>1, <1>2, <1>6, <1>8, <1>9, RangeCheck
<1>11. p.lo \in Nat /\ p.lo >= a.gphys /\ p.lo < end /\ p.lo + p.len <= end
  BY <1>2, <1>7, <1>10
<1> DEFINE f == Part(a.gphys, p.lo - a.gphys, None)
           s == Part(p.lo, p.len, h)
           done == (a.done \o f) \o s
<1>12. Tail(a.todo) \in Seq(Handles)
  BY <1>1, <1>2
<1>13. Unhooked(a.gphys, p.lo - a.gphys)
  <2> SUFFICES ASSUME NEW y \in Handles, Registered(y), Meets(y, a.gphys, p.lo - a.gphys) PROVE FALSE
    BY DEF Unhooked
  <2>1. mem[y] \in Chunk
    BY DEF Registered, DataInv, DataTypes
  <2>2. mem[y].gphys \in Nat /\ mem[y].len \in Nat
    BY <2>1, ChunkFacts
  <2>3. /\ p.lo - a.gphys > 0 /\ mem[y].gphys < a.gphys + (p.lo - a.gphys)
        /\ a.gphys < mem[y].gphys + mem[y].len
    BY DEF Meets
  <2>4. mem[y].gphys < p.lo /\ p.lo = x.gphys /\ mem[y].gphys < a.gphys + a.len
    BY <1>2, <1>7, <1>10, <1>11, <2>2, <2>3
  <2>5. Meets(y, a.gphys, a.len)
    BY <1>1, <2>3, <2>4 DEF Meets
  <2> QED
    BY <1>5, <2>4, <2>5
<1>14. f \in Seq(Pieces) /\ Given(f)
  <2>1. p.lo - a.gphys \in Int /\ a.gphys \in Int /\ None \in Handles \cup {None}
    BY <1>2, <1>11
  <2>2. OnlyOf(None, a.gphys, p.lo - a.gphys)
    BY <1>13 DEF Unhooked, OnlyOf
  <2> QED
    BY <2>1, <2>2, GivenPart
<1>15. s \in Seq(Pieces) /\ Given(s) /\ Len(s) = 1
  <2>1. h # None /\ mem[h] # None
    BY <1>4, <1>5, MmioAssumption
  <2>2. p.lo \in Int /\ p.len \in Int /\ h \in Handles \cup {None} /\ p.len # 0
    BY <1>5, <1>10, <1>11
  <2>3. Registered(h)
    BY <1>4, <1>5, <1>8 DEF Touches, Registered
  <2>4. ASSUME NEW y \in Handles, Registered(y), Meets(y, p.lo, p.len) PROVE y = h
    <3>1. mem[y] \in Chunk
      BY <2>4 DEF Registered, DataInv, DataTypes
    <3>2. mem[y].gphys \in Nat /\ mem[y].len \in Nat
      BY <3>1, ChunkFacts
    <3>3. mem[y].gphys < p.lo + p.len /\ p.lo < mem[y].gphys + mem[y].len
      BY <2>4 DEF Meets
    <3>4. x.len > 0 /\ mem[y].gphys < x.gphys + x.len /\ x.gphys < mem[y].gphys + mem[y].len
      <4>1. p.lo >= x.gphys /\ p.lo + p.len <= x.gphys + x.len /\ p.len \in Nat
        BY <1>2, <1>7, <1>10, <1>11
      <4>2. x.len > 0
        BY <1>6, ChunkFacts
      <4> QED
        BY <1>7, <1>11, <3>2, <3>3, <4>1, <4>2
    <3>5. Meets(y, mem[h].gphys, mem[h].len)
      BY <1>4, <3>4 DEF Meets
    <3> QED
      BY <1>5, <2>3, <2>4, <3>5 DEF Disjoint
  <2>5. OnlyOf(h, p.lo, p.len)
    BY <2>4 DEF OnlyOf
  <2> QED
    BY <2>1, <2>2, <2>5, GivenPart
<1>16. a.done \in Seq(Pieces) /\ Given(a.done)
  BY <1>1 DEF Going, Walk
<1> HIDE DEF f, s
<1>17. (a.done \o f) \in Seq(Pieces) /\ Given(a.done \o f)
  BY <1>14, <1>16, GivenMore
<1>18. done \in Seq(Pieces) /\ Given(done)
  BY <1>15, <1>17, GivenMore
<1>19. done # <<>>
  <2>1. Len(done) = Len(a.done \o f) + Len(s) /\ Len(a.done \o f) \in Nat
    BY <1>15, <1>17, ConcatProperties, LenProperties
  <2>2. Len(done) > 0
    BY <1>15, <2>1
  <2> QED
    BY <1>18, <2>2, EmptySeq
<1>20. b = [a EXCEPT !.todo = Tail(@), !.gphys = p.lo + p.len, !.len = end - (p.lo + p.len),
                     !.later = IF x.unlocked THEN h ELSE @, !.done = done]
  BY <1>3, <1>4, <1>9 DEF Serve, f, s
<1> HIDE DEF done
<1>21. /\ b \in Walk /\ b.whole = a.whole /\ b.todo = Tail(a.todo)
       /\ b.gphys = p.lo + p.len /\ b.len = end - (p.lo + p.len) /\ b.done = done
  <2>1. p.lo + p.len \in Int /\ end - (p.lo + p.len) \in Int
    BY <1>2, <1>10, <1>11
  <2> HIDE DEF end
  <2> QED
    BY <1>1, <1>5, <1>12, <1>18, <1>20, <2>1 DEF Walk
<1>22. Rest(b)
  <2>1. a.gphys >= a.whole.gphys /\ end = a.whole.gphys + a.whole.len
    BY DEF Going, Rest
  <2>2. /\ b.gphys >= a.whole.gphys /\ b.len \in Nat
        /\ b.gphys + b.len = a.whole.gphys + a.whole.len
    BY <1>2, <1>10, <1>11, <1>21, <2>1
  <2> QED
    BY <1>19, <1>21, <2>2 DEF Rest
<1>23. b.gphys >= a.gphys
  BY <1>2, <1>10, <1>11, <1>21
<1>24. ~Meets(h, b.gphys, b.len)
  <2> SUFFICES ASSUME b.len > 0, b.gphys < x.gphys + x.len PROVE FALSE
    BY <1>4 DEF Meets
  <2> QED
    BY <1>2, <1>7, <1>10, <1>11, <1>21
<1> QED
  BY <1>1, <1>3, <1>18, <1>21, <1>22, <1>23, <1>24, OneVisit
----------------------------------------------------------------------------
\* The bucket lists stay, and the chunks, but for marks.
OnlyMarks ==
    /\ mmio' = mmio
    /\ \A h \in Handles :
        \/ mem'[h] = mem[h]
        \/ /\ mem[h] # None /\ mem'[h] # None /\ mem'[h].unregistered
           /\ mem'[h].gphys = mem[h].gphys /\ mem'[h].len = mem[h].len

\* A mark takes a handle away from the registered ones and changes no range.
LEMMA MarksKeep ==
    ASSUME OnlyMarks
    PROVE  /\ Bounded => Bounded'
           /\ Disjoint => Disjoint'
           /\ \A g, n : Unhooked(g, n) => Unhooked(g, n)'
           /\ \A s \in Seq(Pieces) : Given(s) => Given(s)'
           /\ \A a : Going(a) => Going(a)'
<1>1. \A h : Registered(h)' => Registered(h)
  BY DEF OnlyMarks, Registered
<1>2. \A h \in Handles : \A g, n : Registered(h)' => (Meets(h, g, n)' <=> Meets(h, g, n))
  BY DEF OnlyMarks, Registered, Meets
<1>3. \A g, n : Unhooked(g, n) => Unhooked(g, n)'
  BY <1>1, <1>2 DEF Unhooked
<1>7. \A p, g, n : OnlyOf(p, g, n) => OnlyOf(p, g, n)'
  BY <1>1, <1>2 DEF OnlyOf
<1>4. ASSUME NEW s \in Seq(Pieces), Given(s) PROVE Given(s)'
  <2> SUFFICES ASSUME NEW k \in 1 .. Len(s)
               PROVE  /\ OnlyOf(s[k].by, s[k].lo, s[k].len)'
                      /\ s[k].by # None => mem'[s[k].by] # None
    BY DEF Given
  <2>1. s[k] \in Pieces
    BY ElementOfSeq
  <2>2. s[k].by \in Handles \cup {None}
    BY <2>1 DEF Pieces
  <2>3. OnlyOf(s[k].by, s[k].lo, s[k].len) /\ (s[k].by # None => mem[s[k].by] # None)
    BY <1>4 DEF Given
  <2>4. OnlyOf(s[k].by, s[k].lo, s[k].len)'
    BY <1>7, <2>3
  <2> QED
    BY <2>2, <2>3, <2>4 DEF OnlyMarks
<1>5. ASSUME NEW a, Going(a) PROVE Going(a)'
  <2>1. Tour(a)' = Tour(a)
    BY DEF OnlyMarks, Tour, Visit
  <2>2. Over(a)' = Over(a)
    BY <2>1 DEF Over
  <2>3. OnTour(a)'
    BY <1>5, <2>1, <2>2 DEF Going, OnTour
  <2>4. Behind(a)'
    <3> SUFFICES ASSUME NEW j \in 1 .. Over(a), Registered(Tour(a)[j])'
                 PROVE  ~Meets(Tour(a)[j], a.gphys, a.len)'
      BY <2>1, <2>2 DEF Behind
    <3>1. PICK h : h = Tour(a)[j]
      OBVIOUS
    <3>2. Registered(h)' /\ h \in Handles
      BY <2>1, <3>1 DEF Registered
    <3>3. ~Meets(h, a.gphys, a.len)
      BY <1>1, <1>5, <3>1, <3>2 DEF Going, Behind
    <3>4. ~Meets(h, a.gphys, a.len)'
      BY <1>2, <3>2, <3>3
    <3> QED
      BY <2>1, <3>1, <3>4 DEF Meets
  <2>5. Given(a.done)'
    BY <1>4, <1>5 DEF Going, Walk
  <2> QED
    BY <1>5, <2>3, <2>4, <2>5 DEF Going, Rest
<1>6. Bounded => Bounded'
  BY DEF OnlyMarks, Bounded
<1>8. Disjoint => Disjoint'
  <2> SUFFICES ASSUME Disjoint, NEW g \in Handles, NEW h \in Handles, Registered(g)', Registered(h)',
                      Meets(g, mem[h].gphys, mem[h].len)'
               PROVE  g = h
    BY DEF Disjoint
  <2>1. Registered(g) /\ Registered(h) /\ mem'[g] = mem[g] /\ mem'[h] = mem[h]
    BY <1>1 DEF OnlyMarks, Registered
  <2>2. Meets(g, mem[h].gphys, mem[h].len)
    BY <2>1 DEF Meets
  <2> QED
    BY <2>1, <2>2 DEF Disjoint
<1> QED
  BY <1>3, <1>4, <1>5, <1>6, <1>8

\* Marks do not disturb what holds of the accesses.
LEMMA WalksKept ==
    ASSUME OnlyMarks, Bounded, Disjoint, DOMAIN acc' = Cpus,
           \A d \in Cpus : Home(d)' \in {"walk", "handler"} => Going(acc'[d]),
           \A d \in Cpus : Walked(d)' =>
              /\ lk'[d] = "sh" /\ acc'[d] \in Walk /\ Given(acc'[d].done)
              /\ acc'[d].done = <<>> => Unhooked(acc'[d].whole.gphys, acc'[d].whole.len)
    PROVE  WalkInv'
<1>1. Bounded' /\ Disjoint'
  BY MarksKeep
<1>2. ASSUME NEW d \in Cpus, Home(d)' \in {"walk", "handler"} PROVE Going(acc[d])'
  <2>1. PICK a : a = acc'[d]
    OBVIOUS
  <2>2. Going(a)
    BY <1>2, <2>1
  <2>3. Going(a)'
    BY <2>2, MarksKeep
  <2> QED
    BY <2>1, <2>3 DEF Going, Rest, OnTour, Behind, Tour, Over
<1>3. ASSUME NEW d \in Cpus, Walked(d)'
      PROVE  (/\ lk[d] = "sh" /\ acc[d] \in Walk /\ Given(acc[d].done)
              /\ acc[d].done = <<>> => Unhooked(acc[d].whole.gphys, acc[d].whole.len))'
  <2>1. PICK a : a = acc'[d]
    OBVIOUS
  <2>2. /\ lk'[d] = "sh" /\ a \in Walk /\ Given(a.done)
        /\ a.done = <<>> => Unhooked(a.whole.gphys, a.whole.len)
    BY <1>3, <2>1
  <2>3. a.done \in Seq(Pieces)
    BY <2>2 DEF Walk
  <2>4. Given(a.done)' /\ (a.done = <<>> => Unhooked(a.whole.gphys, a.whole.len)')
    BY <2>2, <2>3, MarksKeep
  <2> QED
    BY <2>1, <2>2, <2>4 DEF Given, OnlyOf, Unhooked, Meets, Registered
<1> QED
  BY <1>1, <1>2, <1>3 DEF WalkInv

\* Steps after which nobody is in an access who was not in it before.
LEMMA QuietWalks ==
    ASSUME WalkInv, OnlyMarks, DOMAIN acc' = Cpus,
           \A d \in Cpus : Home(d)' \in {"walk", "handler"} =>
                Home(d)' = Home(d) /\ acc'[d] = acc[d],
           \A d \in Cpus : Walked(d)' => Walked(d) /\ acc'[d] = acc[d] /\ lk'[d] = lk[d]
    PROVE  WalkInv'
<1>1. \A d \in Cpus : Home(d)' \in {"walk", "handler"} => Going(acc'[d])
  BY DEF WalkInv
<1>2. \A d \in Cpus : Walked(d)' =>
              /\ lk'[d] = "sh" /\ acc'[d] \in Walk /\ Given(acc'[d].done)
              /\ acc'[d].done = <<>> => Unhooked(acc'[d].whole.gphys, acc'[d].whole.len)
  BY DEF WalkInv
<1> QED
  BY <1>1, <1>2, WalksKept DEF WalkInv

\* Steps of an access.
LEMMA OneWalks ==
    ASSUME WalkInv, UNCHANGED <<mmio, mem>>, DOMAIN acc' = Cpus, NEW c \in Cpus,
           \A d \in Cpus : d # c => /\ at'[d] = at[d] /\ ret'[d] = ret[d]
                                    /\ acc'[d] = acc[d] /\ lk'[d] = lk[d],
           Home(c)' \in {"walk", "handler"} => Going(acc'[c]),
           Walked(c)' =>
              /\ lk'[c] = "sh" /\ acc'[c] \in Walk /\ Given(acc'[c].done)
              /\ acc'[c].done = <<>> => Unhooked(acc'[c].whole.gphys, acc'[c].whole.len)
    PROVE  WalkInv'
<1>1. OnlyMarks
  BY DEF OnlyMarks
<1>2. \A d \in Cpus : d # c => Home(d)' = Home(d) /\ (Walked(d)' <=> Walked(d))
  BY DEF Home, Walked
<1>3. \A d \in Cpus : Home(d)' \in {"walk", "handler"} => Going(acc'[d])
  BY <1>2 DEF WalkInv
<1>4. \A d \in Cpus : Walked(d)' =>
              /\ lk'[d] = "sh" /\ acc'[d] \in Walk /\ Given(acc'[d].done)
              /\ acc'[d].done = <<>> => Unhooked(acc'[d].whole.gphys, acc'[d].whole.len)
  BY <1>2 DEF WalkInv
<1> QED
  BY <1>1, <1>3, <1>4, WalksKept DEF WalkInv

\* Who is in an access under the shared lock has a share.
LEMMA WalkersHold ==
    ASSUME LockInv, WalkInv, NEW d \in Cpus, Home(d) \in {"walk", "handler"} \/ Walked(d)
    PROVE  lk[d] = "sh"
<1>1. Fits(at[d], ret[d], lk[d], lock_count[d])
  BY DEF LockInv
<1> QED
  BY <1>1 DEF Fits, Home, WalkInv

\* The result of a handler changes only whether a part went to the memory.
LEMMA ReturnedFacts ==
    ASSUME NEW s \in Seq(Pieces), Given(s), NEW h, NEW r
    PROVE  /\ Returned(s, h, r) \in Seq(Pieces) /\ Given(Returned(s, h, r))
           /\ Returned(s, h, r) = <<>> => s = <<>>
<1>1. PICK t : t = Returned(s, h, r)
  OBVIOUS
<1>2. Len(s) \in Nat /\ DOMAIN s = 1 .. Len(s)
  BY LenProperties
<1>3. t = [k \in 1 .. Len(s) |-> IF r = 0 /\ s[k].by = h
                                 THEN [s[k] EXCEPT !.memory = TRUE] ELSE s[k]]
  BY <1>1, <1>2 DEF Returned
<1>4. ASSUME NEW k \in 1 .. Len(s)
      PROVE  t[k] \in Pieces /\ t[k].by = s[k].by /\ t[k].lo = s[k].lo /\ t[k].len = s[k].len
  <2>1. s[k] \in Pieces
    BY ElementOfSeq
  <2>2. t[k] = s[k] \/ t[k] = [s[k] EXCEPT !.memory = TRUE]
    BY <1>3
  <2> QED
    BY <2>1, <2>2 DEF Pieces
<1>5. t \in [1 .. Len(s) -> Pieces]
  BY <1>3, <1>4
<1>6. t \in Seq(Pieces) /\ Len(t) = Len(s)
  BY <1>2, <1>5, IsASeq
<1>7. Given(t)
  BY <1>4, <1>6 DEF Given
<1>8. t = <<>> => s = <<>>
  BY <1>6, EmptySeq
<1> QED
  BY <1>1, <1>6, <1>7, <1>8

\* A walk goes on after the result of a handler.
LEMMA ReturnGoing ==
    ASSUME NEW a, Going(a), NEW n \in Seq(Pieces), Given(n), n = <<>> => a.done = <<>>
    PROVE  Going([a EXCEPT !.done = n])
<1>1. PICK b : b = [a EXCEPT !.done = n]
  OBVIOUS
<1>2. a \in Walk
  BY DEF Going
<1>3. /\ b \in Walk /\ b.done = n /\ b.whole = a.whole /\ b.todo = a.todo
      /\ b.gphys = a.gphys /\ b.len = a.len
  BY <1>1, <1>2 DEF Walk
<1>4. Rest(b) /\ OnTour(b) /\ Behind(b)
  BY <1>3 DEF Going, Rest, OnTour, Behind, Over, Tour
<1> QED
  BY <1>1, <1>3, <1>4 DEF Going

\* The walk of c ends here, and the others go on.
LEMMA WalkOver ==
    ASSUME NEW a \in Walk, NEW n \in Seq(Pieces)
    PROVE  LET b == [a EXCEPT !.len = 0, !.done = n]
           IN  b \in Walk /\ b.done = n /\ b.whole = a.whole /\ b.later = a.later
<1>1. PICK e : e = [a EXCEPT !.len = 0]
  OBVIOUS
<1>2. 0 \in Int
  OBVIOUS
<1>3. e \in Walk /\ e.whole = a.whole /\ e.later = a.later
  BY <1>1, <1>2 DEF Walk
<1>4. [a EXCEPT !.len = 0, !.done = n] = [e EXCEPT !.done = n]
  BY <1>1
<1> QED
  BY <1>3, <1>4 DEF Walk

\* The steps of an access keep the walks.
LEMMA WalkingStep ==
    ASSUME LockInv, DataInv, WalkInv, NEW c \in Cpus, Walking(c)
    PROVE  WalkInv'
<1>1. /\ at \in [Cpus -> Where] /\ DOMAIN acc = Cpus /\ Bounded /\ Disjoint
      /\ lk \in [Cpus -> {"out", "wait_sh", "sh", "ex"}]
  BY DEF LockInv, LockTypes, WalkInv, RwInv, RwLock
<1>2. /\ UNCHANGED <<mmio, mem, ret>> /\ DOMAIN acc' = Cpus
      /\ \A d \in Cpus : d # c => /\ at'[d] = at[d] /\ ret'[d] = ret[d] /\ acc'[d] = acc[d]
  BY <1>1 DEF Walking, access, walk_skip, walk_hit, handler_return, walk_out, unlocked_call,
     unlocked_return, access_return, lists, Goto
<1>3. \A d \in Cpus : d # c => lk'[d] = lk[d]
  BY RwFacts DEF Walking, access, walk_skip, walk_hit, handler_return, walk_out, unlocked_call,
     unlocked_return, access_return, lock
<1>4. at[c] = "walk" => Home(c) = "walk" /\ Going(acc[c]) /\ lk[c] = "sh"
  BY WalkersHold DEF Home, Calling, WalkInv
<1>5. CASE access(c)
  <2>1. PICK w \in Accesses :
          acc' = [acc EXCEPT ![c] = [gphys |-> w.gphys, len |-> w.len, whole |-> w,
            todo |-> Visit(w.gphys, w.len), later |-> None, done |-> <<>>]]
    BY <1>5 DEF access
  <2>2. Going(acc'[c])
    <3>1. PICK a : a = acc'[c]
      OBVIOUS
    <3>2. a = [gphys |-> w.gphys, len |-> w.len, whole |-> w,
               todo |-> Visit(w.gphys, w.len), later |-> None, done |-> <<>>]
      BY <1>1, <2>1, <3>1
    <3>3. Going(a)
      BY <3>2, StartGoing
    <3> QED
      BY <3>1, <3>3
  <2>3. at'[c] = "walk"
    BY <1>1, <1>5 DEF access, Goto
  <2>4. ~Walked(c)' /\ Home(c)' = "walk"
    BY <2>3 DEF Walked, Home, Calling
  <2> QED
    BY <1>2, <1>3, <2>2, <2>4, OneWalks
<1>6. CASE walk_skip(c)
  <2>1. Going(acc'[c])
    <3>1. PICK a, b : a = acc[c] /\ b = acc'[c]
      OBVIOUS
    <3>2. Going(a) /\ Continues(a) /\ ~Hit(a) /\ b = [a EXCEPT !.todo = Tail(@)]
      BY <1>1, <1>4, <1>6, <3>1 DEF walk_skip
    <3>3. Going(b)
      BY <1>1, <3>2, SkipGoing
    <3> QED
      BY <3>1, <3>3
  <2>2. ~Walked(c)' /\ Home(c)' = "walk"
    BY <1>6 DEF walk_skip, Walked, Home, Calling
  <2> QED
    BY <1>2, <1>3, <2>1, <2>2, OneWalks
<1>7. CASE walk_hit(c)
  <2>1. Going(acc'[c])
    <3>1. PICK a, b : a = acc[c] /\ b = acc'[c]
      OBVIOUS
    <3>2. Going(a) /\ Continues(a) /\ Hit(a) /\ b = Serve(a)
      BY <1>1, <1>4, <1>7, <3>1 DEF walk_hit
    <3>3. Going(b)
      BY <1>1, <3>2, HitGoing
    <3> QED
      BY <3>1, <3>3
  <2>2. at'[c] \in {"walk", "handler"}
    BY <1>1, <1>7 DEF walk_hit
  <2>3. ~Walked(c)'
    BY <2>2 DEF Walked
  <2> QED
    BY <1>2, <1>3, <2>1, <2>3, OneWalks
<1>8. CASE handler_return(c)
  <2>1. Home(c) = "handler" /\ at'[c] = "walk"
    BY <1>1, <1>8 DEF handler_return, Goto, Home, Calling
  <2>2. Going(acc'[c])
    <3>1. PICK a, b : a = acc[c] /\ b = acc'[c]
      OBVIOUS
    <3>2. PICK r \in {0, 1} : acc' = [acc EXCEPT ![c].done = Returned(@, Last(@).by, r)]
      BY <1>8 DEF handler_return
    <3>3. PICK n : n = Returned(a.done, Last(a.done).by, r)
      OBVIOUS
    <3>4. b = [a EXCEPT !.done = n]
      BY <1>1, <3>1, <3>2, <3>3
    <3>5. Going(a)
      BY <2>1, <3>1 DEF WalkInv
    <3>6. a.done \in Seq(Pieces) /\ Given(a.done)
      BY <3>5 DEF Going, Walk
    <3>7. n \in Seq(Pieces) /\ Given(n) /\ (n = <<>> => a.done = <<>>)
      BY <3>3, <3>6, ReturnedFacts
    <3> QED
      BY <3>1, <3>4, <3>5, <3>7, ReturnGoing
  <2>3. ~Walked(c)'
    BY <2>1 DEF Walked
  <2> QED
    BY <1>2, <1>3, <2>2, <2>3, OneWalks
<1>9. CASE walk_out(c)
  <2>1. PICK a, b : a = acc[c] /\ b = acc'[c]
    OBVIOUS
  <2>2. Going(a) /\ ~Continues(a) /\ a \in Walk /\ Given(a.done) /\ a.done \in Seq(Pieces)
    BY <1>4, <1>9, <2>1 DEF walk_out, Going, Walk
  <2>3. PICK n : n = (IF a.done = <<>> THEN a.done ELSE a.done \o Part(a.gphys, a.len, None))
    OBVIOUS
  <2>4. b = [a EXCEPT !.len = 0, !.done = n]
    BY <1>1, <1>9, <2>1, <2>3 DEF walk_out
  <2>5. Unhooked(a.gphys, a.len)
    BY <2>2, EndOfWalk
  <2>6. /\ a.gphys \in Nat /\ a.len \in Nat /\ a.whole.gphys \in Nat /\ a.whole.len \in Nat
    BY <2>2, GoingFacts
  <2>14. OnlyOf(None, a.gphys, a.len)
    BY <2>5 DEF Unhooked, OnlyOf
  <2>7. n \in Seq(Pieces) /\ Given(n)
    <3>1. Part(a.gphys, a.len, None) \in Seq(Pieces) /\ Given(Part(a.gphys, a.len, None))
      BY <2>14, <2>6, GivenPart
    <3> QED
      BY <2>2, <2>3, <3>1, GivenMore
  <2>8. /\ b \in Walk /\ b.done = n /\ b.whole = a.whole /\ b.later = a.later
    <3>1. a \in Walk /\ n \in Seq(Pieces)
      BY <2>2, <2>7
    <3>2. PICK d : d = [a EXCEPT !.len = 0, !.done = n]
      OBVIOUS
    <3>3. d \in Walk /\ d.done = n /\ d.whole = a.whole /\ d.later = a.later
      BY <3>1, <3>2, WalkOver
    <3> QED
      BY <2>4, <3>2, <3>3
  <2>9. n = <<>> => Unhooked(a.whole.gphys, a.whole.len)
    <3> SUFFICES ASSUME n = <<>> PROVE Unhooked(a.whole.gphys, a.whole.len)
      OBVIOUS
    <3>1. a.done = <<>>
      <4> SUFFICES ASSUME a.done # <<>> PROVE FALSE
        OBVIOUS
      <4>1. PICK t : t = Part(a.gphys, a.len, None)
        OBVIOUS
      <4>2. t \in Seq(Pieces)
        BY <2>14, <2>6, <4>1, GivenPart
      <4>3. n = a.done \o t
        BY <2>3, <4>1
      <4>4. Len(n) = Len(a.done) + Len(t) /\ Len(a.done) \in Nat /\ Len(t) \in Nat /\ Len(a.done) # 0
        BY <2>2, <4>2, <4>3, ConcatProperties, LenProperties, EmptySeq
      <4> QED
        BY <4>4
    <3>2. a.gphys = a.whole.gphys /\ a.gphys + a.len = a.whole.gphys + a.whole.len
      BY <2>2, <3>1 DEF Going, Rest
    <3>3. a.len = a.whole.len
      BY <2>6, <3>2
    <3> QED
      BY <2>5, <3>2, <3>3
  <2>10. at'[c] = "served" /\ lk' = lk
    BY <1>1, <1>9 DEF walk_out, lock
  <2>11. Home(c)' \notin {"walk", "handler"}
    BY <2>10 DEF Home, Calling
  <2>13. Walked(c)' =>
              /\ lk'[c] = "sh" /\ acc'[c] \in Walk /\ Given(acc'[c].done)
              /\ acc'[c].done = <<>> => Unhooked(acc'[c].whole.gphys, acc'[c].whole.len)
    <3> SUFFICES ASSUME Walked(c)'
                 PROVE  /\ lk'[c] = "sh" /\ b \in Walk /\ Given(b.done)
                        /\ b.done = <<>> => Unhooked(b.whole.gphys, b.whole.len)
      BY <2>1
    <3>1. lk'[c] = "sh"
      BY <1>4, <1>9, <2>10 DEF Walked, walk_out
    <3> QED
      BY <2>7, <2>8, <2>9, <3>1
  <2> QED
    BY <1>2, <1>3, <2>11, <2>13, OneWalks
<1>10. CASE unlocked_return(c)
  <2>1. at'[c] = "relocked"
    BY <1>1, <1>10 DEF unlocked_return, Goto
  <2>2. ~Walked(c)' /\ Home(c)' \notin {"walk", "handler"}
    BY <2>1 DEF Walked, Home, Calling
  <2> QED
    BY <1>2, <1>3, <2>2, OneWalks
<1>12. CASE unlocked_call(c)
  <2>1. at'[c] = "unlocked"
    BY <1>1, <1>12 DEF unlocked_call, Goto
  <2>2. ~Walked(c)' /\ Home(c)' \notin {"walk", "handler"}
    BY <2>1 DEF Walked, Home, Calling
  <2> QED
    BY <1>2, <1>3, <2>2, OneWalks
<1>11. CASE access_return(c)
  <2>1. at'[c] = "exit"
    BY <1>1, <1>11 DEF access_return, Goto
  <2>2. ~Walked(c)' /\ Home(c)' \notin {"walk", "handler"}
    BY <2>1 DEF Walked, Home, Calling
  <2> QED
    BY <1>2, <1>3, <2>2, OneWalks
<1> QED
  BY <1>5, <1>6, <1>7, <1>8, <1>9, <1>10, <1>11, <1>12 DEF Walking

\* Locking, and what does not touch the lists, keeps the accesses.
LEMMA OtherStep ==
    ASSUME LockInv, DataInv, WalkInv, NEW c \in Cpus,
           \/ Locking(c) \/ mmio_register(c) \/ register_fail(c) \/ mmio_unregister(c)
           \/ unregister_mark(c) \/ unregister_flagged(c)
           \/ sweep_start(c) \/ sweep_keep(c) \/ sweep_next(c) \/ sweep_end(c)
    PROVE  WalkInv'
<1>1. /\ at \in [Cpus -> Where] /\ ret \in [Cpus -> {"guest", "unlocked", "handler"}]
      /\ DOMAIN acc = Cpus
      /\ lk \in [Cpus -> {"out", "wait_sh", "sh", "ex"}]
  BY DEF LockInv, LockTypes, WalkInv, RwInv, RwLock
<1>2. acc' = acc
  BY DEF Locking, mmio_lock, wait_sh, mmio_unlock, unlock_test, unlock_try, mmio_register,
     register_fail, mmio_unregister, unregister_mark, unregister_flagged, sweep_start, sweep_keep,
     sweep_next, sweep_end
<1>3. OnlyMarks
  <2>1. CASE unregister_mark(c)
    <3>1. PICK p : p = un[c]
      OBVIOUS
    <3>2. /\ mem' = [mem EXCEPT ![p].unregistered = TRUE] /\ mmio' = mmio
          /\ Registered(p)
      BY <2>1, <3>1 DEF unregister_mark, Goto, DataInv, OwnInv, Unregistering
    <3>3. p \in Handles /\ mem[p] \in Chunk /\ mem \in [Handles -> Chunk \cup {None}]
      BY <3>2 DEF Registered, DataInv, DataTypes
    <3>4. /\ mem'[p] = [mem[p] EXCEPT !.unregistered = TRUE]
          /\ \A x \in Handles : x # p => mem'[x] = mem[x]
      BY <3>2, <3>3
    <3>5. /\ mem'[p] \in Chunk /\ mem'[p].unregistered
          /\ mem'[p].gphys = mem[p].gphys /\ mem'[p].len = mem[p].len
      BY <3>3, <3>4 DEF Chunk
    <3>6. mem'[p] # None /\ mem[p] # None
      BY <3>3, <3>5, MmioAssumption
    <3> QED
      BY <3>2, <3>4, <3>5, <3>6 DEF OnlyMarks
  <2>2. CASE ~unregister_mark(c)
    <3>1. UNCHANGED <<mmio, mem>>
      BY <2>2 DEF Locking, mmio_lock, wait_sh, mmio_unlock, unlock_test, unlock_try, mmio_register,
         register_fail, mmio_unregister, unregister_flagged, sweep_start, sweep_keep,
         sweep_next, sweep_end, lists
    <3> QED
      BY <3>1 DEF OnlyMarks
  <2> QED
    BY <2>1, <2>2
<1>4. \A d \in Cpus : d # c => /\ at'[d] = at[d] /\ ret'[d] = ret[d]
  BY <1>1 DEF Locking, mmio_lock, wait_sh, mmio_unlock, unlock_test, unlock_try, mmio_register,
     register_fail, mmio_unregister, unregister_mark, unregister_flagged, sweep_start, sweep_keep,
     sweep_next, sweep_end, Goto
<1>5. \A d \in Cpus : d # c => lk'[d] = lk[d]
  BY RwFacts DEF Locking, mmio_lock, wait_sh, mmio_unlock, unlock_test, unlock_try, mmio_register,
     register_fail, mmio_unregister, unregister_mark, unregister_flagged, sweep_start, sweep_keep,
     sweep_next, sweep_end, Goto, lock, try_ex
<1>6. Home(c)' \in {"walk", "handler"} => Home(c)' = Home(c)
  BY <1>1 DEF Locking, mmio_lock, wait_sh, mmio_unlock, unlock_test, unlock_try, mmio_register,
     register_fail, mmio_unregister, unregister_mark, unregister_flagged, sweep_start, sweep_keep,
     sweep_next, sweep_end, Goto, Home, Calling, After
<1>7. Walked(c)' => Walked(c) /\ lk'[c] = lk[c]
  <2> SUFFICES ASSUME Walked(c)' PROVE Walked(c) /\ lk'[c] = lk[c]
    OBVIOUS
  <2>1. wait_sh(c)
    BY <1>1 DEF Walked, Locking, mmio_lock, mmio_unlock, unlock_test, unlock_try, mmio_register,
       register_fail, mmio_unregister, unregister_mark, unregister_flagged, sweep_start, sweep_keep,
       sweep_next, sweep_end, Goto, After
  <2>2. Walked(c) /\ lk[c] = "wait_sh"
    BY <2>1, RwFacts DEF wait_sh, Walked
  <2> QED
    BY <2>2 DEF WalkInv
<1>8. \A d \in Cpus : d # c => Home(d)' = Home(d) /\ (Walked(d)' <=> Walked(d))
  BY <1>2, <1>4 DEF Home, Walked
<1> QED
  BY <1>1, <1>2, <1>3, <1>5, <1>6, <1>7, <1>8, QuietWalks

\* mmio_register checks the new range against all the handles, so that the
\* registered ranges stay disjoint.
LEMMA RegisterDisjoint ==
    ASSUME DataInv, Bounded, Disjoint, NEW r \in Ranges, NEW h \in Handles, mem[h] = None, ~Overlaps(r),
           mem' = [mem EXCEPT ![h] = [gphys |-> r.gphys, len |-> r.len,
                       unlocked |-> r.unlocked, unregistered |-> FALSE]]
    PROVE  Disjoint'
<1>1. /\ mem'[h].gphys = r.gphys /\ mem'[h].len = r.len
      /\ \A x \in Handles : x # h => mem'[x] = mem[x]
  BY DEF DataInv, DataTypes
<1>2. r.gphys \in Nat /\ r.len \in Nat /\ r.len > 0 /\ r.gphys + r.len <= PHYS
  BY MmioAssumption
<1>3. ASSUME NEW g \in Handles, g # h, Registered(g)'
      PROVE  /\ Registered(g) /\ mem[g].gphys \in Nat /\ mem[g].len \in Nat
             /\ ~(mem[g].gphys < r.gphys + r.len /\ r.gphys < mem[g].gphys + mem[g].len)
  <2>1. Registered(g)
    BY <1>1, <1>3 DEF Registered
  <2>2. g \in Elems(handle) /\ mem[g] \in Chunk /\ mem[g].gphys + mem[g].len <= PHYS /\ ~mem[g].unregistered
    BY <2>1 DEF Registered, DataInv, DataTypes, BucketsIndexHandles, Bounded
  <2>3. ~Touches(mem[g], r.gphys, r.len)
    BY <2>2 DEF Overlaps
  <2>4. PICK x \in Chunk : x = mem[g]
    BY <2>2
  <2>5. ~(x.gphys < r.gphys + r.len /\ r.gphys < x.gphys + x.len)
    BY <1>2, <2>2, <2>3, <2>4, RangeCheck
  <2> QED
    BY <2>1, <2>4, <2>5, ChunkFacts
<1> SUFFICES ASSUME NEW x \in Handles, NEW y \in Handles, Registered(x)', Registered(y)',
                    Meets(x, mem[y].gphys, mem[y].len)'
             PROVE  x = y
  BY DEF Disjoint
<1>4. /\ mem'[x].gphys < mem'[y].gphys + mem'[y].len
      /\ mem'[y].gphys < mem'[x].gphys + mem'[x].len /\ mem'[y].len > 0
  BY DEF Meets
<1>5. CASE x # h /\ y # h
  <2>1. Registered(x) /\ Registered(y) /\ Meets(x, mem[y].gphys, mem[y].len)
    BY <1>1, <1>3, <1>4, <1>5 DEF Meets
  <2> QED
    BY <2>1 DEF Disjoint
<1>6. CASE x = h /\ y # h
  BY <1>1, <1>2, <1>3, <1>4, <1>6
<1>7. CASE x # h /\ y = h
  BY <1>1, <1>2, <1>3, <1>4, <1>7
<1> QED
  BY <1>5, <1>6, <1>7

\* The lists change under the exclusive lock, where no access goes on.
LEMMA ListStep ==
    ASSUME LockInv, DataInv, WalkInv, NEW c \in Cpus,
           registered(c) \/ unregister_now(c) \/ sweep_free(c)
    PROVE  WalkInv'
<1>1. /\ at \in [Cpus -> Where] /\ ret \in [Cpus -> {"guest", "unlocked", "handler"}]
      /\ Fits(at[c], ret[c], lk[c], lock_count[c])
      /\ at[c] \in {"register", "unreg_ex", "sweep"}
  BY DEF LockInv, LockTypes, registered, unregister_now, sweep_free, Goto
<1>2. (lk[c] = "ex" /\ ret[c] # "handler") \/ at[c] = "sweep"
  BY <1>1 DEF Fits, Exclusive
<1>3. lk[c] = "ex"
  BY <1>1 DEF Fits, Exclusive
<1>4. \A d \in Cpus : d # c => Home(d) \notin {"walk", "handler"} /\ ~Walked(d)
  BY <1>3, Alone, WalkersHold
<1>5. /\ acc' = acc /\ ret' = ret
      /\ \A d \in Cpus : d # c => at'[d] = at[d]
      /\ at'[c] = "sweep_next" \/ (at'[c] = ret[c] /\ at[c] \in Calling)
  BY <1>1 DEF registered, unregister_now, sweep_free, Goto, Calling
<1>6. \A d \in Cpus : d # c => Home(d)' = Home(d) /\ (Walked(d)' <=> Walked(d))
  BY <1>5 DEF Home, Walked
<1>7. Home(c)' \notin {"walk", "handler"} /\ ~Walked(c)'
  BY <1>1, <1>2, <1>5 DEF Home, Walked, Calling
<1>8. Bounded'
  <2>1. CASE registered(c)
    <3>1. PICK r \in Ranges, h \in {h \in Handles : mem[h] = None} :
            mem' = [mem EXCEPT ![h] = [gphys |-> r.gphys, len |-> r.len,
                       unlocked |-> r.unlocked, unregistered |-> FALSE]]
      BY <2>1 DEF registered
    <3>2. mem'[h].gphys = r.gphys /\ mem'[h].len = r.len /\ \A x \in Handles : x # h => mem'[x] = mem[x]
      BY <3>1 DEF DataInv, DataTypes
    <3>3. r.gphys + r.len <= PHYS
      BY MmioAssumption
    <3> QED
      BY <3>2, <3>3 DEF WalkInv, Bounded
  <2>2. CASE unregister_now(c) \/ sweep_free(c)
    <3>1. mem' = [mem EXCEPT ![un[c]] = None]
      BY <2>2 DEF unregister_now, sweep_free, Discard
    <3>2. \A x \in Handles : mem'[x] = mem[x] \/ mem'[x] = None
      BY <3>1 DEF DataInv, DataTypes
    <3> QED
      BY <3>2 DEF WalkInv, Bounded
  <2> QED
    BY <2>1, <2>2
<1>9. Disjoint'
  <2>1. CASE registered(c)
    <3>1. PICK r \in Ranges, h \in {h \in Handles : mem[h] = None} :
            /\ ~Overlaps(r)
            /\ mem' = [mem EXCEPT ![h] = [gphys |-> r.gphys, len |-> r.len,
                       unlocked |-> r.unlocked, unregistered |-> FALSE]]
      BY <2>1 DEF registered
    <3> QED
      BY <3>1, RegisterDisjoint DEF WalkInv
  <2>2. CASE unregister_now(c) \/ sweep_free(c)
    <3>1. mem' = [mem EXCEPT ![un[c]] = None]
      BY <2>2 DEF unregister_now, sweep_free, Discard
    <3>2. \A x \in Handles : mem'[x] = mem[x] \/ mem'[x] = None
      BY <3>1 DEF DataInv, DataTypes
    <3>3. \A x \in Handles : Registered(x)' => Registered(x) /\ mem'[x] = mem[x]
      BY <3>2 DEF Registered
    <3> QED
      BY <3>3 DEF WalkInv, Disjoint, Meets
  <2> QED
    BY <2>1, <2>2
<1> QED
  BY <1>4, <1>5, <1>6, <1>7, <1>8, <1>9 DEF WalkInv

\* Every step of a processor keeps the walks.
LEMMA WalkStep ==
    ASSUME LockInv, DataInv, WalkInv, NEW c \in Cpus,
           Locking(c) \/ Walking(c) \/ Changing(c) \/ Sweeping(c)
    PROVE  WalkInv'
  BY WalkingStep, OtherStep, ListStep DEF Changing, Sweeping
----------------------------------------------------------------------------
MmioInv == LockInv /\ DataInv /\ MarkedIsSwept /\ WalkInv

\* The initial state.
LEMMA MmioInit == ASSUME Init PROVE MmioInv
<1> USE DEF Init
<1>1. LockInv
  <2>1. RwInv
    <3>1. RwReaders(Cpus, lk) = {} /\ lk \in [Cpus -> {"out", "wait_sh", "sh", "ex"}]
      BY DEF RwReaders, rw!Init
    <3> QED
      BY <3>1, FS_EmptySet DEF RwInv, RwLock, rw!Init
  <2>2. LockTypes
    BY MmioAssumption DEF LockTypes, Where
  <2>3. lk = [c \in Cpus |-> "out"]
    BY DEF rw!Init
  <2>4. \A c \in Cpus : Fits(at[c], ret[c], lk[c], lock_count[c])
    BY <2>3 DEF Fits, Exclusive, Calling
  <2> QED
    BY <2>1, <2>2, <2>4 DEF LockInv
<1>2. DataTypes
  <2>1. <<>> \in Seq(Handles)
    OBVIOUS
  <2>2. mmio \in [Buckets -> Seq(Handles)]
    BY <2>1
  <2> QED
    BY <2>1, <2>2 DEF DataTypes
<1>3. OwnInv /\ SweepInv
  BY DEF OwnInv, SweepInv, Unregistering
<1>4. BucketsIndexHandles
  <2>1. handle = <<>> /\ \A i \in Buckets : mmio[i] = <<>>
    OBVIOUS
  <2>2. <<>> \in Seq(Handles) /\ IsList(<<>>) /\ Elems(<<>>) = {} /\ SortedBy(<<>>, Keys)
    BY DEF IsList, IsInjective, Elems, Range, SortedBy
  <2>3. \A h \in Handles : mem[h] = None
    OBVIOUS
  <2>4. Index
    BY <2>1, <2>2, <2>3 DEF Index, Indexed
  <2> QED
    BY <1>2, <2>4, IndexForms
<1>5. MarkedIsSwept
  <2>1. Elems(handle) = {}
    BY DEF Elems, Range
  <2> QED
    BY <2>1 DEF MarkedIsSwept
<1>6. WalkInv
  BY DEF WalkInv, Bounded, Disjoint, Registered, Home, Walked, Calling
<1> QED
  BY <1>1, <1>2, <1>3, <1>4, <1>5, <1>6 DEF MmioInv, DataInv

\* A step that changes nothing but stopped.
LEMMA MmioStutter ==
    ASSUME MmioInv, UNCHANGED <<l, lk, lock_count, handle, mmio, mem, unregister_flag, owned,
                                at, ret, un, nxt, acc>>
    PROVE  MmioInv'
<1>1. LockInv'
  <2>1. RwInv'
    BY DEF MmioInv, LockInv, RwInv
  <2>2. LockTypes'
    BY DEF MmioInv, LockInv, LockTypes
  <2>3. \A c \in Cpus : Fits(at'[c], ret'[c], lk'[c], lock_count'[c])
    BY DEF MmioInv, LockInv
  <2> QED
    BY <2>1, <2>2, <2>3 DEF LockInv
<1>2. DataInv'
  BY QuietData DEF MmioInv, DataInv, DataTypes
<1>3. MarkedIsSwept'
  BY QuietMarks DEF MmioInv
<1>4. OnlyMarks
  BY DEF OnlyMarks
<1>5. WalkInv'
  BY <1>4, QuietWalks DEF MmioInv, WalkInv, Home, Walked
<1> QED
  BY <1>1, <1>2, <1>3, <1>5 DEF MmioInv

(* The inductive invariant: the lock and what each processor has of it,    *)
(* the lists and who owns a handle, the marks that are still to be swept,  *)
(* and how far each access has come on its tour of the buckets.            *)
THEOREM MmioInvariance == Spec => []MmioInv
<1>1. Init => MmioInv
  BY MmioInit
<1>2. MmioInv /\ [Next]_vars => MmioInv'
  <2> SUFFICES ASSUME MmioInv, [Next]_vars PROVE MmioInv'
    OBVIOUS
  <2>1. CASE UNCHANGED vars
    BY <2>1, MmioStutter DEF vars
  <2>2. ASSUME NEW c \in Cpus, Locking(c) \/ Walking(c) \/ Changing(c) \/ Sweeping(c)
        PROVE  MmioInv'
    BY <2>2, LockStep, DataStep, MarkStep, WalkStep DEF MmioInv
  <2>3. ASSUME NEW c \in Cpus, Stop(c) PROVE MmioInv'
    BY <2>3, MmioStutter DEF Stop, lock, lists
  <2> QED
    BY <2>1, <2>2, <2>3 DEF Next
<1> QED
  BY <1>1, <1>2, PTL DEF Spec

(* mmio.c, add and del: the handle list and the sorted bucket lists never  *)
(* disagree, whatever registers, unregisters and sweeps on any number of   *)
(* processors.                                                             *)
THEOREM BucketsAreIndex == Spec => []BucketsIndexHandles
<1>1. MmioInv => BucketsIndexHandles
  BY DEF MmioInv, DataInv
<1> QED
  BY <1>1, MmioInvariance, PTL

(* mmio_unregister and mmio_unlock's sweep: a handle that is only marked,  *)
(* since its processor is inside an access, is never forgotten.            *)
THEOREM MarksAreSwept == Spec => []MarkedIsSwept
<1>1. MmioInv => MarkedIsSwept
  BY DEF MmioInv
<1> QED
  BY <1>1, MmioInvariance, PTL

(* do_mmio_access_memory and mmio_access_memory under the shared lock: no  *)
(* walk follows the link of, or calls the handler of, a handle that was    *)
(* freed.                                                                  *)
THEOREM NoWalkSeesFreed == Spec => []WalksSeeNoFreed
<1>1. MmioInv => WalksSeeNoFreed
  <2> SUFFICES ASSUME MmioInv, NEW c \in Walkers
               PROVE  /\ \A h \in Elems(acc[c].todo) : mem[h] # None
                      /\ \A k \in DOMAIN acc[c].done :
                            acc[c].done[k].by # None => mem[acc[c].done[k].by] # None
    BY DEF WalksSeeNoFreed
  <2>1. PICK a : a = acc[c]
    OBVIOUS
  <2>2. Home(c) \in {"walk", "handler"} /\ c \in Cpus
    BY DEF Walkers, Home, Calling
  <2>3. Going(a) /\ DataInv
    BY <2>1, <2>2 DEF MmioInv, WalkInv
  <2>4. PICK V : V = Tour(a)
    OBVIOUS
  <2>5. /\ a.whole \in Accesses /\ a.todo \in Seq(Handles) /\ Len(a.todo) \in Nat
        /\ V \in Seq(Handles) /\ Len(V) \in Nat
        /\ Over(a) = Len(V) - Len(a.todo) /\ Over(a) \in 0 .. Len(V)
    BY <2>3, <2>4, GoingFacts
  <2>6. \A j \in 1 .. Len(V) : mem[V[j]] # None
    <3>1. V = Visit(a.whole.gphys, a.whole.len)
      BY <2>4 DEF Tour
    <3> QED
      BY <2>3, <2>5, <3>1, TourFacts
  <2>7. ASSUME NEW h \in Elems(a.todo) PROVE mem[h] # None
    <3>1. PICK j \in 1 .. Len(a.todo) : a.todo[j] = h
      BY <2>5, LenProperties DEF Elems, Range
    <3>2. Over(a) + j \in 1 .. Len(V) /\ h = V[Over(a) + j]
      <4>1. a.todo[j] = V[Over(a) + j]
        BY <2>3, <2>4 DEF Going, OnTour
      <4> QED
        BY <2>5, <3>1, <4>1
    <3> QED
      BY <2>6, <3>2
  <2>8. DOMAIN a.done = 1 .. Len(a.done) /\ Given(a.done)
    BY <2>3, LenProperties DEF Going, Walk
  <2>9. \A k \in DOMAIN a.done : a.done[k].by # None => mem[a.done[k].by] # None
    BY <2>8 DEF Given
  <2> QED
    BY <2>1, <2>7, <2>9
<1> QED
  BY <1>1, MmioInvariance, PTL

(* do_mmio_access_memory's splitting of an access: a byte of a registered  *)
(* range goes to the memory only after its own handler returned 0, and is  *)
(* put to no other handler, for every set of ranges, every access and      *)
(* every number of handlers that the access touches.                       *)
THEOREM DeviceFirst == Spec => []DeviceAskedFirst
<1>1. MmioInv => DeviceAskedFirst
  <2> SUFFICES ASSUME MmioInv, NEW c \in Cpus, c \in Walkers \/ at[c] = "served",
                      NEW h \in Live, NEW x \in Bytes(mem[h].gphys, mem[h].len)
               PROVE  /\ x \in ToMemory(c) => x \in PutTo(c, h)
                      /\ \A g \in Handles \ {h} : x \notin PutTo(c, g)
    BY DEF DeviceAskedFirst
  <2>1. PICK a : a = acc[c]
    OBVIOUS
  <2>2. /\ a \in Walk /\ Given(a.done)
        /\ at[c] = "served" /\ a.done = <<>> => Unhooked(a.whole.gphys, a.whole.len)
    BY <2>1 DEF MmioInv, WalkInv, Walkers, Home, Calling, Walked, Going
  <2>3. Registered(h) /\ h \in Handles /\ mem[h] \in Chunk
    BY DEF Live, MmioInv, DataInv, DataTypes, BucketsIndexHandles, Registered
  <2>4. mem[h].gphys \in Nat /\ mem[h].len \in Nat
    BY <2>3, ChunkFacts
  <2>5. ASSUME NEW g \in Int, NEW n \in Int, x \in Bytes(g, n) PROVE Meets(h, g, n)
    BY <2>4, <2>5 DEF Meets, Bytes
  <2>6. ASSUME NEW k \in DOMAIN a.done, x \in Bytes(a.done[k].lo, a.done[k].len)
        PROVE  a.done[k].by = h
    <3>1. a.done \in Seq(Pieces) /\ k \in 1 .. Len(a.done)
      BY <2>2, LenProperties DEF Walk
    <3>2. a.done[k] \in Pieces
      BY <3>1, ElementOfSeq
    <3>3. OnlyOf(a.done[k].by, a.done[k].lo, a.done[k].len)
      BY <2>2, <3>1 DEF Given
    <3>4. Meets(h, a.done[k].lo, a.done[k].len)
      BY <2>5, <2>6, <3>2 DEF Pieces
    <3> QED
      BY <2>3, <3>3, <3>4 DEF OnlyOf
  <2>7. a.whole.gphys \in Int /\ a.whole.len \in Int
    <3>1. a.whole \in Accesses
      BY <2>2 DEF Walk
    <3> QED
      BY <3>1, MmioAssumption
  <2>8. ~(at[c] = "served" /\ a.done = <<>> /\ x \in Bytes(a.whole.gphys, a.whole.len))
    BY <2>2, <2>3, <2>5, <2>7 DEF Unhooked
  <2>9. x \in ToMemory(c) => \E k \in DOMAIN a.done : x \in Bytes(a.done[k].lo, a.done[k].len)
    BY <2>1, <2>8 DEF ToMemory
  <2>10. ASSUME NEW g PROVE x \in PutTo(c, g) <=> \E k \in DOMAIN a.done :
            a.done[k].by = g /\ x \in Bytes(a.done[k].lo, a.done[k].len)
    BY <2>1 DEF PutTo
  <2> QED
    BY <2>6, <2>9, <2>10
<1> QED
  BY <1>1, MmioInvariance, PTL
=============================================================================

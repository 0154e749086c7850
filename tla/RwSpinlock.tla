----------------------------- MODULE RwSpinlock -----------------------------
(***************************************************************************)
(* The reader-writer lock of include/core/x86/spinlock.h.  The sign bit of *)
(* the lock word is the writer, the other bits count the readers.  A       *)
(* reader counts itself at once and then waits for the sign to clear; a    *)
(* writer tries to exchange 0 for the sign.  A locked instruction, and a   *)
(* test of the word, is one step.                                          *)
(***************************************************************************)
EXTENDS Integers, FiniteSets

CONSTANTS
    Cpus,
    SIGN            \* 0x80000000

\* What the users of the lock provide: more bits than processors.
RwAssumption ==
    /\ IsFiniteSet(Cpus)
    /\ SIGN \in Nat /\ Cardinality(Cpus) < SIGN

VARIABLES
    l,              \* the lock word
    pc

vars == <<l, pc>>

Negative == l >= SIGN

Init ==
    /\ l = 0
    /\ pc = [c \in Cpus |-> "out"]

Goto(c, from, to) == pc[c] = from /\ pc' = [pc EXCEPT ![c] = to]

rw_spinlock_lock_sh(c) ==
    /\ l' = (l + 1) % (2 * SIGN)
    /\ Goto(c, "out", IF Negative THEN "wait_sh" ELSE "sh")

rw_spinlock_wait_sh(c) ==
    /\ ~Negative
    /\ Goto(c, "wait_sh", "sh")
    /\ UNCHANGED l

rw_spinlock_unlock_sh(c) ==
    /\ l' = (l - 1) % (2 * SIGN)
    /\ Goto(c, "sh", "out")

\* Mutant: only another writer keeps a writer out.
Idle_NoWriter == ~Negative
Idle == l = 0

\* The cmpxchg of rw_spinlock_lock_ex, repeated until it succeeds, and the
\* one of rw_spinlock_trylock_ex; a failure changes nothing.
rw_spinlock_lock_ex(c) ==
    /\ Idle
    /\ l' = SIGN
    /\ Goto(c, "out", "ex")

\* Mutant: the word is cleared, and with it the readers that wait.
WithoutWriter_Zero == 0
WithoutWriter == l % SIGN

rw_spinlock_unlock_ex(c) ==
    /\ l' = WithoutWriter
    /\ Goto(c, "ex", "out")

Next == \E c \in Cpus : \/ rw_spinlock_lock_sh(c) \/ rw_spinlock_wait_sh(c)
                        \/ rw_spinlock_unlock_sh(c)
                        \/ rw_spinlock_lock_ex(c) \/ rw_spinlock_unlock_ex(c)

Spec == Init /\ [][Next]_vars
----------------------------------------------------------------------------
At(where) == {c \in Cpus : pc[c] \in where}

(* The word counts the readers, those that wait included, and its sign is  *)
(* set exactly while a writer holds the lock.                              *)
LockWord ==
    /\ l % SIGN = Cardinality(At({"wait_sh", "sh"}))
    /\ Negative <=> At({"ex"}) # {}

(* A writer excludes everybody.                                            *)
WriterAlone == \A c \in At({"ex"}) : At({"sh", "ex"}) = {c}

----------------------------------------------------------------------------
(* A waiting reader goes on looking; a writer leaves the critical section. *)
Fairness == \A c \in Cpus : WF_vars(rw_spinlock_wait_sh(c)) /\ WF_vars(rw_spinlock_unlock_ex(c))
FairSpec == Spec /\ Fairness

(* A reader waits for one writer at most, so it gets the lock.  Writers    *)
(* may wait for ever.                                                      *)
ReaderGetsLock == \A c \in Cpus : pc[c] = "wait_sh" ~> pc[c] = "sh"
=============================================================================

---------------------------- MODULE ThreadProofs ----------------------------
(***************************************************************************)
(* Proofs about the scheduler of Thread, for every number of processors,   *)
(* threads and stacks, with and without THREAD_1CPU.                       *)
(***************************************************************************)
EXTENDS Thread, CoreTheorems

(* What a processor's place in thread.c says about its thread.             *)
LocalInv ==
    \A c \in Cpus :
        /\ Online(c) => /\ tid[c] \in Tids
                        /\ cpunum[tid[c]] \in {CPUNUM_ANY, c}
        /\ pc[c] = "wake" => target[c] \in Tids
        /\ pc[c] = "switch" => oldtid[c] \in Tids /\ thread_lock = c
        /\ pc[c] \in {"run", "wake", "switch"} =>
              state[tid[c]] \in {"RUN", "WILL_STOP"}

(* The boot thread of a processor is always ready: it runs on its          *)
(* processor, or waits for it in the run queue, in state THREAD_RUN.       *)
BootInv ==
    /\ \A t \in Tids : cpunum[t] # CPUNUM_ANY =>
          state[t] = "RUN" \/ t \in Elems(td_free)
    /\ \A c \in Cpus : Online(c) =>
          \E t \in Tids : /\ cpunum[t] = c
                          /\ tid[c] = t \/ t \in Elems(td_runnable)

(* With THREAD_1CPU a processor that is in schedule(), or that runs a      *)
(* thread made by thread_new, owns thread_cpu.                             *)
OneCpuInv ==
    \A c \in Cpus :
        /\ pc[c] = "unskip" => THREAD_1CPU /\ ~Made(c)
        /\ THREAD_1CPU /\ pc[c] \in {"sched", "unskip"} => thread_cpu = c
        /\ THREAD_1CPU /\ Online(c) /\ Made(c) => thread_cpu = c

IInv == /\ TypeOK
        /\ LocalInv
        /\ OneOwner
        /\ BootInv
        /\ OneCpuInv
        /\ ExitNeverReturns
        /\ NoBadState
----------------------------------------------------------------------------
\* NONE and CPUNUM_ANY are outside the ranges they are used with.
LEMMA Constants ==
    /\ NONE \notin Cpus /\ NONE \notin Tids /\ CPUNUM_ANY \notin Cpus
    /\ 0 \in Cpus /\ 0 \in Pids
    /\ BootStack \in [Cpus -> Stacks]
    /\ Heap \subseteq Stacks /\ NULL \notin Stacks
  BY ThreadAssumption DEF NONE, CPUNUM_ANY, Cpus, Tids, Stacks

\* thread_init_global establishes the invariant.
LEMMA InitInv == Init => IInv
<1> SUFFICES ASSUME Init PROVE IInv
  OBVIOUS
<1>1. /\ td_free \in Seq(Tids)
      /\ IsInjective(td_free)
      /\ Range(td_free) = Tids
  <2> DEFINE N == MAXNUM_OF_THREADS
  <2>1. N \in Nat /\ Tids = 0 .. N - 1
    BY ThreadAssumption DEF Tids
  <2> HIDE DEF N
  <2>2. td_free = [i \in 1 .. N |-> i - 1]
    BY DEF Init, N
  <2>3. \A i \in 1 .. N : i - 1 \in Tids
    BY <2>1
  <2>4. td_free \in [1 .. N -> Tids]
    BY <2>2, <2>3
  <2>5. td_free \in Seq(Tids)
    BY <2>1, <2>4, SeqDef
  <2>6. IsInjective(td_free)
    BY <2>1, <2>2 DEF IsInjective
  <2>7. \A t \in Tids : t + 1 \in 1 .. N /\ t = (t + 1) - 1
    BY <2>1
  <2>8. \A t \in Tids : t \in Range(td_free)
    BY <2>2, <2>7 DEF Range
  <2>9. Range(td_free) \subseteq Tids
    BY <2>4 DEF Range
  <2> QED
    BY <2>5, <2>6, <2>8, <2>9
<1>2. td_runnable \in Seq(Tids) /\ IsInjective(td_runnable) /\ Range(td_runnable) = {}
  BY DEF Init, IsInjective, Range
<1>3. TypeOK
  <2>1. THREAD_1CPU \in BOOLEAN
    BY ThreadAssumption, Zenon DEF Init
  <2> QED
    BY <1>1, <1>2, <2>1, Constants DEF Init, TypeOK, ThreadState, PC
<1>4. \A c \in Cpus : pc[c] = "off"
  BY DEF Init
<1>5. Current = {} /\ Waking = {}
  BY <1>4 DEF Current, Waking, Online
<1>6. OneOwner
  BY <1>1, <1>2, <1>4, <1>5 DEF OneOwner, Elems, IsList, Init, Online
<1>7. LocalInv /\ BootInv /\ OneCpuInv /\ ExitNeverReturns /\ NoBadState
  BY <1>1, <1>4 DEF LocalInv, BootInv, OneCpuInv, ExitNeverReturns, NoBadState,
                    Online, Init, Elems
<1> QED
  BY <1>3, <1>6, <1>7 DEF IInv

\* The parts of the invariant about the two lists, unfolded.
LEMMA ListFacts ==
    ASSUME IInv
    PROVE  /\ td_free \in Seq(Tids) /\ IsList(td_free)
           /\ td_runnable \in Seq(Tids) /\ IsList(td_runnable)
           /\ Elems(td_free) \subseteq Tids
           /\ Elems(td_runnable) \subseteq Tids
           /\ Current \subseteq Tids /\ Waking \subseteq Tids
<1>1. td_free \in Seq(Tids) /\ td_runnable \in Seq(Tids)
  BY DEF IInv, TypeOK
<1>2. IsList(td_free) /\ IsList(td_runnable)
  BY DEF IInv, OneOwner
<1>3. Current \subseteq Tids /\ Waking \subseteq Tids
  BY DEF IInv, LocalInv, Current, Waking
<1> QED
  BY <1>1, <1>2, <1>3, ElemsFacts

\* The boot thread of a processor is in state THREAD_RUN, queued or running.
LEMMA BootRuns ==
    ASSUME IInv, NEW t \in Tids, cpunum[t] # CPUNUM_ANY,
           t \in Elems(td_runnable) \cup Current
    PROVE  state[t] = "RUN" /\ t \notin Elems(td_free)
  BY DEF IInv, BootInv, OneOwner

\* The critical section of schedule() that takes the thread at place i.
LEMMA ScheduleFoundInv ==
    ASSUME IInv, NEW c \in Cpus, NEW i \in DOMAIN td_runnable,
           schedule_found(c, i)
    PROVE  IInv'
<1> DEFINE d == td_runnable[i]
           old == tid[c]
           rest == LIST1_DEL(td_runnable, d)
<1>1. TypeOK /\ LocalInv /\ OneOwner /\ BootInv /\ OneCpuInv
  BY DEF IInv
<1>2. /\ pc[c] = "sched" /\ Online(c) /\ Unlocked
      /\ Eligible(c, d)
      /\ free_old_stack /\ thread_data_save_and_load(c, old, d)
      /\ leave_old(c, old, rest) /\ unskip_boot(d) /\ keep_lock(c)
      /\ tid' = [tid EXCEPT ![c] = d]
      /\ oldtid' = [oldtid EXCEPT ![c] = old]
      /\ pc' = [pc EXCEPT ![c] = "switch"]
      /\ UNCHANGED <<cpunum, context, sp, target, thread_cpu0only, THREAD_1CPU, home>>
  BY DEF schedule_found, Online
<1>3. d \in Elems(td_runnable) /\ d \in Tids /\ state[d] = "RUN"
  BY <1>1, ListFacts, ElemsFacts DEF OneOwner
<1>4. /\ rest \in Seq(Tids) /\ IsList(rest)
      /\ Elems(rest) = Elems(td_runnable) \ {d}
  BY <1>3, ListFacts, DelFacts
<1>5. old \in Tids /\ old \in Current /\ state[old] # "STOP"
  BY <1>1, <1>2 DEF LocalInv, Current, OneOwner
<1>6. old \notin Elems(td_free) /\ old \notin Elems(td_runnable)
  BY <1>1, <1>5 DEF OneOwner
<1>7. /\ LIST1_ADD(td_free, old) \in Seq(Tids)
      /\ IsList(LIST1_ADD(td_free, old))
      /\ Elems(LIST1_ADD(td_free, old)) = Elems(td_free) \cup {old}
  BY <1>5, <1>6, ListFacts, AddFacts
<1>8. /\ LIST1_ADD(rest, old) \in Seq(Tids)
      /\ IsList(LIST1_ADD(rest, old))
      /\ Elems(LIST1_ADD(rest, old)) = (Elems(td_runnable) \ {d}) \cup {old}
  BY <1>4, <1>5, <1>6, AddFacts
<1>9. panicked' = panicked
  BY <1>5 DEF schedule_found
<1> HIDE DEF d, old, rest
<1>10. /\ td_free' \in Seq(Tids) /\ IsList(td_free')
       /\ td_runnable' \in Seq(Tids) /\ IsList(td_runnable')
       /\ Elems(td_free') = IF state[old] = "EXIT" THEN Elems(td_free) \cup {old}
                            ELSE Elems(td_free)
       /\ Elems(td_runnable') = IF state[old] = "RUN"
                                THEN (Elems(td_runnable) \ {d}) \cup {old}
                                ELSE Elems(td_runnable) \ {d}
       /\ state' = IF state[old] = "WILL_STOP"
                   THEN [state EXCEPT ![old] = "STOP"] ELSE state
       /\ old_stack' \in {NULL, stackaddr[c]}
  BY <1>2, <1>4, <1>5, <1>7, <1>8, ListFacts DEF leave_old
<1>11. TypeOK'
  BY <1>1, <1>2, <1>3, <1>5, <1>9, <1>10, Constants
     DEF TypeOK, free_old_stack, thread_data_save_and_load, ThreadState, PC,
         unskip_boot, keep_lock
<1>12. LocalInv'
  <2>1. \A x \in Cpus : x # c /\ Online(x) => tid[x] # old /\ pc[x] # "switch"
    BY <1>1, <1>2, Constants DEF OneOwner, LocalInv, Unlocked, old
  <2>2. cpunum[d] \in {CPUNUM_ANY, c}
    BY <1>2 DEF Eligible
  <2> QED
    BY <1>1, <1>2, <1>3, <1>5, <1>6, <1>10, <2>1, <2>2
       DEF TypeOK, LocalInv, Online, keep_lock
<1>13. Current' = (Current \ {old}) \cup {d} /\ Waking' = Waking
  <2>1. \A x \in Cpus : /\ Online(x)' <=> Online(x)
                        /\ pc'[x] = "wake" <=> pc[x] = "wake"
    BY <1>1, <1>2 DEF TypeOK, Online
  <2>2. Waking' = Waking
    BY <1>2, <2>1 DEF Waking
  <2>3. \A x \in Cpus : tid'[x] = IF x = c THEN d ELSE tid[x]
    BY <1>1, <1>2 DEF TypeOK
  <2>4. \A x \in Cpus : Online(x) /\ x # c => tid[x] # old
    BY <1>1, <1>2 DEF OneOwner, old
  <2>5. Current' = {tid'[x] : x \in {y \in Cpus : Online(y)}}
    BY <2>1 DEF Current
  <2>6. ASSUME NEW t PROVE t \in Current' <=> t \in (Current \ {old}) \cup {d}
    BY <1>2, <2>3, <2>4, <2>5 DEF Current, old
  <2> QED
    BY <2>2, <2>6
<1>14. OneOwner'
  <2>1. \A c1, c2 \in Cpus :
           (Online(c1) /\ Online(c2))' /\ c1 # c2 => tid'[c1] # tid'[c2]
    <3>1. \A x \in Cpus : Online(x) => tid[x] # d
      BY <1>1, <1>3 DEF OneOwner, Current
    <3>2. \A x \in Cpus : /\ Online(x)' => Online(x)
                          /\ tid'[x] = IF x = c THEN d ELSE tid[x]
      BY <1>1, <1>2 DEF TypeOK, Online
    <3> QED
      BY <1>1, <3>1, <3>2 DEF OneOwner
  <2>2. \A c1, c2 \in Cpus :
           pc'[c1] = "wake" /\ pc'[c2] = "wake" /\ c1 # c2 => target'[c1] # target'[c2]
    BY <1>1, <1>2 DEF OneOwner, TypeOK
  <2>3. /\ Elems(td_free') \cap Elems(td_runnable') = {}
        /\ (Elems(td_free') \cup Elems(td_runnable')) \cap (Current' \cup Waking') = {}
        /\ Current' \cap Waking' = {}
    BY <1>1, <1>3, <1>5, <1>6, <1>10, <1>13 DEF OneOwner
  <2>4. /\ \A t \in Elems(td_free') : state'[t] = "EXIT"
        /\ \A t \in Elems(td_runnable') \cup Waking' : state'[t] = "RUN"
        /\ \A t \in Current' : state'[t] # "STOP"
    <3>1. \A t \in Tids : state'[t] = IF t = old /\ state[old] = "WILL_STOP"
                                      THEN "STOP" ELSE state[t]
      BY <1>1, <1>10 DEF TypeOK
    <3> QED
      BY <1>1, <1>3, <1>5, <1>6, <1>10, <1>13, <3>1, ListFacts DEF OneOwner
  <2>5. ASSUME NEW t \in Tids, state'[t] # "STOP"
        PROVE  t \in Elems(td_free') \cup Elems(td_runnable') \cup Current' \cup Waking'
    <3>1. CASE t = old
      <4>1. state[old] \in {"EXIT", "RUN"}
        BY <1>1, <1>5, <1>10, <2>5, <3>1 DEF TypeOK, ThreadState
      <4> QED
        BY <1>10, <3>1, <4>1
    <3>2. CASE t # old
      <4>1. state[t] # "STOP"
        BY <1>1, <1>10, <2>5, <3>2 DEF TypeOK
      <4> QED
        BY <1>1, <1>10, <1>13, <3>2, <4>1 DEF OneOwner
    <3> QED
      BY <3>1, <3>2
  <2> QED
    BY <1>10, <2>1, <2>2, <2>3, <2>4, <2>5 DEF OneOwner
<1>15. BootInv'
  <2>1. \A t \in Tids : cpunum'[t] # CPUNUM_ANY =>
           state'[t] = "RUN" \/ t \in Elems(td_free')
    BY <1>1, <1>2, <1>10 DEF TypeOK, BootInv
  <2>2. ASSUME NEW x \in Cpus, Online(x)'
        PROVE  \E t \in Tids : /\ cpunum'[t] = x
                               /\ tid'[x] = t \/ t \in Elems(td_runnable')
    <3>1. Online(x)
      BY <1>1, <1>2, <2>2 DEF Online, TypeOK
    <3>2. PICK t \in Tids : /\ cpunum[t] = x
                            /\ tid[x] = t \/ t \in Elems(td_runnable)
      BY <1>1, <3>1 DEF BootInv
    <3>3. cpunum'[t] = x /\ state[t] = "RUN"
      BY <1>2, <3>1, <3>2, BootRuns, Constants DEF Current
    <3>4. t = d => x = c
      BY <1>2, <3>2, Constants DEF Eligible
    <3>5. tid'[x] = t \/ t \in Elems(td_runnable')
      BY <1>1, <1>2, <1>10, <3>2, <3>3, <3>4 DEF TypeOK, old
    <3> QED
      BY <3>3, <3>5
  <2> QED
    BY <2>1, <2>2 DEF BootInv
<1>16. OneCpuInv'
  BY <1>1, <1>2, <1>3
     DEF TypeOK, OneCpuInv, Online, Made, unskip_boot
<1>17. ExitNeverReturns' /\ NoBadState'
  BY <1>2, <1>9 DEF IInv, TypeOK, ExitNeverReturns, NoBadState
<1> QED
  BY <1>11, <1>12, <1>14, <1>15, <1>16, <1>17 DEF IInv
\* A step that moves no thread and no processor between the owners.
LEMMA QuietInv ==
    ASSUME IInv,
           UNCHANGED <<state, cpunum, td_free, td_runnable, tid, target>>,
           \A x \in Cpus : /\ pc'[x] = "off" <=> pc[x] = "off"
                           /\ pc'[x] = "wake" <=> pc[x] = "wake"
    PROVE  OneOwner' /\ BootInv'
<1>1. \A x \in Cpus : Online(x)' <=> Online(x)
  BY DEF Online
<1>2. Current' = Current /\ Waking' = Waking
  BY <1>1 DEF Current, Waking
<1>3. OneOwner'
  BY <1>1, <1>2 DEF IInv, OneOwner
<1>4. BootInv'
  BY <1>1 DEF IInv, BootInv
<1> QED
  BY <1>3, <1>4

\* schedule() up to the lock: a thread that exits is not sent back by
\* schedule_skip, as the processor that runs it owns thread_cpu.
LEMMA ScheduleEnterInv ==
    ASSUME IInv, NEW c \in Cpus, schedule_enter(c)
    PROVE  IInv'
<1>1. TypeOK /\ LocalInv /\ OneOwner /\ BootInv /\ OneCpuInv
  BY DEF IInv
<1>2. /\ pc[c] \in {"run", "exit"} /\ Online(c)
      /\ pc' = [pc EXCEPT ![c] = IF Skips(c) THEN Return(c) ELSE "sched"]
      /\ UNCHANGED <<tdvars, listvars, cpuvars, thread_lock, thread_cpu0only, THREAD_1CPU,
                     panicked, home>>
  BY DEF schedule_enter, Online
<1>3. Skips(c) => Return(c) = "run" /\ state[tid[c]] = "RUN" /\ ~Made(c)
  <2>1. Skips(c) => ~Made(c)
    BY <1>1, <1>2 DEF Skips, OneCpuInv
  <2>2. ~Made(c) => state[tid[c]] = "RUN"
    BY <1>1, <1>2, BootRuns DEF LocalInv, Current, Made
  <2> QED
    BY <2>1, <2>2 DEF Return
<1>4. pc'[c] \in {"run", "sched"} /\ \A x \in Cpus : x # c => pc'[x] = pc[x]
  BY <1>1, <1>2, <1>3 DEF TypeOK
<1>5. TypeOK'
  BY <1>1, <1>2, <1>4 DEF TypeOK, schedule_enter, tdvars, listvars, cpuvars, PC
<1>6. LocalInv'
  BY <1>1, <1>2, <1>3, <1>4 DEF LocalInv, Online, tdvars, listvars, cpuvars, Return
<1>7. OneOwner' /\ BootInv'
  BY <1>2, <1>4, QuietInv DEF Online, tdvars, listvars, cpuvars
<1>8. OneCpuInv'
  <2>1. THREAD_1CPU /\ ~Skips(c) => thread_cpu \in {NONE, c} /\ thread_cpu' = c
    BY DEF Skips, schedule_enter
  <2>2. ~THREAD_1CPU \/ Skips(c) => thread_cpu' = thread_cpu
    BY DEF schedule_enter
  <2>3. Skips(c) => pc'[c] = "run" /\ ~Made(c)
    BY <1>1, <1>2, <1>3 DEF TypeOK
  <2>4. \A x \in Cpus : Made(x)' <=> Made(x)
    BY <1>2 DEF Made, tdvars, cpuvars
  <2> QED
    BY <1>1, <1>2, <1>4, <2>1, <2>2, <2>3, <2>4, Constants DEF OneCpuInv, Online
<1>9. ExitNeverReturns' /\ NoBadState'
  BY <1>2, <1>4 DEF IInv, ExitNeverReturns, NoBadState
<1> QED
  BY <1>5, <1>6, <1>7, <1>8, <1>9 DEF IInv

\* schedule() when nobody is eligible: only a boot thread can be here,
\* since behind any other thread its boot thread waits.
LEMMA ScheduleNoneInv ==
    ASSUME IInv, NEW c \in Cpus, schedule_none(c)
    PROVE  IInv'
<1>1. TypeOK /\ LocalInv /\ OneOwner /\ BootInv /\ OneCpuInv
  BY DEF IInv
<1>2. /\ pc[c] = "sched" /\ Online(c)
      /\ \A t \in Elems(td_runnable) : ~Eligible(c, t)
      /\ old_stack' = NULL /\ heap' = heap \ {old_stack}
      /\ pc' = [pc EXCEPT ![c] = IF THREAD_1CPU THEN "unskip" ELSE Return(c)]
      /\ UNCHANGED <<tdvars, cpuvars, td_free, td_runnable, thread_lock,
                     thread_cpu0only, THREAD_1CPU, thread_cpu, panicked, home>>
  BY DEF schedule_none, Online, free_old_stack
<1>3. ~Made(c) /\ state[tid[c]] = "RUN"
  <2>1. PICK t \in Tids : /\ cpunum[t] = c
                          /\ tid[c] = t \/ t \in Elems(td_runnable)
    BY <1>1, <1>2 DEF BootInv
  <2>2. Eligible(c, t)
    BY <2>1 DEF Eligible
  <2>3. tid[c] = t
    BY <1>2, <2>1, <2>2
  <2> QED
    BY <1>2, <2>1, <2>3, BootRuns, Constants DEF Made, Current
<1>4. /\ pc'[c] \in {"run", "unskip"}
      /\ pc'[c] = "unskip" <=> THREAD_1CPU
      /\ \A x \in Cpus : x # c => pc'[x] = pc[x]
  BY <1>1, <1>2, <1>3, ThreadAssumption DEF TypeOK, Return
<1>5. TypeOK'
  BY <1>1, <1>2, <1>4 DEF TypeOK, tdvars, cpuvars, PC
<1>6. LocalInv'
  BY <1>1, <1>2, <1>3, <1>4 DEF LocalInv, Online, tdvars, cpuvars
<1>7. OneOwner' /\ BootInv'
  BY <1>2, <1>4, QuietInv DEF Online, tdvars, cpuvars
<1>8. OneCpuInv'
  BY <1>1, <1>2, <1>3, <1>4 DEF OneCpuInv, Online, Made, tdvars, cpuvars
<1>9. ExitNeverReturns' /\ NoBadState'
  BY <1>2, <1>4 DEF IInv, ExitNeverReturns, NoBadState
<1> QED
  BY <1>5, <1>6, <1>7, <1>8, <1>9 DEF IInv

\* The release of thread_cpu behind the unlock.
LEMMA ScheduleUnskipInv ==
    ASSUME IInv, NEW c \in Cpus, schedule_unskip(c)
    PROVE  IInv'
<1>1. TypeOK /\ LocalInv /\ OneOwner /\ BootInv /\ OneCpuInv
  BY DEF IInv
<1>2. /\ pc[c] = "unskip" /\ Online(c)
      /\ thread_cpu' = NONE
      /\ pc' = [pc EXCEPT ![c] = Return(c)]
      /\ UNCHANGED <<tdvars, listvars, cpuvars, thread_lock, thread_cpu0only, THREAD_1CPU,
                     panicked, home>>
  BY DEF schedule_unskip, Online
<1>3. Return(c) = "run" /\ state[tid[c]] = "RUN"
  BY <1>1, <1>2, BootRuns DEF OneCpuInv, Made, LocalInv, Current, Return
<1>4. pc'[c] = "run" /\ \A x \in Cpus : x # c => pc'[x] = pc[x]
  BY <1>1, <1>2, <1>3 DEF TypeOK
<1>5. TypeOK'
  BY <1>1, <1>2, <1>4 DEF TypeOK, tdvars, listvars, cpuvars, PC
<1>6. LocalInv'
  BY <1>1, <1>2, <1>3, <1>4 DEF LocalInv, Online, tdvars, listvars, cpuvars
<1>7. OneOwner' /\ BootInv'
  BY <1>2, <1>4, QuietInv DEF Online, tdvars, listvars, cpuvars
<1>8. OneCpuInv'
  <2>1. \A x \in Cpus : Made(x)' <=> Made(x)
    BY <1>2 DEF Made, tdvars, cpuvars
  <2>2. thread_cpu = c /\ ~Made(c) /\ THREAD_1CPU
    BY <1>1, <1>2 DEF OneCpuInv
  <2> QED
    BY <1>1, <1>2, <1>4, <2>1, <2>2, Constants DEF OneCpuInv, Online
<1>9. ExitNeverReturns' /\ NoBadState'
  BY <1>2, <1>4 DEF IInv, ExitNeverReturns, NoBadState
<1> QED
  BY <1>5, <1>6, <1>7, <1>8, <1>9 DEF IInv

\* The stack switch: the thread that is resumed releases thread_lock.
LEMMA ThreadArchSwitchInv ==
    ASSUME IInv, NEW c \in Cpus, thread_arch_switch(c)
    PROVE  IInv'
<1>1. TypeOK /\ LocalInv /\ OneOwner /\ BootInv /\ OneCpuInv
  BY DEF IInv
<1>2. /\ pc[c] = "switch" /\ Online(c) /\ oldtid[c] \in Tids /\ tid[c] \in Tids
      /\ thread_lock = c
  BY <1>1 DEF thread_arch_switch, Online, LocalInv
<1>3. pc'[c] = "run" /\ \A x \in Cpus : x # c => pc'[x] = pc[x]
  BY <1>1 DEF TypeOK, thread_arch_switch
<1>4. TypeOK'
  BY <1>1, <1>2, <1>3 DEF TypeOK, thread_arch_switch, listvars, PC
<1>5. LocalInv'
  BY <1>1, <1>2, <1>3 DEF LocalInv, Online, TypeOK, thread_arch_switch, listvars
<1>6. OneOwner' /\ BootInv'
  BY <1>2, <1>3, QuietInv DEF thread_arch_switch, listvars
<1>7. OneCpuInv'
  BY <1>1, <1>2, <1>3 DEF OneCpuInv, Online, Made, thread_arch_switch
<1>8. ExitNeverReturns' /\ NoBadState'
  BY <1>3 DEF IInv, ExitNeverReturns, NoBadState, thread_arch_switch
<1> QED
  BY <1>4, <1>5, <1>6, <1>7, <1>8 DEF IInv

\* Steps that touch neither the threads' states nor the lists.
LEMMA SetCpu0OnlyInv ==
    ASSUME IInv, NEW c \in Cpus, NEW enable \in BOOLEAN,
           thread_set_cpu0only(c, enable)
    PROVE  IInv'
<1>1. UNCHANGED <<tdvars, listvars, cpuvars, thread_lock, thread_cpu, THREAD_1CPU, pc,
                  panicked, home>>
  BY DEF thread_set_cpu0only
<1>2. TypeOK'
  BY <1>1 DEF IInv, TypeOK, tdvars, listvars, cpuvars, thread_set_cpu0only
<1>3. OneOwner' /\ BootInv'
  BY <1>1, QuietInv DEF tdvars, listvars, cpuvars
<1>4. LocalInv' /\ OneCpuInv' /\ ExitNeverReturns' /\ NoBadState'
  BY <1>1 DEF IInv, LocalInv, OneCpuInv, ExitNeverReturns, NoBadState,
              Online, Made, tdvars, listvars, cpuvars
<1> QED
  BY <1>2, <1>3, <1>4 DEF IInv

\* A thread that enters or leaves a process.
LEMMA SetPidInv ==
    ASSUME IInv, NEW c \in Cpus, NEW p \in Pids, currentcpu_set_pid(c, p)
    PROVE  IInv'
<1>1. UNCHANGED <<tdvars, listvars, tid, stackaddr, sp, oldtid, target,
                  thread_lock, thread_cpu0only, THREAD_1CPU, thread_cpu, pc, panicked>>
  BY DEF currentcpu_set_pid
<1>2. TypeOK'
  BY <1>1 DEF IInv, TypeOK, tdvars, listvars, currentcpu_set_pid
<1>3. OneOwner' /\ BootInv'
  BY <1>1, QuietInv DEF tdvars, listvars
<1>4. LocalInv' /\ OneCpuInv' /\ ExitNeverReturns' /\ NoBadState'
  BY <1>1 DEF IInv, LocalInv, OneCpuInv, ExitNeverReturns, NoBadState,
              Online, Made, tdvars, listvars
<1> QED
  BY <1>2, <1>3, <1>4 DEF IInv
\* thread_will_stop and thread_exit: the thread changes its own state.
LEMMA OwnStateInv ==
    ASSUME IInv, NEW c \in Cpus, Online(c), Made(c), pc[c] = "run",
           NEW s \in {"WILL_STOP", "EXIT"},
           state' = [state EXCEPT ![tid[c]] = s],
           UNCHANGED <<cpunum, td_free, td_runnable, tid, target, thread_cpu, THREAD_1CPU,
                       thread_lock, oldtid>>,
           pc' = [pc EXCEPT ![c] = IF s = "EXIT" THEN "exit" ELSE "run"]
    PROVE  LocalInv' /\ OneOwner' /\ BootInv' /\ OneCpuInv'
<1> DEFINE t == tid[c]
<1>1. TypeOK /\ LocalInv /\ OneOwner /\ BootInv /\ OneCpuInv
  BY DEF IInv
<1>2. t \in Tids /\ t \in Current /\ cpunum[t] = CPUNUM_ANY
  BY <1>1 DEF LocalInv, Current, Made
<1>3. /\ pc'[c] = IF s = "EXIT" THEN "exit" ELSE "run"
      /\ \A x \in Cpus : x # c => pc'[x] = pc[x]
  BY <1>1 DEF TypeOK
<1>4. \A u \in Tids : state'[u] = IF u = t THEN s ELSE state[u]
  BY <1>1 DEF TypeOK
<1>5. \A x \in Cpus : /\ Online(x)' <=> Online(x)
                      /\ pc'[x] = "wake" <=> pc[x] = "wake"
                      /\ Made(x)' <=> Made(x)
  BY <1>3 DEF Online, Made
<1>6. Current' = Current /\ Waking' = Waking
  BY <1>5 DEF Current, Waking
<1>7. \A x \in Cpus : Online(x) /\ x # c => tid[x] # t
  BY <1>1 DEF OneOwner
<1> HIDE DEF t
<1>8. LocalInv'
  BY <1>1, <1>3, <1>4, <1>5, <1>7 DEF LocalInv, Online, t
<1>9. OneOwner'
  <2>1. /\ \A u \in Elems(td_free) : state'[u] = "EXIT"
        /\ \A u \in Elems(td_runnable) \cup Waking : state'[u] = "RUN"
        /\ \A u \in Current : state'[u] # "STOP"
        /\ \A u \in Tids : state'[u] # "STOP" =>
              u \in Elems(td_free) \cup Elems(td_runnable) \cup Current \cup Waking
    BY <1>1, <1>2, <1>4, ListFacts DEF OneOwner
  <2> QED
    BY <1>1, <1>5, <1>6, <2>1 DEF OneOwner
<1>10. BootInv'
  BY <1>1, <1>2, <1>4, <1>5 DEF BootInv
<1>11. OneCpuInv'
  BY <1>1, <1>3, <1>5 DEF OneCpuInv
<1> QED
  BY <1>8, <1>9, <1>10, <1>11

\* thread_will_stop: the state it replaces is never a bad one.
LEMMA WillStopInv ==
    ASSUME IInv, NEW c \in Cpus, Online(c), Made(c), thread_will_stop(c)
    PROVE  IInv'
<1>1. state[tid[c]] \in {"RUN", "WILL_STOP"} /\ tid[c] \in Tids
  BY DEF IInv, LocalInv, thread_will_stop
<1>2. UNCHANGED panicked
  BY <1>1 DEF thread_will_stop, BadState
<1>3. TypeOK'
  BY <1>1, <1>2 DEF IInv, TypeOK, thread_will_stop, thread_set_state,
                    listvars, cpuvars, ThreadState
<1>4. pc' = [pc EXCEPT ![c] = "run"] /\ UNCHANGED pc
  BY DEF IInv, TypeOK, thread_will_stop
<1>5. LocalInv' /\ OneOwner' /\ BootInv' /\ OneCpuInv'
  BY <1>4, OwnStateInv DEF thread_will_stop, thread_set_state, listvars, cpuvars
<1> QED
  BY <1>2, <1>3, <1>4, <1>5 DEF IInv, ExitNeverReturns, NoBadState

\* thread_exit up to its call of schedule().
LEMMA ExitInv ==
    ASSUME IInv, NEW c \in Cpus, Online(c), Made(c), thread_exit(c)
    PROVE  IInv'
<1>1. state[tid[c]] \in {"RUN", "WILL_STOP"} /\ tid[c] \in Tids
  BY DEF IInv, LocalInv, thread_exit
<1>2. UNCHANGED panicked
  BY <1>1 DEF thread_exit, BadState
<1>3. TypeOK'
  BY <1>1, <1>2 DEF IInv, TypeOK, thread_exit, thread_set_state,
                    listvars, cpuvars, ThreadState, PC
<1>4. LocalInv' /\ OneOwner' /\ BootInv' /\ OneCpuInv'
  BY OwnStateInv DEF thread_exit, thread_set_state, listvars, cpuvars
<1>5. ExitNeverReturns'
  BY DEF IInv, TypeOK, ExitNeverReturns, thread_exit
<1> QED
  BY <1>2, <1>3, <1>4, <1>5 DEF IInv, NoBadState
\* The first critical section of thread_wakeup: a stopped thread passes to
\* the processor that wakes it, any other one stays where it is.
LEMMA WakeupInv ==
    ASSUME IInv, NEW c \in Cpus, NEW t \in Tids, Live(t), thread_wakeup(c, t)
    PROVE  IInv'
<1>1. TypeOK /\ LocalInv /\ OneOwner /\ BootInv /\ OneCpuInv
  BY DEF IInv
<1>2. /\ pc[c] = "run" /\ Online(c) /\ state[t] # "EXIT"
      /\ state' = [state EXCEPT ![t] = "RUN"]
      /\ target' = [target EXCEPT ![c] = IF must_queue(t) THEN t ELSE NONE]
      /\ pc' = [pc EXCEPT ![c] = IF must_queue(t) THEN "wake" ELSE "run"]
      /\ UNCHANGED <<cpunum, context, stack, pid, listvars, tid, stackaddr,
                     cur_pid, sp, oldtid, thread_lock, thread_cpu0only, THREAD_1CPU,
                     thread_cpu, home, panicked>>
  BY DEF thread_wakeup, thread_set_state, BadState, Live, Online
<1>3. must_queue(t) => t \notin Elems(td_free) \cup Elems(td_runnable)
                                  \cup Current \cup Waking
  BY <1>1 DEF OneOwner, must_queue
<1>4. \A u \in Tids : state'[u] = IF u = t THEN "RUN" ELSE state[u]
  BY <1>1, <1>2 DEF TypeOK
<1>5. /\ pc'[c] = IF must_queue(t) THEN "wake" ELSE "run"
      /\ target'[c] = IF must_queue(t) THEN t ELSE NONE
      /\ \A x \in Cpus : x # c => pc'[x] = pc[x] /\ target'[x] = target[x]
  BY <1>1, <1>2 DEF TypeOK
<1>6. TypeOK'
  BY <1>1, <1>2 DEF TypeOK, listvars, ThreadState, PC
<1>7. LocalInv'
  BY <1>1, <1>2, <1>4, <1>5 DEF LocalInv, Online
<1>8. \A x \in Cpus : (Online(x)' <=> Online(x)) /\ (Made(x)' <=> Made(x))
  BY <1>2, <1>5 DEF Online, Made
<1>9. Current' = Current
  BY <1>2, <1>8 DEF Current
<1>10. Waking' = IF must_queue(t) THEN Waking \cup {t} ELSE Waking
  <2>1. ASSUME NEW u
        PROVE  u \in Waking' <=> (u \in Waking \/ (must_queue(t) /\ u = t))
    BY <1>2, <1>5 DEF Waking
  <2> QED
    BY <2>1
<1>11. OneOwner'
  <2>1. \A c1, c2 \in Cpus :
           pc'[c1] = "wake" /\ pc'[c2] = "wake" /\ c1 # c2 => target'[c1] # target'[c2]
    BY <1>1, <1>3, <1>5 DEF OneOwner, Waking
  <2>2. \A c1, c2 \in Cpus :
           (Online(c1) /\ Online(c2))' /\ c1 # c2 => tid'[c1] # tid'[c2]
    BY <1>1, <1>2, <1>8 DEF OneOwner
  <2>3. td_free' = td_free /\ td_runnable' = td_runnable
    BY <1>2 DEF listvars
  <2>4. /\ (Elems(td_free) \cup Elems(td_runnable)) \cap (Current' \cup Waking') = {}
        /\ Current' \cap Waking' = {}
    BY <1>1, <1>3, <1>9, <1>10 DEF OneOwner
  <2>5. /\ \A u \in Elems(td_free) : state'[u] = "EXIT"
        /\ \A u \in Elems(td_runnable) \cup Waking' : state'[u] = "RUN"
        /\ \A u \in Current' : state'[u] # "STOP"
    BY <1>1, <1>2, <1>4, <1>9, <1>10, ListFacts DEF OneOwner
  <2>6. \A u \in Tids :
           u \in Elems(td_free) \cup Elems(td_runnable) \cup Current' \cup Waking'
           \/ state'[u] = "STOP"
    BY <1>1, <1>4, <1>9, <1>10 DEF OneOwner, must_queue
  <2> QED
    BY <1>1, <2>1, <2>2, <2>3, <2>4, <2>5, <2>6 DEF OneOwner
<1>12. BootInv'
  BY <1>1, <1>2, <1>4, <1>8 DEF BootInv, listvars
<1>13. OneCpuInv'
  BY <1>1, <1>2, <1>5, <1>8 DEF OneCpuInv
<1>14. ExitNeverReturns' /\ NoBadState'
  <2>1. \A x \in Cpus : pc'[x] # "returned"
    BY <1>5 DEF IInv, ExitNeverReturns
  <2> QED
    BY <1>2, <2>1 DEF IInv, ExitNeverReturns, NoBadState
<1> QED
  BY <1>6, <1>7, <1>11, <1>12, <1>13, <1>14 DEF IInv

\* The second critical section of thread_wakeup queues the thread.
LEMMA WakeupAddInv ==
    ASSUME IInv, NEW c \in Cpus, thread_wakeup_add(c)
    PROVE  IInv'
<1> DEFINE t == target[c]
<1>1. TypeOK /\ LocalInv /\ OneOwner /\ BootInv /\ OneCpuInv
  BY DEF IInv
<1>2. /\ pc[c] = "wake" /\ Online(c) /\ t \in Tids /\ t \in Waking
      /\ td_runnable' = LIST1_ADD(td_runnable, t)
      /\ target' = [target EXCEPT ![c] = NONE]
      /\ pc' = [pc EXCEPT ![c] = "run"]
      /\ UNCHANGED <<tdvars, td_free, old_stack, heap, tid, stackaddr, cur_pid,
                     sp, oldtid, thread_lock, thread_cpu0only, THREAD_1CPU, thread_cpu,
                     panicked, home>>
  BY <1>1 DEF thread_wakeup_add, LocalInv, Online, Waking
<1>3. t \notin Elems(td_runnable)
  BY <1>1, <1>2 DEF OneOwner
<1>4. /\ td_runnable' \in Seq(Tids) /\ IsList(td_runnable')
      /\ Elems(td_runnable') = Elems(td_runnable) \cup {t}
  BY <1>2, <1>3, ListFacts, AddFacts
<1>5. /\ pc'[c] = "run"
      /\ \A x \in Cpus : x # c => pc'[x] = pc[x] /\ target'[x] = target[x]
  BY <1>1, <1>2 DEF TypeOK
<1>6. TypeOK'
  BY <1>1, <1>2, <1>4 DEF TypeOK, tdvars, PC
<1>7. LocalInv'
  BY <1>1, <1>2, <1>5 DEF LocalInv, Online, tdvars
<1>8. \A x \in Cpus : (Online(x)' <=> Online(x)) /\ (Made(x)' <=> Made(x))
  BY <1>2, <1>5 DEF Online, Made, tdvars
<1>9. Current' = Current
  BY <1>2, <1>8 DEF Current
<1>10. Waking' = Waking \ {t}
  <2>1. \A x \in Cpus : x # c /\ pc[x] = "wake" => target[x] # t
    BY <1>1, <1>2 DEF OneOwner
  <2>2. ASSUME NEW u PROVE u \in Waking' <=> u \in Waking \ {t}
    BY <1>2, <1>5, <2>1 DEF Waking
  <2> QED
    BY <2>2
<1> HIDE DEF t
<1>11. OneOwner'
  <2>1. \A c1, c2 \in Cpus :
           pc'[c1] = "wake" /\ pc'[c2] = "wake" /\ c1 # c2 => target'[c1] # target'[c2]
    BY <1>1, <1>5 DEF OneOwner
  <2>2. \A c1, c2 \in Cpus :
           (Online(c1) /\ Online(c2))' /\ c1 # c2 => tid'[c1] # tid'[c2]
    BY <1>1, <1>2, <1>8 DEF OneOwner
  <2>3. td_free' = td_free /\ state' = state
    BY <1>2 DEF tdvars
  <2> QED
    BY <1>1, <1>2, <1>4, <1>9, <1>10, <2>1, <2>2, <2>3 DEF OneOwner
<1>12. BootInv'
  BY <1>1, <1>2, <1>4, <1>8 DEF BootInv, tdvars
<1>13. OneCpuInv'
  BY <1>1, <1>2, <1>5, <1>8 DEF OneCpuInv
<1>14. ExitNeverReturns' /\ NoBadState'
  BY <1>2, <1>5 DEF IInv, ExitNeverReturns, NoBadState
<1> QED
  BY <1>6, <1>7, <1>11, <1>12, <1>13, <1>14 DEF IInv
\* A td[] entry that is taken from the free list: nobody else has it.
LEMMA FreeEntry ==
    ASSUME IInv, td_free # <<>>
    PROVE  /\ Head(td_free) \in Tids /\ state[Head(td_free)] = "EXIT"
           /\ Head(td_free) \notin Elems(td_runnable) \cup Current \cup Waking
           /\ LIST1_POP(td_free) \in Seq(Tids)
           /\ IsList(LIST1_POP(td_free))
           /\ Elems(LIST1_POP(td_free)) = Elems(td_free) \ {Head(td_free)}
           /\ Head(td_free) \in Elems(td_free)
<1>1. /\ Head(td_free) \in Elems(td_free)
      /\ LIST1_POP(td_free) \in Seq(Tids)
      /\ IsList(LIST1_POP(td_free))
      /\ Elems(LIST1_POP(td_free)) = Elems(td_free) \ {Head(td_free)}
  BY ListFacts, PopFacts
<1>2. Head(td_free) \in Tids /\ state[Head(td_free)] = "EXIT"
  BY <1>1, ListFacts DEF IInv, OneOwner
<1>3. Head(td_free) \notin Elems(td_runnable) \cup Current \cup Waking
  BY <1>1 DEF IInv, OneOwner
<1> QED
  BY <1>1, <1>2, <1>3

\* The boot thread of a processor that comes up.
LEMMA InitPcpuInv ==
    ASSUME IInv, NEW c \in Cpus, thread_init_pcpu(c)
    PROVE  IInv'
<1>1. TypeOK /\ LocalInv /\ OneOwner /\ BootInv /\ OneCpuInv
  BY DEF IInv
<1>2. /\ pc[c] = "off" /\ ~Online(c)
      /\ \A x \in Cpus : pc[x] # "switch"
      /\ UNCHANGED <<td_runnable, old_stack, heap, stackaddr, cur_pid, sp,
                     oldtid, target, thread_cpu0only, THREAD_1CPU, thread_cpu>>
  BY <1>1, Constants DEF thread_init_pcpu, Online, Unlocked, LocalInv
<1>3. CASE td_free = <<>>
  <2>1. /\ thread_lock' = c /\ panicked' = "assert"
        /\ UNCHANGED <<tdvars, home, tid, td_free, pc>>
    BY <1>3 DEF thread_init_pcpu, AssertFails
  <2>2. TypeOK'
    BY <1>1, <1>2, <2>1 DEF TypeOK, tdvars
  <2>3. OneOwner' /\ BootInv'
    BY <1>2, <2>1, QuietInv DEF tdvars
  <2>4. LocalInv' /\ OneCpuInv'
    BY <1>1, <1>2, <2>1 DEF LocalInv, OneCpuInv, Online, Made, tdvars
  <2> QED
    BY <2>1, <2>2, <2>3, <2>4 DEF IInv, ExitNeverReturns, NoBadState
<1>4. CASE td_free # <<>>
  <2> DEFINE d == Head(td_free)
  <2>1. /\ thread_data_init(d, NULL, NULL, c)
        /\ tid' = [tid EXCEPT ![c] = d]
        /\ td_free' = LIST1_POP(td_free)
        /\ pc' = [pc EXCEPT ![c] = "run"]
        /\ UNCHANGED <<thread_lock, panicked>>
    BY <1>4 DEF thread_init_pcpu
  <2>2. /\ d \in Tids /\ state[d] = "EXIT"
        /\ d \notin Elems(td_runnable) \cup Current \cup Waking
        /\ d \in Elems(td_free)
        /\ td_free' \in Seq(Tids) /\ IsList(td_free')
        /\ Elems(td_free') = Elems(td_free) \ {d}
    BY <1>4, <2>1, FreeEntry
  <2> HIDE DEF d
  <2>3. /\ pc'[c] = "run" /\ tid'[c] = d
        /\ \A x \in Cpus : x # c => pc'[x] = pc[x] /\ tid'[x] = tid[x]
    BY <1>1, <2>1 DEF TypeOK
  <2>4. \A u \in Tids : /\ state'[u] = IF u = d THEN "RUN" ELSE state[u]
                        /\ cpunum'[u] = IF u = d THEN c ELSE cpunum[u]
    BY <1>1, <2>1 DEF TypeOK, thread_data_init
  <2>5. TypeOK'
    BY <1>1, <1>2, <2>1, <2>2, Constants
       DEF TypeOK, thread_data_init, ThreadState, PC
  <2>6. \A x \in Cpus : Online(x)' <=> Online(x) \/ x = c
    BY <2>3 DEF Online
  <2>7. \A x \in Cpus : x # c /\ Online(x) => tid[x] # d /\ tid[x] \in Tids
    BY <1>1, <2>2 DEF Current, LocalInv
  <2>8. LocalInv'
    BY <1>1, <1>2, <2>1, <2>2, <2>3, <2>4, <2>6, <2>7 DEF LocalInv, Online
  <2>9. Current' = Current \cup {d} /\ Waking' = Waking
    <3>1. ASSUME NEW u PROVE u \in Current' <=> (u \in Current \/ u = d)
      BY <1>2, <2>3, <2>6 DEF Current
    <3>2. Waking' = Waking
      BY <1>2, <2>3 DEF Waking
    <3> QED
      BY <3>1, <3>2
  <2>10. OneOwner'
    <3>1. \A c1, c2 \in Cpus :
             (Online(c1) /\ Online(c2))' /\ c1 # c2 => tid'[c1] # tid'[c2]
      BY <1>1, <2>3, <2>6, <2>7 DEF OneOwner
    <3>2. \A c1, c2 \in Cpus :
             pc'[c1] = "wake" /\ pc'[c2] = "wake" /\ c1 # c2 => target'[c1] # target'[c2]
      BY <1>1, <1>2, <2>3 DEF OneOwner
    <3>3. /\ \A u \in Elems(td_free') : state'[u] = "EXIT"
          /\ \A u \in Elems(td_runnable') \cup Waking' : state'[u] = "RUN"
          /\ \A u \in Current' : state'[u] # "STOP"
      BY <1>1, <1>2, <2>2, <2>4, <2>9, ListFacts DEF OneOwner
    <3>4. \A u \in Tids : state'[u] # "STOP" =>
             u \in Elems(td_free') \cup Elems(td_runnable') \cup Current' \cup Waking'
      BY <1>1, <1>2, <2>2, <2>4, <2>9 DEF OneOwner
    <3>5. /\ Elems(td_free') \cap Elems(td_runnable') = {}
          /\ (Elems(td_free') \cup Elems(td_runnable')) \cap (Current' \cup Waking') = {}
          /\ Current' \cap Waking' = {}
      BY <1>1, <1>2, <2>2, <2>9 DEF OneOwner
    <3>6. IsList(td_runnable')
      BY <1>2, ListFacts
    <3> QED
      BY <2>2, <3>1, <3>2, <3>3, <3>4, <3>5, <3>6 DEF OneOwner
  <2>11. BootInv'
    <3>1. \A t \in Tids : cpunum'[t] # CPUNUM_ANY =>
           state'[t] = "RUN" \/ t \in Elems(td_free')
      BY <1>1, <2>2, <2>4 DEF BootInv
    <3>2. ASSUME NEW x \in Cpus, Online(x)'
          PROVE  \E t \in Tids : /\ cpunum'[t] = x
                                 /\ tid'[x] = t \/ t \in Elems(td_runnable')
      <4>1. CASE x = c
        BY <2>2, <2>3, <2>4, <4>1
      <4>2. CASE x # c
        <5>1. PICK t \in Tids : /\ cpunum[t] = x
                                /\ tid[x] = t \/ t \in Elems(td_runnable)
          BY <1>1, <2>6, <3>2, <4>2 DEF BootInv
        <5>2. t # d
          BY <2>2, <2>6, <3>2, <4>2, <5>1 DEF Current
        <5> QED
          BY <1>2, <2>3, <2>4, <4>2, <5>1, <5>2
      <4> QED
        BY <4>1, <4>2
    <3> QED
      BY <3>1, <3>2 DEF BootInv
  <2>12. OneCpuInv'
    <3>1. \A x \in Cpus : Online(x) => (Made(x)' <=> Made(x)) /\ x # c
      BY <1>2, <2>3, <2>4, <2>7 DEF Made
    <3>2. ~Made(c)'
      BY <2>2, <2>3, <2>4, Constants DEF Made
    <3> QED
      BY <1>1, <1>2, <2>3, <2>6, <3>1, <3>2 DEF OneCpuInv, Online
  <2>13. ExitNeverReturns' /\ NoBadState'
    BY <2>1, <2>3 DEF IInv, ExitNeverReturns, NoBadState
  <2> QED
    BY <2>5, <2>8, <2>10, <2>11, <2>12, <2>13 DEF IInv
<1> QED
  BY <1>3, <1>4
\* A thread that is made is queued at once.
LEMMA NewInv ==
    ASSUME IInv, NEW c \in Cpus, NEW s \in Heap, thread_new(c, s)
    PROVE  IInv'
<1>1. TypeOK /\ LocalInv /\ OneOwner /\ BootInv /\ OneCpuInv
  BY DEF IInv
<1>2. /\ \A x \in Cpus : pc[x] # "switch"
      /\ heap' = heap \cup {s}
      /\ UNCHANGED <<cpuvars, pc, old_stack, thread_cpu0only, THREAD_1CPU, thread_cpu>>
  BY <1>1, Constants DEF thread_new, Unlocked, LocalInv
<1>3. CASE td_free = <<>>
  <2>1. /\ thread_lock' = c /\ panicked' = "assert"
        /\ UNCHANGED <<tdvars, home, td_runnable, td_free>>
    BY <1>3 DEF thread_new, AssertFails
  <2>2. TypeOK'
    BY <1>1, <1>2, <2>1 DEF TypeOK, tdvars, cpuvars
  <2>3. OneOwner' /\ BootInv'
    BY <1>2, <2>1, QuietInv DEF tdvars, cpuvars
  <2>4. LocalInv' /\ OneCpuInv'
    BY <1>1, <1>2, <2>1 DEF LocalInv, OneCpuInv, Online, Made, tdvars, cpuvars
  <2> QED
    BY <1>2, <2>1, <2>2, <2>3, <2>4 DEF IInv, ExitNeverReturns, NoBadState
<1>4. CASE td_free # <<>>
  <2> DEFINE d == Head(td_free)
  <2>1. /\ thread_data_init(d, s, s, CPUNUM_ANY)
        /\ td_runnable' = LIST1_ADD(td_runnable, d)
        /\ td_free' = LIST1_POP(td_free)
        /\ UNCHANGED <<thread_lock, panicked>>
    BY <1>4 DEF thread_new
  <2>2. /\ d \in Tids /\ state[d] = "EXIT"
        /\ d \notin Elems(td_runnable) \cup Current \cup Waking
        /\ d \in Elems(td_free)
        /\ td_free' \in Seq(Tids) /\ IsList(td_free')
        /\ Elems(td_free') = Elems(td_free) \ {d}
    BY <1>4, <2>1, FreeEntry
  <2>3. /\ td_runnable' \in Seq(Tids) /\ IsList(td_runnable')
        /\ Elems(td_runnable') = Elems(td_runnable) \cup {d}
    BY <2>1, <2>2, ListFacts, AddFacts
  <2> HIDE DEF d
  <2>4. \A u \in Tids : state'[u] = IF u = d THEN "RUN" ELSE state[u]
    BY <1>1, <2>1 DEF TypeOK, thread_data_init
  <2>5. \A u \in Tids : cpunum'[u] = IF u = d THEN CPUNUM_ANY ELSE cpunum[u]
    BY <1>1, <2>1 DEF TypeOK, thread_data_init
  <2>6. TypeOK'
    BY <1>1, <1>2, <2>1, <2>2, <2>3, Constants
       DEF TypeOK, thread_data_init, ThreadState, cpuvars
  <2>7. \A x \in Cpus : Online(x) => tid[x] # d /\ tid[x] \in Tids
    BY <1>1, <2>2 DEF Current, LocalInv
  <2>8. /\ \A x \in Cpus : /\ Online(x)' <=> Online(x)
                           /\ Online(x) => (Made(x)' <=> Made(x))
        /\ Current' = Current /\ Waking' = Waking
    <3>1. UNCHANGED <<pc, tid, target>>
      BY <1>2 DEF cpuvars
    <3>2. \A x \in Cpus : Online(x)' <=> Online(x)
      BY <3>1 DEF Online
    <3>3. ASSUME NEW x \in Cpus, Online(x) PROVE Made(x)' <=> Made(x)
      BY <2>5, <2>7, <3>1, <3>3 DEF Made
    <3>4. Current' = Current /\ Waking' = Waking
      BY <3>1 DEF Current, Waking, Online
    <3> QED
      BY <3>2, <3>3, <3>4
  <2>9. LocalInv'
    BY <1>1, <1>2, <2>1, <2>4, <2>5, <2>7 DEF LocalInv, Online, cpuvars
  <2>10. OneOwner'
    <3>1. /\ \A u \in Elems(td_free') : state'[u] = "EXIT"
          /\ \A u \in Elems(td_runnable') \cup Waking' : state'[u] = "RUN"
          /\ \A u \in Current' : state'[u] # "STOP"
      <4>1. \A u \in Elems(td_free') : u \in Tids /\ u # d /\ state[u] = "EXIT"
        BY <1>1, <2>2, ListFacts DEF OneOwner
      <4>2. \A u \in Elems(td_runnable') \cup Waking' :
               u \in Tids /\ (u = d \/ state[u] = "RUN")
        BY <1>1, <2>2, <2>3, <2>8, ListFacts DEF OneOwner
      <4>3. \A u \in Current' : u \in Tids /\ state[u] # "STOP"
        BY <1>1, <2>8, ListFacts DEF OneOwner
      <4> QED
        BY <2>4, <4>1, <4>2, <4>3
    <3>2. \A u \in Tids : state'[u] # "STOP" =>
             u \in Elems(td_free') \cup Elems(td_runnable') \cup Current' \cup Waking'
      BY <1>1, <2>2, <2>3, <2>4, <2>8 DEF OneOwner
    <3>3. /\ Elems(td_free') \cap Elems(td_runnable') = {}
          /\ (Elems(td_free') \cup Elems(td_runnable')) \cap (Current' \cup Waking') = {}
      BY <1>1, <2>2, <2>3, <2>8 DEF OneOwner
    <3>4. UNCHANGED <<pc, tid, target>>
      BY <1>2 DEF cpuvars
    <3> QED
      BY <1>1, <2>2, <2>3, <2>8, <3>1, <3>2, <3>3, <3>4 DEF OneOwner
  <2>11. BootInv'
    <3>1. \A t \in Tids : cpunum'[t] # CPUNUM_ANY =>
             state'[t] = "RUN" \/ t \in Elems(td_free')
      BY <1>1, <2>2, <2>4, <2>5 DEF BootInv
    <3>2. ASSUME NEW x \in Cpus, Online(x)'
          PROVE  \E t \in Tids : /\ cpunum'[t] = x
                                 /\ tid'[x] = t \/ t \in Elems(td_runnable')
      <4>1. PICK t \in Tids : /\ cpunum[t] = x
                              /\ tid[x] = t \/ t \in Elems(td_runnable)
        BY <1>1, <2>8, <3>2 DEF BootInv
      <4>2. t # d
        BY <2>2, <2>7, <2>8, <3>2, <4>1
      <4> QED
        BY <1>2, <2>3, <2>5, <4>1, <4>2 DEF cpuvars
    <3> QED
      BY <3>1, <3>2 DEF BootInv
  <2>12. OneCpuInv'
    BY <1>1, <1>2, <2>8 DEF OneCpuInv, Online
  <2>13. ExitNeverReturns' /\ NoBadState'
    BY <1>2, <2>1 DEF IInv, ExitNeverReturns, NoBadState
  <2> QED
    BY <2>6, <2>9, <2>10, <2>11, <2>12, <2>13 DEF IInv
<1> QED
  BY <1>3, <1>4
----------------------------------------------------------------------------
\* Every step of every processor preserves the invariant.
LEMMA NextInv == IInv /\ [Next]_vars => IInv'
<1> SUFFICES ASSUME IInv, [Next]_vars PROVE IInv'
  OBVIOUS
<1>1. CASE UNCHANGED vars
  <2>1. UNCHANGED <<state, cpunum, td_free, td_runnable, tid, target, pc>>
    BY <1>1 DEF vars, tdvars, listvars, cpuvars
  <2>2. OneOwner' /\ BootInv'
    BY <2>1, QuietInv
  <2>3. TypeOK' /\ LocalInv' /\ OneCpuInv' /\ ExitNeverReturns' /\ NoBadState'
    BY <1>1 DEF IInv, vars, tdvars, listvars, cpuvars, TypeOK, LocalInv,
                OneCpuInv, ExitNeverReturns, NoBadState, Online, Made
  <2> QED
    BY <2>2, <2>3 DEF IInv
<1>2. ASSUME NEW c \in Cpus, Step(c)
      PROVE  IInv'
  BY <1>2, InitPcpuInv, NewInv, ScheduleEnterInv, ScheduleNoneInv,
     ScheduleUnskipInv, ScheduleFoundInv, ThreadArchSwitchInv, WillStopInv,
     ExitInv, WakeupInv, WakeupAddInv, SetCpu0OnlyInv, SetPidInv
     DEF Step
<1> QED
  BY <1>1, <1>2 DEF Next

\* The inductive invariant holds in every reachable state.
THEOREM Invariance == Spec => []IInv
  BY InitInv, NextInv, PTL DEF Spec

\* Type correctness of the scheduler's state (struct thread_data, the two
\* lists, and the per-processor data it exchanges).
THEOREM TypeCorrect == Spec => []TypeOK
  BY Invariance, PTL DEF IInv

\* No thread runs on two processors, is queued twice, or is lost, for any
\* number of processors and threads.
THEOREM ThreadsHaveOneOwner == Spec => []OneOwner
  BY Invariance, PTL DEF IInv

\* schedule() called from thread_exit() never returns.
THEOREM ExitIsFinal == Spec => []ExitNeverReturns
  BY Invariance, PTL DEF IInv

\* None of the "bad state" panics of thread.c is reachable.
THEOREM BadStateUnreachable == Spec => []NoBadState
  BY Invariance, PTL DEF IInv

\* With THREAD_1CPU, at most one processor runs threads made by thread_new.
THEOREM OneCpu == Spec => []OneCpuRunsThreads
<1>1. IInv => OneCpuRunsThreads
  BY Constants DEF IInv, OneCpuInv, OneCpuRunsThreads
<1> QED
  BY <1>1, Invariance, PTL
----------------------------------------------------------------------------
(***************************************************************************)
(* The stacks and the saved data of threads: StackSafety and               *)
(* ContextFollowsThread.  They rest on the invariant above.                *)
(***************************************************************************)

Switching(c) == pc[c] = "switch"

\* The threads that no processor runs: queued, stopped, or being woken.
Parked(t) == t \notin Elems(td_free) /\ t \notin Current

\* The thread a processor is leaving; its context is not saved yet.
Leaving(t) == \E c \in Cpus : Switching(c) /\ oldtid[c] = t

Saved(t) == Parked(t) /\ ~Leaving(t)

\* The threads whose context is the stack they will continue on.
Resumes(t) == Saved(t) \/ \E c \in Cpus : Switching(c) /\ tid[c] = t

(* The pid of a thread is where it will be loaded from.                    *)
PidInv ==
    /\ \A c \in Cpus : cur_pid[c] = IF Online(c) THEN home[tid[c]] ELSE 0
    /\ \A t \in Tids : Parked(t) => pid[t] = home[t]

(* So is its stack address, which agrees with the saved context.           *)
AddrInv ==
    /\ \A c \in Cpus : ~Online(c) => sp[c] = BootStack[c]
    /\ \A c \in Cpus : ~Switching(c) => stackaddr[c] = sp[c]
    /\ \A c \in Cpus : Switching(c) => /\ stackaddr[c] = context[tid[c]]
                                       /\ stack[oldtid[c]] = sp[c]
                                       /\ oldtid[c] \notin Current
    /\ \A t \in Tids : Saved(t) => stack[t] = context[t]

(* Stacks in use are allocated and not shared.                             *)
UseInv ==
    /\ \A c \in Cpus : sp[c] \in Allocated
    /\ \A c1, c2 \in Cpus : c1 # c2 => sp[c1] # sp[c2]
    /\ \A t \in Tids : Resumes(t) => context[t] \in Allocated
    /\ \A t1, t2 \in Tids : Resumes(t1) /\ Resumes(t2) /\ t1 # t2 => context[t1] # context[t2]
    /\ \A t \in Tids, c \in Cpus : Resumes(t) => context[t] # sp[c]

(* Threads made by thread_new, the only ones that exit, are on stacks from *)
(* the heap.                                                               *)
HeapInv ==
    /\ \A c \in Cpus : Online(c) /\ ~Switching(c) /\ Made(c) => sp[c] \in heap
    /\ \A c \in Cpus : Switching(c) /\ cpunum[oldtid[c]] = CPUNUM_ANY => sp[c] \in heap
    /\ \A t \in Tids : Resumes(t) /\ cpunum[t] = CPUNUM_ANY => context[t] \in heap

(* A stack that waits to be freed is used by nobody but the processor that *)
(* is just leaving it, for good.                                           *)
OldStackInv ==
    old_stack # NULL =>
        /\ old_stack \in heap
        /\ \A t \in Tids : Resumes(t) => context[t] # old_stack
        /\ \A c \in Cpus : sp[c] = old_stack =>
              Switching(c) /\ oldtid[c] \in Elems(td_free)

SInv == PidInv /\ AddrInv /\ UseInv /\ HeapInv /\ OldStackInv
----------------------------------------------------------------------------
\* Nobody switches while thread_lock is free, and only one processor at all.
LEMMA OneSwitches ==
    ASSUME IInv
    PROVE  /\ Unlocked => \A x \in Cpus : ~Switching(x)
           /\ \A x, y \in Cpus : Switching(x) /\ Switching(y) => x = y
  BY Constants DEF IInv, LocalInv, Unlocked, Switching

\* Nothing is parked at first, and every processor is on its boot stack.
LEMMA StackInitInv == ASSUME Init PROVE SInv
<1>1. /\ \A c \in Cpus : ~Online(c) /\ ~Switching(c)
      /\ Current = {}
  BY DEF Init, Online, Switching, Current
<1>2. Elems(td_free) = Tids
  <2> DEFINE N == MAXNUM_OF_THREADS
  <2>1. N \in Nat /\ Tids = 0 .. N - 1
    BY ThreadAssumption DEF Tids
  <2> HIDE DEF N
  <2>2. td_free = [i \in 1 .. N |-> i - 1]
    BY DEF Init, N
  <2>3. \A t \in Tids : t + 1 \in 1 .. N /\ t = (t + 1) - 1
    BY <2>1
  <2>4. \A t \in Tids : t \in Range(td_free)
    BY <2>2, <2>3 DEF Range
  <2>5. \A i \in 1 .. N : i - 1 \in Tids
    BY <2>1
  <2>6. Range(td_free) \subseteq Tids
    BY <2>2, <2>5 DEF Range
  <2> QED
    BY <2>4, <2>6 DEF Elems
<1>3. \A t \in Tids : ~Parked(t) /\ ~Resumes(t) /\ ~Saved(t)
  BY <1>1, <1>2 DEF Parked, Resumes, Saved
<1>4. \A c1, c2 \in Cpus : c1 # c2 => BootStack[c1] # BootStack[c2]
  BY ThreadAssumption DEF IsInjective
<1>5. \A c \in Cpus : BootStack[c] \in Range(BootStack)
  BY ThreadAssumption
<1>6. PidInv /\ AddrInv
  BY <1>1, <1>3 DEF Init, PidInv, AddrInv
<1>7. UseInv
  BY <1>3, <1>4, <1>5 DEF Init, UseInv, Allocated
<1> QED
  BY <1>1, <1>3, <1>6, <1>7 DEF Init, SInv, HeapInv, OldStackInv

\* A step that moves no stack.
LEMMA StackFrame ==
    ASSUME SInv,
           UNCHANGED <<cpunum, context, stack, pid, td_free, old_stack, tid, stackaddr, cur_pid,
                       sp, oldtid, home>>,
           heap \subseteq heap',
           \A x \in Cpus : /\ pc'[x] = "off" <=> pc[x] = "off"
                           /\ pc'[x] = "switch" <=> pc[x] = "switch"
    PROVE  SInv'
<1>1. \A x \in Cpus : (Online(x)' <=> Online(x)) /\ (Switching(x)' <=> Switching(x))
  BY DEF Online, Switching
<1>2. Current' = Current
  BY <1>1 DEF Current
<1>3. \A t \in Tids : /\ Parked(t)' <=> Parked(t)
                      /\ Saved(t)' <=> Saved(t)
                      /\ Resumes(t)' <=> Resumes(t)
  BY <1>1, <1>2 DEF Parked, Saved, Leaving, Resumes
<1>4. Allocated \subseteq Allocated'
  BY DEF Allocated
<1>5. PidInv' /\ AddrInv'
  BY <1>1, <1>2, <1>3 DEF SInv, PidInv, AddrInv
<1>6. UseInv' /\ HeapInv' /\ OldStackInv'
  BY <1>1, <1>3, <1>4 DEF SInv, UseInv, HeapInv, OldStackInv, Made
<1> QED
  BY <1>5, <1>6 DEF SInv

\* The steps that leave every processor on its stack and every thread's
\* context alone.
LEMMA QuietStack ==
    ASSUME IInv, SInv, NEW c \in Cpus,
           \/ schedule_enter(c)
           \/ schedule_unskip(c)
           \/ thread_will_stop(c)
           \/ thread_exit(c)
           \/ \E t \in Tids : thread_wakeup(c, t)
           \/ thread_wakeup_add(c)
           \/ \E enable \in BOOLEAN : thread_set_cpu0only(c, enable)
    PROVE  SInv'
<1>1. UNCHANGED <<cpunum, context, stack, pid, td_free, old_stack, heap, tid, stackaddr,
                  cur_pid, sp, oldtid, home>>
  BY DEF schedule_enter, schedule_unskip, thread_will_stop, thread_exit, thread_wakeup,
         thread_wakeup_add, thread_set_cpu0only, tdvars, listvars, cpuvars
<1>2. pc[c] \notin {"off", "switch"} /\ pc'[c] \notin {"off", "switch"}
  BY DEF IInv, TypeOK, schedule_enter, schedule_unskip, thread_will_stop, thread_exit,
         thread_wakeup, thread_wakeup_add, thread_set_cpu0only, Return
<1>3. \A x \in Cpus : x # c => pc'[x] = pc[x]
  BY DEF IInv, TypeOK, schedule_enter, schedule_unskip, thread_will_stop, thread_exit,
         thread_wakeup, thread_wakeup_add, thread_set_cpu0only
<1> QED
  BY <1>1, <1>2, <1>3, StackFrame

\* A thread enters or leaves a process.
LEMMA SetPidStack ==
    ASSUME IInv, SInv, NEW c \in Cpus, NEW p \in Pids, currentcpu_set_pid(c, p)
    PROVE  SInv'
<1>1. /\ pc[c] = "run" /\ Online(c)
      /\ cur_pid' = [cur_pid EXCEPT ![c] = p]
      /\ home' = [home EXCEPT ![tid[c]] = p]
      /\ UNCHANGED <<cpunum, context, stack, pid, td_free, old_stack, heap, tid, stackaddr,
                     sp, oldtid, pc>>
  BY DEF currentcpu_set_pid, Online, tdvars, listvars
<1>2. \A x \in Cpus : (Online(x)' <=> Online(x)) /\ (Switching(x)' <=> Switching(x))
  BY <1>1 DEF Online, Switching
<1>3. Current' = Current
  BY <1>1, <1>2 DEF Current
<1>4. \A t \in Tids : /\ Parked(t)' <=> Parked(t)
                      /\ Saved(t)' <=> Saved(t)
                      /\ Resumes(t)' <=> Resumes(t)
  BY <1>1, <1>2, <1>3 DEF Parked, Saved, Leaving, Resumes
<1>5. AddrInv' /\ UseInv' /\ HeapInv' /\ OldStackInv'
  BY <1>1, <1>2, <1>3, <1>4 DEF SInv, AddrInv, UseInv, HeapInv, OldStackInv, Made, Allocated
<1>6. /\ tid[c] \in Tids /\ tid[c] \in Current
      /\ \A x \in Cpus : Online(x) /\ x # c => tid[x] # tid[c]
      /\ \A x \in Cpus : Online(x) => tid[x] \in Tids
  BY <1>1 DEF IInv, LocalInv, OneOwner, Current
<1>7. /\ cur_pid'[c] = p /\ home'[tid[c]] = p
      /\ \A x \in Cpus : x # c => cur_pid'[x] = cur_pid[x]
      /\ \A t \in Tids : t # tid[c] => home'[t] = home[t]
  BY <1>1, <1>6 DEF IInv, TypeOK
<1>8. PidInv'
  <2>1. \A x \in Cpus : cur_pid'[x] = IF Online(x)' THEN home'[tid'[x]] ELSE 0
    BY <1>1, <1>2, <1>6, <1>7 DEF SInv, PidInv
  <2>2. \A t \in Tids : Parked(t)' => pid'[t] = home'[t]
    BY <1>1, <1>4, <1>6, <1>7 DEF SInv, PidInv, Parked
  <2> QED
    BY <2>1, <2>2 DEF PidInv
<1> QED
  BY <1>5, <1>8 DEF SInv

\* NULL is no stack: freeing it frees nothing.
LEMMA StacksFacts ==
    ASSUME IInv
    PROVE  NULL \notin Allocated /\ NULL \notin heap
  BY ThreadAssumption DEF IInv, TypeOK, Allocated, Stacks

\* A critical section of schedule() frees the stack that was left before:
\* nobody is on it any more.
LEMMA NobodyOnOldStack ==
    ASSUME IInv, SInv, Unlocked
    PROVE  /\ \A x \in Cpus : ~Switching(x) /\ sp[x] # old_stack
           /\ \A t \in Tids : /\ ~Leaving(t)
                              /\ Saved(t) <=> Parked(t)
                              /\ Resumes(t) <=> Parked(t)
                              /\ Resumes(t) => context[t] # old_stack
           /\ \A s : s \in Allocated /\ s # old_stack => s \in (heap \ {old_stack}) \cup Range(BootStack)
<1>1. \A x \in Cpus : ~Switching(x)
  BY OneSwitches
<1>2. \A x \in Cpus : sp[x] # old_stack
  BY <1>1, StacksFacts DEF SInv, UseInv, OldStackInv
<1>3. \A t \in Tids : ~Leaving(t) /\ (Saved(t) <=> Parked(t)) /\ (Resumes(t) <=> Parked(t))
  BY <1>1 DEF Leaving, Saved, Resumes
<1>4. \A t \in Tids : Resumes(t) => context[t] # old_stack
  BY StacksFacts DEF SInv, UseInv, OldStackInv
<1> QED
  BY <1>1, <1>2, <1>3, <1>4 DEF Allocated

\* schedule() that finds no thread frees the stack that was left before.
LEMMA ScheduleNoneStack ==
    ASSUME IInv, SInv, NEW c \in Cpus, schedule_none(c)
    PROVE  SInv'
<1>1. /\ pc[c] = "sched" /\ Unlocked
      /\ heap' = heap \ {old_stack} /\ old_stack' = NULL
      /\ UNCHANGED <<cpunum, context, stack, pid, td_free, tid, stackaddr, cur_pid, sp,
                     oldtid, home>>
  BY DEF schedule_none, free_old_stack, tdvars, cpuvars
<1>2. pc'[c] \notin {"off", "switch"} /\ \A x \in Cpus : x # c => pc'[x] = pc[x]
  BY DEF IInv, TypeOK, schedule_none, Return
<1>3. \A x \in Cpus : (Online(x)' <=> Online(x)) /\ (Switching(x)' <=> Switching(x))
  BY <1>1, <1>2 DEF Online, Switching
<1>4. Current' = Current
  BY <1>1, <1>3 DEF Current
<1>5. \A t \in Tids : /\ Parked(t)' <=> Parked(t)
                      /\ Saved(t)' <=> Saved(t)
                      /\ Resumes(t)' <=> Resumes(t)
  BY <1>1, <1>3, <1>4 DEF Parked, Saved, Leaving, Resumes
<1>6. PidInv' /\ AddrInv'
  BY <1>1, <1>3, <1>4, <1>5 DEF SInv, PidInv, AddrInv
<1>7. \A s : s \in Allocated /\ s # old_stack => s \in Allocated'
  BY <1>1 DEF Allocated
<1>8. UseInv'
  BY <1>1, <1>5, <1>7, NobodyOnOldStack DEF SInv, UseInv
<1>9. HeapInv' /\ OldStackInv'
  BY <1>1, <1>3, <1>5, NobodyOnOldStack DEF SInv, HeapInv, OldStackInv, Made
<1> QED
  BY <1>6, <1>8, <1>9 DEF SInv

\* The boot thread of a processor that comes up is on its boot stack.
LEMMA InitPcpuStack ==
    ASSUME IInv, SInv, NEW c \in Cpus, thread_init_pcpu(c)
    PROVE  SInv'
<1>1. /\ pc[c] = "off" /\ ~Online(c) /\ Unlocked
      /\ UNCHANGED <<old_stack, heap, stackaddr, cur_pid, sp, oldtid>>
  BY DEF thread_init_pcpu, Online
<1>2. CASE td_free = <<>>
  <2>1. UNCHANGED <<cpunum, context, stack, pid, td_free, tid, home, pc>>
    BY <1>2 DEF thread_init_pcpu, tdvars
  <2> QED
    BY <1>1, <2>1, StackFrame
<1>3. CASE td_free # <<>>
  <2> DEFINE d == Head(td_free)
  <2>1. /\ thread_data_init(d, NULL, NULL, c)
        /\ tid' = [tid EXCEPT ![c] = d]
        /\ td_free' = LIST1_POP(td_free)
        /\ pc' = [pc EXCEPT ![c] = "run"]
    BY <1>3 DEF thread_init_pcpu
  <2>2. /\ d \in Tids /\ d \notin Current
        /\ d \in Elems(td_free)
        /\ Elems(td_free') = Elems(td_free) \ {d}
    BY <1>3, <2>1, FreeEntry
  <2> HIDE DEF d
  <2>3. /\ pc'[c] = "run" /\ tid'[c] = d
        /\ \A x \in Cpus : x # c => pc'[x] = pc[x] /\ tid'[x] = tid[x]
    BY <2>1 DEF IInv, TypeOK
  <2>4. /\ cpunum'[d] = c /\ home'[d] = 0
        /\ \A u \in Tids : u # d => /\ cpunum'[u] = cpunum[u] /\ home'[u] = home[u]
                                    /\ context'[u] = context[u] /\ stack'[u] = stack[u]
                                    /\ pid'[u] = pid[u]
    BY <2>1, <2>2 DEF IInv, TypeOK, thread_data_init
  <2>5. \A x \in Cpus : /\ Online(x)' <=> Online(x) \/ x = c
                        /\ ~Switching(x) /\ ~Switching(x)'
    BY <1>1, <2>3, OneSwitches DEF Online, Switching
  <2>6. \A x \in Cpus : x # c /\ Online(x) => tid[x] # d /\ tid[x] \in Tids
    BY <2>2 DEF IInv, Current, LocalInv
  <2>7. Current' = Current \cup {d}
    <3>1. ASSUME NEW u PROVE u \in Current' <=> (u \in Current \/ u = d)
      BY <1>1, <2>3, <2>5 DEF Current
    <3> QED
      BY <3>1
  <2>8. \A t \in Tids : /\ Parked(t)' <=> Parked(t)
                        /\ Parked(t) => t # d
    BY <2>2, <2>7 DEF Parked
  <2>9. \A t \in Tids : /\ Saved(t) <=> Parked(t)
                        /\ Resumes(t) <=> Parked(t)
                        /\ Saved(t)' <=> Parked(t)
                        /\ Resumes(t)' <=> Parked(t)
    BY <2>5, <2>8 DEF Saved, Resumes, Leaving
  <2>10. PidInv'
    BY <1>1, <2>3, <2>4, <2>5, <2>6, <2>8 DEF SInv, PidInv
  <2>11. AddrInv'
    BY <1>1, <2>4, <2>5, <2>8, <2>9 DEF SInv, AddrInv
  <2>12. UseInv'
    BY <1>1, <2>4, <2>8, <2>9 DEF SInv, UseInv, Allocated
  <2>13. HeapInv'
    BY <1>1, <2>3, <2>4, <2>5, <2>6, <2>8, <2>9, Constants DEF SInv, HeapInv, Made
  <2>14. OldStackInv'
    BY <1>1, <2>4, <2>5, <2>8, <2>9 DEF SInv, OldStackInv
  <2> QED
    BY <2>10, <2>11, <2>12, <2>13, <2>14 DEF SInv
<1> QED
  BY <1>2, <1>3

\* A new thread has its context on a stack that was just allocated.
LEMMA NewStack ==
    ASSUME IInv, SInv, NEW c \in Cpus, NEW s \in Heap, thread_new(c, s)
    PROVE  SInv'
<1>1. /\ pc[c] = "run" /\ Unlocked /\ s \notin heap /\ heap' = heap \cup {s}
      /\ UNCHANGED <<old_stack, stackaddr, cur_pid, sp, oldtid, tid, pc>>
  BY DEF thread_new, cpuvars
<1>2. CASE td_free = <<>>
  <2>1. UNCHANGED <<cpunum, context, stack, pid, td_free, home>>
    BY <1>2 DEF thread_new, tdvars
  <2> QED
    BY <1>1, <2>1, StackFrame
<1>3. CASE td_free # <<>>
  <2> DEFINE d == Head(td_free)
  <2>1. /\ thread_data_init(d, s, s, CPUNUM_ANY)
        /\ td_free' = LIST1_POP(td_free)
    BY <1>3 DEF thread_new
  <2>2. /\ d \in Tids /\ d \notin Current
        /\ d \in Elems(td_free)
        /\ Elems(td_free') = Elems(td_free) \ {d}
    BY <1>3, <2>1, FreeEntry
  <2> HIDE DEF d
  <2>3. /\ home'[d] = 0 /\ context'[d] = s /\ stack'[d] = s /\ pid'[d] = 0
        /\ \A u \in Tids : u # d => /\ cpunum'[u] = cpunum[u] /\ home'[u] = home[u]
                                    /\ context'[u] = context[u] /\ stack'[u] = stack[u]
                                    /\ pid'[u] = pid[u]
    BY <2>1, <2>2 DEF IInv, TypeOK, thread_data_init
  <2>4. \A x \in Cpus : /\ Online(x)' <=> Online(x)
                        /\ ~Switching(x) /\ ~Switching(x)'
    BY <1>1, OneSwitches DEF Online, Switching
  <2>5. \A x \in Cpus : Online(x) => tid[x] # d /\ tid[x] \in Tids
    BY <2>2 DEF IInv, Current, LocalInv
  <2>6. Current' = Current
    BY <1>1, <2>4 DEF Current
  <2>7. \A t \in Tids : /\ Parked(t)' <=> (Parked(t) \/ t = d)
                        /\ Parked(t) => t # d
    BY <2>2, <2>6 DEF Parked
  <2>8. \A t \in Tids : /\ Saved(t) <=> Parked(t)
                        /\ Resumes(t) <=> Parked(t)
                        /\ Saved(t)' <=> (Parked(t) \/ t = d)
                        /\ Resumes(t)' <=> (Parked(t) \/ t = d)
    BY <2>4, <2>7 DEF Saved, Resumes, Leaving
  <2>9. s \notin Allocated /\ s \in Allocated' /\ Allocated \subseteq Allocated'
    BY <1>1, ThreadAssumption DEF Allocated
  <2>10. PidInv'
    BY <1>1, <2>3, <2>4, <2>5, <2>7 DEF SInv, PidInv
  <2>11. AddrInv'
    BY <1>1, <2>3, <2>4, <2>7, <2>8 DEF SInv, AddrInv
  <2>12. UseInv'
    BY <1>1, <2>3, <2>7, <2>8, <2>9 DEF SInv, UseInv
  <2>13. HeapInv'
    BY <1>1, <2>3, <2>4, <2>5, <2>7, <2>8 DEF SInv, HeapInv, Made
  <2>14. OldStackInv'
    BY <1>1, <2>3, <2>4, <2>7, <2>8 DEF SInv, OldStackInv
  <2> QED
    BY <2>10, <2>11, <2>12, <2>13, <2>14 DEF SInv
<1> QED
  BY <1>2, <1>3

\* schedule() that takes a thread: the stack freed is used by nobody, and
\* the one that is left for good waits in old_stack.
LEMMA ScheduleFoundStack ==
    ASSUME IInv, SInv, NEW c \in Cpus, NEW i \in DOMAIN td_runnable, schedule_found(c, i)
    PROVE  SInv'
<1> DEFINE d == td_runnable[i]
           old == tid[c]
<1>1. /\ pc[c] = "sched" /\ Online(c) /\ Unlocked
      /\ heap' = heap \ {old_stack}
      /\ thread_data_save_and_load(c, old, d)
      /\ leave_old(c, old, LIST1_DEL(td_runnable, d))
      /\ tid' = [tid EXCEPT ![c] = d]
      /\ oldtid' = [oldtid EXCEPT ![c] = old]
      /\ pc' = [pc EXCEPT ![c] = "switch"]
      /\ UNCHANGED <<cpunum, context, sp, home>>
  BY DEF schedule_found, free_old_stack, Online
<1>2. /\ d \in Elems(td_runnable) /\ d \in Tids
      /\ d \notin Elems(td_free) /\ d \notin Current
  BY ListFacts, ElemsFacts DEF IInv, OneOwner
<1>3. /\ old \in Tids /\ old \in Current /\ old \notin Elems(td_free) /\ old # d
      /\ \A x \in Cpus : Online(x) /\ x # c => tid[x] # old
      /\ \A x \in Cpus : Online(x) => tid[x] \in Tids /\ tid[x] # d
  BY <1>1, <1>2 DEF IInv, LocalInv, OneOwner, Current
<1>4. Elems(LIST1_ADD(td_free, old)) = Elems(td_free) \cup {old}
  BY <1>3, ListFacts, AddFacts
<1>5. /\ Elems(td_free') = IF state[old] = "EXIT" THEN Elems(td_free) \cup {old}
                           ELSE Elems(td_free)
      /\ old_stack' = IF state[old] = "EXIT" THEN stackaddr[c] ELSE NULL
  BY <1>1, <1>4 DEF leave_old
<1>6. state[old] = "EXIT" => Made(c)
  BY <1>3, BootRuns DEF Made
<1> HIDE DEF d, old
<1>7. /\ tid'[c] = d /\ oldtid'[c] = old /\ pc'[c] = "switch"
      /\ \A x \in Cpus : x # c => tid'[x] = tid[x] /\ pc'[x] = pc[x]
  BY <1>1 DEF IInv, TypeOK
<1>8. /\ stack'[old] = stackaddr[c] /\ pid'[old] = cur_pid[c]
      /\ stackaddr'[c] = stack[d] /\ cur_pid'[c] = pid[d]
      /\ \A t \in Tids : t # old => stack'[t] = stack[t] /\ pid'[t] = pid[t]
      /\ \A x \in Cpus : x # c => stackaddr'[x] = stackaddr[x] /\ cur_pid'[x] = cur_pid[x]
  BY <1>1, <1>3 DEF IInv, TypeOK, thread_data_save_and_load
<1>9. \A x \in Cpus : /\ Online(x)' <=> Online(x)
                      /\ ~Switching(x)
                      /\ Switching(x)' <=> x = c
  BY <1>1, <1>7, OneSwitches DEF Online, Switching
<1>10. Current' = (Current \ {old}) \cup {d}
  <2>1. ASSUME NEW t PROVE t \in Current' <=> t \in (Current \ {old}) \cup {d}
    BY <1>1, <1>3, <1>7, <1>9 DEF Current, old
  <2> QED
    BY <2>1
<1>11. \A t \in Tids : /\ Saved(t) <=> Parked(t)
                       /\ Resumes(t) <=> Parked(t)
                       /\ Parked(t) => context[t] # old_stack
  BY <1>1, NobodyOnOldStack
<1>12. /\ Parked(d) /\ ~Parked(old)
       /\ \A t \in Tids : /\ Parked(t)' => Parked(t) \/ t = old
                          /\ Saved(t)' <=> (Parked(t) /\ t # d)
                          /\ Resumes(t)' <=> Parked(t)
  <2>1. Parked(d) /\ ~Parked(old)
    BY <1>2, <1>3 DEF Parked
  <2>2. \A t \in Tids : t # old => (Parked(t)' <=> (Parked(t) /\ t # d))
    BY <1>5, <1>10 DEF Parked
  <2>3. \A t \in Tids : Leaving(t)' <=> t = old
    BY <1>7, <1>9 DEF Leaving
  <2>4. \A t \in Tids : Saved(t)' <=> (Parked(t) /\ t # d)
    BY <2>1, <2>2, <2>3 DEF Saved
  <2>5. \A t \in Tids : Resumes(t)' <=> (Saved(t)' \/ t = d)
    BY <1>7, <1>9 DEF Resumes
  <2> QED
    BY <2>1, <2>2, <2>4, <2>5
<1>13. \A s : s \in Allocated /\ s # old_stack => s \in Allocated'
  BY <1>1 DEF Allocated
<1>14. \A x \in Cpus : sp[x] # old_stack
  BY <1>1, NobodyOnOldStack
<1>15. stackaddr[c] = sp[c] /\ cur_pid[c] = home[old] /\ pid[d] = home[d]
  BY <1>1, <1>2, <1>9, <1>12 DEF SInv, AddrInv, PidInv, old
<1>16. PidInv'
  <2>1. \A x \in Cpus : cur_pid'[x] = IF Online(x)' THEN home'[tid'[x]] ELSE 0
    BY <1>1, <1>7, <1>8, <1>9, <1>15 DEF SInv, PidInv
  <2>2. \A t \in Tids : Parked(t)' => pid'[t] = home'[t]
    BY <1>1, <1>8, <1>12, <1>15 DEF SInv, PidInv
  <2> QED
    BY <2>1, <2>2 DEF PidInv
<1>17. AddrInv'
  <2>1. stack[d] = context[d]
    BY <1>2, <1>11, <1>12 DEF SInv, AddrInv
  <2>2. old \notin Current'
    BY <1>3, <1>10
  <2>3. \A x \in Cpus : ~Online(x)' => sp'[x] = BootStack[x]
    BY <1>1, <1>9 DEF SInv, AddrInv
  <2>4. \A x \in Cpus : ~Switching(x)' => stackaddr'[x] = sp'[x]
    BY <1>1, <1>8, <1>9 DEF SInv, AddrInv
  <2>5. \A t \in Tids : Saved(t)' => stack'[t] = context'[t]
    BY <1>1, <1>8, <1>11, <1>12 DEF SInv, AddrInv
  <2> QED
    BY <1>1, <1>7, <1>8, <1>9, <1>15, <2>1, <2>2, <2>3, <2>4, <2>5 DEF AddrInv
<1>18. UseInv'
  BY <1>1, <1>11, <1>12, <1>13, <1>14 DEF SInv, UseInv
<1>19. HeapInv'
  <2>1. \A x \in Cpus : x # c /\ Made(x)' => Made(x)
    BY <1>1, <1>7 DEF Made
  <2>2. cpunum'[old] = CPUNUM_ANY => Made(c)
    BY <1>1 DEF Made, old
  <2> QED
    BY <1>1, <1>7, <1>9, <1>11, <1>12, <1>14, <2>1, <2>2 DEF SInv, HeapInv
<1>20. OldStackInv'
  <2>1. SUFFICES ASSUME old_stack' # NULL PROVE OldStackInv'
    BY DEF OldStackInv
  <2>2. state[old] = "EXIT" /\ old_stack' = sp[c] /\ old \in Elems(td_free')
    BY <1>5, <1>15, <2>1
  <2>3. old_stack' \in heap'
    BY <1>1, <1>6, <1>9, <1>14, <2>2 DEF SInv, HeapInv
  <2>4. \A t \in Tids : Resumes(t)' => context'[t] # old_stack'
    BY <1>1, <1>11, <1>12, <2>2 DEF SInv, UseInv
  <2>5. \A x \in Cpus : sp'[x] = old_stack' => Switching(x)' /\ oldtid'[x] \in Elems(td_free')
    BY <1>1, <1>7, <1>9, <2>2 DEF SInv, UseInv
  <2> QED
    BY <2>3, <2>4, <2>5 DEF OldStackInv
<1> QED
  BY <1>16, <1>17, <1>18, <1>19, <1>20 DEF SInv

\* The stack switch: the context of the thread that is left is its stack,
\* unless the thread has exited.
LEMMA SwitchStack ==
    ASSUME IInv, SInv, NEW c \in Cpus, thread_arch_switch(c)
    PROVE  SInv'
<1> DEFINE d == tid[c]
           o == oldtid[c]
<1>1. /\ Switching(c) /\ Online(c)
      /\ context' = [context EXCEPT ![o] = sp[c]]
      /\ sp' = [sp EXCEPT ![c] = context[d]]
      /\ pc' = [pc EXCEPT ![c] = "run"]
      /\ UNCHANGED <<cpunum, stack, pid, td_free, old_stack, heap, tid, stackaddr, cur_pid,
                     home>>
  BY DEF thread_arch_switch, Switching, Online, listvars
<1>2. /\ d \in Tids /\ d \in Current /\ o \in Tids /\ o \notin Current /\ o # d
      /\ stackaddr[c] = context[d] /\ stack[o] = sp[c]
  BY <1>1 DEF IInv, LocalInv, Current, SInv, AddrInv, Switching
<1>3. \A x \in Cpus : Switching(x) <=> x = c
  BY <1>1, OneSwitches
<1> HIDE DEF d, o
<1>4. /\ context'[o] = sp[c] /\ sp'[c] = context[d] /\ pc'[c] = "run"
      /\ \A t \in Tids : t # o => context'[t] = context[t]
      /\ \A x \in Cpus : x # c => sp'[x] = sp[x] /\ pc'[x] = pc[x]
  BY <1>1, <1>2 DEF IInv, TypeOK
<1>5. \A x \in Cpus : (Online(x)' <=> Online(x)) /\ ~Switching(x)'
  BY <1>1, <1>3, <1>4 DEF Online, Switching
<1>6. Current' = Current
  BY <1>1, <1>5 DEF Current
<1>7. \A t \in Tids : Parked(t)' <=> Parked(t)
  BY <1>1, <1>6 DEF Parked
<1>8. \A t \in Tids : /\ Saved(t) <=> (Parked(t) /\ t # o)
                      /\ Resumes(t) <=> (Saved(t) \/ t = d)
                      /\ Saved(t)' <=> Parked(t)
                      /\ Resumes(t)' <=> Parked(t)
  <2>1. \A t \in Tids : Leaving(t) <=> t = o
    BY <1>3 DEF Leaving, o
  <2>2. \A t \in Tids : Resumes(t) <=> (Saved(t) \/ t = d)
    BY <1>3 DEF Resumes, d
  <2>3. \A t \in Tids : (Saved(t)' <=> Parked(t)) /\ (Resumes(t)' <=> Parked(t))
    BY <1>5, <1>7 DEF Saved, Leaving, Resumes
  <2> QED
    BY <2>1, <2>2, <2>3 DEF Saved
<1>9. /\ Resumes(d) /\ ~Parked(d)
      /\ \A t \in Tids : Parked(t) /\ t # o => Resumes(t) /\ t # d
      /\ Parked(o) => o \notin Elems(td_free)
  BY <1>2, <1>8 DEF Parked
<1>10. PidInv'
  BY <1>1, <1>5, <1>7 DEF SInv, PidInv
<1>11. AddrInv'
  <2>1. \A x \in Cpus : ~Online(x)' => sp'[x] = BootStack[x]
    BY <1>1, <1>4, <1>5 DEF SInv, AddrInv
  <2>2. \A x \in Cpus : stackaddr'[x] = sp'[x]
    BY <1>1, <1>2, <1>3, <1>4 DEF SInv, AddrInv
  <2>3. \A t \in Tids : Saved(t)' => stack'[t] = context'[t]
    BY <1>1, <1>2, <1>4, <1>8 DEF SInv, AddrInv
  <2> QED
    BY <1>5, <2>1, <2>2, <2>3 DEF AddrInv
<1>12. UseInv'
  <2>1. Allocated' = Allocated
    BY <1>1 DEF Allocated
  <2>2. /\ \A x \in Cpus : sp'[x] \in Allocated'
        /\ \A t \in Tids : Resumes(t)' => context'[t] \in Allocated'
    BY <1>2, <1>4, <1>8, <1>9, <2>1 DEF SInv, UseInv
  <2>3. \A c1, c2 \in Cpus : c1 # c2 => sp'[c1] # sp'[c2]
    BY <1>2, <1>4, <1>9 DEF SInv, UseInv
  <2>4. \A t1, t2 \in Tids : (Resumes(t1) /\ Resumes(t2))' /\ t1 # t2
                                => context'[t1] # context'[t2]
    BY <1>2, <1>4, <1>8, <1>9 DEF SInv, UseInv
  <2>5. \A t \in Tids, x \in Cpus : Resumes(t)' => context'[t] # sp'[x]
    BY <1>2, <1>4, <1>8, <1>9 DEF SInv, UseInv
  <2> QED
    BY <2>2, <2>3, <2>4, <2>5 DEF UseInv
<1>13. HeapInv'
  <2>1. \A x \in Cpus : (Online(x) /\ Made(x))' => sp'[x] \in heap'
    BY <1>1, <1>2, <1>3, <1>4, <1>5, <1>9 DEF SInv, HeapInv, Made, d
  <2>2. \A t \in Tids : Resumes(t)' /\ cpunum'[t] = CPUNUM_ANY => context'[t] \in heap'
    BY <1>1, <1>2, <1>4, <1>8, <1>9 DEF SInv, HeapInv, o
  <2> QED
    BY <1>5, <2>1, <2>2 DEF HeapInv
<1>14. OldStackInv'
  <2>1. SUFFICES ASSUME old_stack # NULL PROVE OldStackInv'
    BY <1>1 DEF OldStackInv
  <2>2. \A t \in Tids : Resumes(t)' => context'[t] # old_stack'
    BY <1>1, <1>2, <1>4, <1>8, <1>9, <2>1 DEF SInv, OldStackInv, o
  <2>3. \A x \in Cpus : sp'[x] # old_stack'
    BY <1>1, <1>2, <1>3, <1>4, <1>9, <2>1 DEF SInv, OldStackInv
  <2> QED
    BY <1>1, <2>1, <2>2, <2>3 DEF SInv, OldStackInv
<1> QED
  BY <1>10, <1>11, <1>12, <1>13, <1>14 DEF SInv
----------------------------------------------------------------------------
\* Every step of every processor preserves the invariant about stacks.
LEMMA StackNextInv == IInv /\ SInv /\ [Next]_vars => SInv'
<1> SUFFICES ASSUME IInv, SInv, [Next]_vars PROVE SInv'
  OBVIOUS
<1>1. CASE UNCHANGED vars
  BY <1>1, StackFrame DEF vars, tdvars, listvars, cpuvars
<1>2. ASSUME NEW c \in Cpus, Step(c)
      PROVE  SInv'
  BY <1>2, InitPcpuStack, NewStack, QuietStack, ScheduleNoneStack, ScheduleFoundStack,
     SwitchStack, SetPidStack
     DEF Step
<1> QED
  BY <1>1, <1>2 DEF Next

\* The invariant about stacks and saved data holds in every reachable state.
THEOREM StackInvariance == Spec => []SInv
  BY Invariance, StackInitInv, StackNextInv, PTL DEF Spec

\* Nobody executes on, or will resume on, a stack that is freed or that
\* somebody else uses (thread.c, schedule and old_stack).
THEOREM StacksAreSafe == Spec => []StackSafety
<1>1. ASSUME IInv, SInv PROVE StackSafety
  <2>1. \A t \in Suspended : t \in Tids /\ Resumes(t)
    BY <1>1 DEF Suspended, Resumes, Saved, Parked, Leaving, Switching, IInv, OneOwner
  <2>2. \A x \in Cpus : Switching(x) => thread_lock = x
    BY <1>1 DEF IInv, LocalInv, Switching
  <2> QED
    BY <1>1, <2>1, <2>2 DEF StackSafety, SInv, UseInv, OldStackInv, Switching
<1> QED
  BY <1>1, Invariance, StackInvariance, PTL

\* A thread that resumes finds its own stack address and address space
\* (thread_data_save_and_load).
THEOREM DataFollowThread == Spec => []ContextFollowsThread
<1>1. ASSUME IInv, SInv PROVE ContextFollowsThread
  BY <1>1 DEF ContextFollowsThread, SInv, PidInv, AddrInv, Switching, Online
<1> QED
  BY <1>1, Invariance, StackInvariance, PTL
=============================================================================

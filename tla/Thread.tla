------------------------------- MODULE Thread -------------------------------
(***************************************************************************)
(* The cooperative thread scheduler of the VMM (core/thread.c).            *)
(*                                                                         *)
(* Every processor runs one thread of the table td[].  schedule() takes    *)
(* the first thread of td_runnable that may run on this processor, puts    *)
(* the current one where its state says (the run queue, nowhere, or the    *)
(* free list) and switches stacks with thread_lock held; the thread that   *)
(* is switched to releases the lock.  A thread blocks by thread_will_stop  *)
(* followed by schedule, and is woken by thread_wakeup from any processor. *)
(*                                                                         *)
(* The processors interleave between critical sections; a critical section *)
(* is one step because thread_lock excludes all the others.  What stays    *)
(* split is what the code does outside thread_lock: the two critical       *)
(* sections of thread_wakeup, setting THREAD_EXIT and then scheduling, the *)
(* THREAD_1CPU test before and its release after, and the stack switch,    *)
(* which leaves the old stack in use after td[] already says otherwise.    *)
(***************************************************************************)
EXTENDS Integers, List1

CONSTANTS
    NumCpus,            \* processors, numbered from 0 (the BSP)
    MAXNUM_OF_THREADS,  \* the size of td[]
    Heap,               \* the stacks alloc() can return
    BootStack,          \* the stack each processor came up on
    NULL,               \* the null pointer
    Pids,               \* address spaces a thread may enter; 0 is the VMM's
    Builds              \* the values of THREAD_1CPU that are looked at

NONE == -1              \* no lock holder, no tid, thread_cpu = ~0
CPUNUM_ANY == -1
Cpus == 0 .. NumCpus - 1
Tids == 0 .. MAXNUM_OF_THREADS - 1
Stacks == Heap \cup Range(BootStack)

ASSUME ThreadAssumption ==
    /\ NumCpus \in Nat \ {0}
    /\ MAXNUM_OF_THREADS \in Nat
    /\ NumCpus <= MAXNUM_OF_THREADS
    /\ BootStack \in [Cpus -> Range(BootStack)]
    /\ IsInjective(BootStack)
    /\ Heap \cap Range(BootStack) = {}
    /\ NULL \notin Stacks
    /\ 0 \in Pids
    /\ Builds \subseteq BOOLEAN

VARIABLES
    THREAD_1CPU,        \* the build option of that name, which never changes
    \* struct thread_data td[].  pid stands for the pid, syscallstack and
    \* process_switch fields, which are always saved and loaded together.
    state, cpunum, context, stack, pid,
    td_free, td_runnable, thread_lock, old_stack, thread_cpu0only,
    thread_cpu,         \* static variable of schedule_skip
    \* The per-processor data and registers.
    tid, stackaddr, cur_pid,
    sp,                 \* the stack the processor really executes on
    pc,                 \* where in thread.c the processor is
    oldtid,             \* local of schedule()
    target,             \* argument of thread_wakeup()
    heap,               \* the allocated stacks
    panicked,
    home                \* history: the address space each thread last entered

tdvars == <<state, cpunum, context, stack, pid>>
listvars == <<td_free, td_runnable, old_stack, heap>>
cpuvars == <<tid, stackaddr, cur_pid, sp, oldtid, target>>
vars == <<tdvars, listvars, cpuvars, thread_lock, thread_cpu0only,
          thread_cpu, pc, panicked, home, THREAD_1CPU>>

ThreadState == {"EXIT", "RUN", "WILL_STOP", "STOP"}
\* "run" is code outside thread.c; "returned" is code behind thread_exit().
PC == {"off", "run", "exit", "sched", "unskip", "switch", "wake", "returned"}

Online(c) == pc[c] # "off"
Unlocked == thread_lock = NONE
----------------------------------------------------------------------------
(* thread_init_global: every td[] entry is on the free list.               *)
Init ==
    /\ THREAD_1CPU \in Builds
    /\ state = [t \in Tids |-> "EXIT"]
    /\ cpunum = [t \in Tids |-> 0]
    /\ context = [t \in Tids |-> NULL]
    /\ stack = [t \in Tids |-> NULL]
    /\ pid = [t \in Tids |-> 0]
    /\ td_free = [i \in 1 .. MAXNUM_OF_THREADS |-> i - 1]
    /\ td_runnable = <<>>
    /\ thread_lock = NONE
    /\ old_stack = NULL
    /\ thread_cpu0only = FALSE
    /\ thread_cpu = NONE
    /\ tid = [c \in Cpus |-> NONE]
    /\ stackaddr = BootStack
    /\ cur_pid = [c \in Cpus |-> 0]
    /\ sp = BootStack
    /\ pc = [c \in Cpus |-> "off"]
    /\ oldtid = [c \in Cpus |-> NONE]
    /\ target = [c \in Cpus |-> NONE]
    /\ heap = {}
    /\ panicked = "no"
    /\ home = [t \in Tids |-> 0]

\* Mutant: the pid field is left at "no process".
thread_data_init_NoPid(d, ctx, stk, cpu) ==
    /\ context' = [context EXCEPT ![d] = ctx]
    /\ cpunum' = [cpunum EXCEPT ![d] = cpu]
    /\ stack' = [stack EXCEPT ![d] = stk]
    /\ pid' = [pid EXCEPT ![d] = NONE]
    /\ state' = [state EXCEPT ![d] = "RUN"]
    /\ home' = [home EXCEPT ![d] = 0]

thread_data_init(d, ctx, stk, cpu) ==
    /\ context' = [context EXCEPT ![d] = ctx]
    /\ cpunum' = [cpunum EXCEPT ![d] = cpu]
    /\ stack' = [stack EXCEPT ![d] = stk]
    /\ pid' = [pid EXCEPT ![d] = 0]
    /\ state' = [state EXCEPT ![d] = "RUN"]
    /\ home' = [home EXCEPT ![d] = 0]

\* ASSERT (d) fails with thread_lock held.
AssertFails(c) ==
    /\ thread_lock' = c
    /\ panicked' = "assert"

(* A processor comes up and becomes the boot thread that is pinned to it;  *)
(* the BSP is first.  td[] has an entry per processor and more, but        *)
(* threads created meanwhile may have used them up.                        *)
thread_init_pcpu(c) ==
    /\ pc[c] = "off"
    /\ c = 0 \/ Online(0)
    /\ Unlocked
    /\ \/ /\ td_free # <<>>
          /\ LET d == Head(td_free) IN
                /\ thread_data_init(d, NULL, NULL, c)
                /\ tid' = [tid EXCEPT ![c] = d]
          /\ td_free' = LIST1_POP(td_free)
          /\ pc' = [pc EXCEPT ![c] = "run"]
          /\ UNCHANGED <<thread_lock, panicked>>
       \/ /\ td_free = <<>>
          /\ AssertFails(c)
          /\ UNCHANGED <<tdvars, home, tid, td_free, pc>>
    /\ UNCHANGED <<td_runnable, old_stack, heap, stackaddr, cur_pid, sp,
                   oldtid, target, thread_cpu0only, THREAD_1CPU, thread_cpu>>

(* thread_new: the context of the new thread is built on its own stack.    *)
thread_new(c, s) ==
    /\ pc[c] = "run"
    /\ Unlocked
    /\ s \notin heap
    /\ heap' = heap \cup {s}
    /\ \/ /\ td_free # <<>>
          /\ LET d == Head(td_free) IN
                /\ thread_data_init(d, s, s, CPUNUM_ANY)
                /\ td_runnable' = LIST1_ADD(td_runnable, d)
          /\ td_free' = LIST1_POP(td_free)
          /\ UNCHANGED <<thread_lock, panicked>>
       \/ /\ td_free = <<>>
          /\ AssertFails(c)
          /\ UNCHANGED <<tdvars, home, td_runnable, td_free>>
    /\ UNCHANGED <<cpuvars, pc, old_stack, thread_cpu0only, THREAD_1CPU, thread_cpu>>
----------------------------------------------------------------------------
(* schedule_skip (true): with THREAD_1CPU only the processor that owns     *)
(* thread_cpu goes on.                                                     *)
Skips(c) == THREAD_1CPU /\ thread_cpu \notin {NONE, c}

\* What follows when schedule() returns without having switched.
Return(c) == IF state[tid[c]] = "EXIT" THEN "returned" ELSE "run"

schedule_enter(c) ==
    /\ pc[c] \in {"run", "exit"}
    /\ pc' = [pc EXCEPT ![c] = IF Skips(c) THEN Return(c) ELSE "sched"]
    /\ thread_cpu' = IF THREAD_1CPU /\ ~Skips(c) THEN c ELSE thread_cpu
    /\ UNCHANGED <<tdvars, listvars, cpuvars, thread_lock, thread_cpu0only, THREAD_1CPU,
                   panicked, home>>

\* Mutant: the test d->cpunum == cpucur is forgotten.
Eligible_AnyOnly(c, t) ==
    LET cpuany == IF thread_cpu0only /\ c # 0 THEN c ELSE CPUNUM_ANY
    IN  cpunum[t] = cpuany

\* May thread t be taken by processor c?
Eligible(c, t) ==
    LET cpuany == IF thread_cpu0only /\ c # 0 THEN c ELSE CPUNUM_ANY
    IN  cpunum[t] \in {cpuany, c}

\* The stack of the thread that exited before is freed at the next schedule().
free_old_stack == heap' = heap \ {old_stack}

(* No thread to switch to: schedule() unlocks and returns.                 *)
schedule_none(c) ==
    /\ pc[c] = "sched"
    /\ Unlocked
    /\ \A t \in Elems(td_runnable) : ~Eligible(c, t)
    /\ free_old_stack
    /\ old_stack' = NULL
    /\ pc' = [pc EXCEPT ![c] = IF THREAD_1CPU THEN "unskip" ELSE Return(c)]
    /\ UNCHANGED <<tdvars, cpuvars, td_free, td_runnable, thread_lock,
                   thread_cpu0only, THREAD_1CPU, thread_cpu, panicked, home>>

\* schedule_skip (false) after the unlock.
schedule_unskip(c) ==
    /\ pc[c] = "unskip"
    /\ thread_cpu' = NONE
    /\ pc' = [pc EXCEPT ![c] = Return(c)]
    /\ UNCHANGED <<tdvars, listvars, cpuvars, thread_lock, thread_cpu0only, THREAD_1CPU,
                   panicked, home>>

\* Mutant: the pid of the thread that is left is not saved.
thread_data_save_and_load_NoPid(c, old, new) ==
    /\ stack' = [stack EXCEPT ![old] = stackaddr[c]]
    /\ stackaddr' = [stackaddr EXCEPT ![c] = stack[new]]
    /\ cur_pid' = [cur_pid EXCEPT ![c] = pid[new]]
    /\ UNCHANGED pid

\* The old thread's per-processor data go to td[], the new one's come from it.
thread_data_save_and_load(c, old, new) ==
    /\ stack' = [stack EXCEPT ![old] = stackaddr[c]]
    /\ pid' = [pid EXCEPT ![old] = cur_pid[c]]
    /\ stackaddr' = [stackaddr EXCEPT ![c] = stack[new]]
    /\ cur_pid' = [cur_pid EXCEPT ![c] = pid[new]]

\* The switch on the state of the thread that is left; rest is td_runnable
\* without the thread that is taken.
leave_old(c, old, rest) ==
    \/ /\ state[old] = "EXIT"
       /\ old_stack' = stackaddr[c]
       /\ td_free' = LIST1_ADD(td_free, old)
       /\ td_runnable' = rest
       /\ UNCHANGED state
    \/ /\ state[old] = "RUN"
       /\ td_runnable' = LIST1_ADD(rest, old)
       /\ old_stack' = NULL
       /\ UNCHANGED <<state, td_free>>
    \/ /\ state[old] \in {"WILL_STOP", "STOP"}
       /\ state' = [state EXCEPT ![old] = "STOP"]
       /\ td_runnable' = rest
       /\ old_stack' = NULL
       /\ UNCHANGED td_free

\* thread_lock stays taken over the stack switch.  Mutant: it does not.
keep_lock_Not(c) == UNCHANGED thread_lock
keep_lock(c) == thread_lock' = c

\* schedule_skip (false) when the thread that is taken is a boot thread.
\* Mutant: for every thread.
unskip_boot_Every(d) == thread_cpu' = NONE
unskip_boot(d) ==
    thread_cpu' = IF THREAD_1CPU /\ cpunum[d] # CPUNUM_ANY THEN NONE
                  ELSE thread_cpu

(* The critical section of schedule() when the thread at place i of the    *)
(* run queue is the first that may run here.                               *)
schedule_found(c, i) ==
    LET d == td_runnable[i]
        old == tid[c]
    IN  /\ pc[c] = "sched"
        /\ Unlocked
        /\ Eligible(c, d)
        /\ \A j \in 1 .. i - 1 : ~Eligible(c, td_runnable[j])
        /\ free_old_stack
        /\ tid' = [tid EXCEPT ![c] = d]
        /\ oldtid' = [oldtid EXCEPT ![c] = old]
        /\ thread_data_save_and_load(c, old, d)
        /\ leave_old(c, old, LIST1_DEL(td_runnable, d))
        /\ panicked' = IF state[old] = "STOP" THEN "bad state" ELSE panicked
        /\ unskip_boot(d)
        /\ keep_lock(c)
        /\ pc' = [pc EXCEPT ![c] = "switch"]
        /\ UNCHANGED <<cpunum, context, sp, target, thread_cpu0only, THREAD_1CPU, home>>

(* thread_arch_switch saves the old context on the old stack and continues *)
(* on the new one, where switched() unlocks.                               *)
thread_arch_switch(c) ==
    /\ pc[c] = "switch"
    /\ context' = [context EXCEPT ![oldtid[c]] = sp[c]]
    /\ sp' = [sp EXCEPT ![c] = context[tid[c]]]
    /\ oldtid' = [oldtid EXCEPT ![c] = NONE]
    /\ thread_lock' = NONE
    /\ pc' = [pc EXCEPT ![c] = "run"]
    /\ UNCHANGED <<state, cpunum, stack, pid, listvars, tid, stackaddr,
                   cur_pid, target, thread_cpu0only, THREAD_1CPU, thread_cpu, panicked,
                   home>>
----------------------------------------------------------------------------
(* thread_set_state: the exchange of the state under thread_lock.          *)
thread_set_state(t, s) ==
    /\ Unlocked
    /\ state' = [state EXCEPT ![t] = s]

BadState(t, bad) == IF state[t] \in bad THEN "bad state" ELSE panicked

thread_will_stop(c) ==
    /\ pc[c] = "run"
    /\ thread_set_state(tid[c], "WILL_STOP")
    /\ panicked' = BadState(tid[c], {"STOP", "EXIT"})
    /\ UNCHANGED <<cpunum, context, stack, pid, listvars, cpuvars,
                   thread_lock, thread_cpu0only, THREAD_1CPU, thread_cpu, pc, home>>

(* The first half of thread_exit(); schedule() follows.                    *)
thread_exit(c) ==
    /\ pc[c] = "run"
    /\ thread_set_state(tid[c], "EXIT")
    /\ panicked' = BadState(tid[c], {"STOP"})
    /\ pc' = [pc EXCEPT ![c] = "exit"]
    /\ UNCHANGED <<cpunum, context, stack, pid, listvars, cpuvars,
                   thread_lock, thread_cpu0only, THREAD_1CPU, thread_cpu, home>>

\* Only a thread that has really stopped is queued.  Mutant: one that only
\* will stop is queued as well.
must_queue_Early(t) == state[t] \in {"STOP", "WILL_STOP"}
must_queue(t) == state[t] = "STOP"

(* thread_wakeup: the state is changed in one critical section, a stopped  *)
(* thread is queued in a second one.                                       *)
thread_wakeup(c, t) ==
    /\ pc[c] = "run"
    /\ thread_set_state(t, "RUN")
    /\ panicked' = BadState(t, {"EXIT"})
    /\ target' = [target EXCEPT ![c] = IF must_queue(t) THEN t ELSE NONE]
    /\ pc' = [pc EXCEPT ![c] = IF must_queue(t) THEN "wake" ELSE "run"]
    /\ UNCHANGED <<cpunum, context, stack, pid, listvars, tid, stackaddr,
                   cur_pid, sp, oldtid, thread_lock, thread_cpu0only, THREAD_1CPU,
                   thread_cpu, home>>

thread_wakeup_add(c) ==
    /\ pc[c] = "wake"
    /\ Unlocked
    /\ td_runnable' = LIST1_ADD(td_runnable, target[c])
    /\ target' = [target EXCEPT ![c] = NONE]
    /\ pc' = [pc EXCEPT ![c] = "run"]
    /\ UNCHANGED <<tdvars, td_free, old_stack, heap, tid, stackaddr, cur_pid,
                   sp, oldtid, thread_lock, thread_cpu0only, THREAD_1CPU, thread_cpu,
                   panicked, home>>

thread_set_cpu0only(c, enable) ==
    /\ pc[c] = "run"
    /\ Unlocked
    /\ thread_cpu0only' = enable
    /\ UNCHANGED <<tdvars, listvars, cpuvars, thread_lock, thread_cpu, pc,
                   panicked, home, THREAD_1CPU>>

(* The thread enters or leaves a process (call_msgfunc0 in process.c).     *)
currentcpu_set_pid(c, p) ==
    /\ pc[c] = "run"
    /\ cur_pid' = [cur_pid EXCEPT ![c] = p]
    /\ home' = [home EXCEPT ![tid[c]] = p]
    /\ UNCHANGED <<tdvars, listvars, tid, stackaddr, sp, oldtid, target,
                   thread_lock, thread_cpu0only, THREAD_1CPU, thread_cpu, pc, panicked>>
----------------------------------------------------------------------------
(* How the rest of the VMM uses the scheduler: only threads made by        *)
(* thread_new stop or exit (a boot thread runs the guest), and a thread is *)
(* woken by somebody who knows it is alive (vmmcall_dbgsh.c).              *)
Made(c) == cpunum[tid[c]] = CPUNUM_ANY
Live(t) == state[t] # "EXIT"

Step(c) ==
    \/ thread_init_pcpu(c)
    \/ \E s \in Heap : thread_new(c, s)
    \/ schedule_enter(c)
    \/ schedule_none(c)
    \/ schedule_unskip(c)
    \/ \E i \in DOMAIN td_runnable : schedule_found(c, i)
    \/ thread_arch_switch(c)
    \/ Online(c) /\ Made(c) /\ thread_will_stop(c)
    \/ Online(c) /\ Made(c) /\ thread_exit(c)
    \/ \E t \in Tids : Live(t) /\ thread_wakeup(c, t)
    \/ thread_wakeup_add(c)
    \/ \E enable \in BOOLEAN : thread_set_cpu0only(c, enable)
    \/ \E p \in Pids : currentcpu_set_pid(c, p)

\* panic() stops every processor.
Next == panicked = "no" /\ \E c \in Cpus : Step(c)

Spec == Init /\ [][Next]_vars
----------------------------------------------------------------------------
TypeOK ==
    /\ state \in [Tids -> ThreadState]
    /\ cpunum \in [Tids -> Cpus \cup {CPUNUM_ANY}]
    /\ context \in [Tids -> Stacks \cup {NULL}]
    /\ stack \in [Tids -> Stacks \cup {NULL}]
    /\ pid \in [Tids -> Pids]
    /\ td_free \in Seq(Tids)
    /\ td_runnable \in Seq(Tids)
    /\ thread_lock \in Cpus \cup {NONE}
    /\ old_stack \in Stacks \cup {NULL}
    /\ thread_cpu0only \in BOOLEAN
    /\ thread_cpu \in Cpus \cup {NONE}
    /\ tid \in [Cpus -> Tids \cup {NONE}]
    /\ stackaddr \in [Cpus -> Stacks \cup {NULL}]
    /\ cur_pid \in [Cpus -> Pids]
    /\ sp \in [Cpus -> Stacks \cup {NULL}]
    /\ pc \in [Cpus -> PC]
    /\ oldtid \in [Cpus -> Tids \cup {NONE}]
    /\ target \in [Cpus -> Tids \cup {NONE}]
    /\ heap \subseteq Heap
    /\ panicked \in {"no", "assert", "bad state"}
    /\ home \in [Tids -> Pids]
    /\ THREAD_1CPU \in BOOLEAN

\* The threads processors run, and those between the two halves of a wakeup.
Current == {tid[c] : c \in {x \in Cpus : Online(x)}}
Waking == {target[c] : c \in {x \in Cpus : pc[x] = "wake"}}

(* Every td[] entry has one owner: the free list, the run queue, the one   *)
(* processor that runs it, the one processor that is waking it, or nobody  *)
(* while it is stopped; the state field says which.  So no thread runs on  *)
(* two processors, none is queued twice, and none is lost: a thread whose  *)
(* state is THREAD_RUN is on its way to run (thread.c:175, 254).           *)
OneOwner ==
    /\ IsList(td_free)
    /\ IsList(td_runnable)
    /\ \A c1, c2 \in Cpus : Online(c1) /\ Online(c2) /\ c1 # c2 => tid[c1] # tid[c2]
    /\ \A c1, c2 \in Cpus :
          pc[c1] = "wake" /\ pc[c2] = "wake" /\ c1 # c2 => target[c1] # target[c2]
    /\ Elems(td_free) \cap Elems(td_runnable) = {}
    /\ (Elems(td_free) \cup Elems(td_runnable)) \cap (Current \cup Waking) = {}
    /\ Current \cap Waking = {}
    /\ \A t \in Elems(td_free) : state[t] = "EXIT"
    /\ \A t \in Elems(td_runnable) \cup Waking : state[t] = "RUN"
    /\ \A t \in Current : state[t] # "STOP"
    /\ \A t \in Tids : state[t] # "STOP" =>
          t \in Elems(td_free) \cup Elems(td_runnable) \cup Current \cup Waking

(* schedule() called from thread_exit() always finds a thread to switch    *)
(* to, so an exited thread never executes again (thread.c:307).            *)
ExitNeverReturns == \A c \in Cpus : pc[c] # "returned"

(* No "bad state" panic of schedule, thread_wakeup, thread_will_stop and   *)
(* thread_exit is reachable.                                               *)
NoBadState == panicked # "bad state"

\* The threads whose saved context will be used by a later switch.
Suspended ==
    {t \in Tids : \/ t \in Elems(td_runnable) \cup Waking
                  \/ state[t] = "STOP"
                  \/ \E c \in Cpus : pc[c] = "switch" /\ tid[c] = t}
      \ {oldtid[c] : c \in {x \in Cpus : pc[x] = "switch"}}

Allocated == heap \cup Range(BootStack)

(* Every processor executes on, and every saved context lies on, a stack   *)
(* that is allocated and that nobody else uses; the stack of an exited     *)
(* thread waits in old_stack, and only the processor that is just leaving  *)
(* it, with thread_lock held, still executes on it (thread.c:156, 177).    *)
StackSafety ==
    /\ \A c \in Cpus : Online(c) => sp[c] \in Allocated
    /\ \A c1, c2 \in Cpus : Online(c1) /\ Online(c2) /\ c1 # c2 => sp[c1] # sp[c2]
    /\ \A t \in Suspended : context[t] \in Allocated
    /\ \A t1, t2 \in Suspended : t1 # t2 => context[t1] # context[t2]
    /\ \A t \in Suspended, c \in Cpus : Online(c) => context[t] # sp[c]
    /\ old_stack # NULL =>
          /\ old_stack \in heap
          /\ \A t \in Suspended : context[t] # old_stack
          /\ \A c \in Cpus : sp[c] = old_stack => pc[c] = "switch" /\ thread_lock = c

(* A thread finds the stack address and the address space it left, on      *)
(* whatever processor it resumes (thread_data_save_and_load).              *)
ContextFollowsThread ==
    \A c \in Cpus : pc[c] \notin {"off", "switch"} =>
        /\ stackaddr[c] = sp[c]
        /\ cur_pid[c] = home[tid[c]]

(* Kconfig, THREAD_1CPU: "while one processor is running threads, other    *)
(* processors never start running threads."                                *)
OneCpuRunsThreads ==
    THREAD_1CPU => \A c1, c2 \in Cpus :
        Online(c1) /\ Online(c2) /\ Made(c1) /\ Made(c2) => c1 = c2
----------------------------------------------------------------------------
(* Threads are cooperative: each calls schedule() again and again (the     *)
(* guest's boot thread at every VM exit, thread.c:wait_msghandler and the  *)
(* service threads in their loops), and thread_lock is a ticket lock, so   *)
(* a processor that keeps asking for it gets it.                           *)
Locks(c) ==
    \/ schedule_none(c)
    \/ \E i \in DOMAIN td_runnable : schedule_found(c, i)
    \/ thread_wakeup_add(c)

Fairness ==
    \A c \in Cpus :
        /\ SF_vars(schedule_enter(c))
        /\ SF_vars(Locks(c))
        /\ WF_vars(thread_arch_switch(c))

FairSpec == Spec /\ Fairness

(* A thread that is ready, in particular one that was just woken or        *)
(* created, is eventually run by some processor, even while                *)
(* thread_cpu0only leaves it to the BSP alone.                             *)
ReadyThreadRuns ==
    \A t \in Tids :
        state[t] = "RUN" ~> (t \in Current \/ panicked # "no")
=============================================================================

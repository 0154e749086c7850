------------------------------- MODULE Timer -------------------------------
(***************************************************************************)
(* The timers of the VMM (core/timer.c).                                   *)
(*                                                                         *)
(* A timer is in one of three lists; the list of armed timers is kept in   *)
(* the order of the deadlines, and the timer thread only looks at its      *)
(* head.  Every operation is one critical section of timer_lock and so one *)
(* step.  The thread calls a callback after the unlock, when the timer may *)
(* already be set again, freed, or given to somebody else.                 *)
(*                                                                         *)
(* Each processor has its own clock (core/time.c, modelled in CpuTime): a  *)
(* call of get_time gives any time within SKEW of the fastest clock, so a  *)
(* timer may be set, or looked at, at a time before the one another timer  *)
(* was set at; the unsigned difference of the two then wraps.              *)
(*                                                                         *)
(* A client is a callback with its data; it owns at most one timer at a    *)
(* time and may use it from any processor, its callback included.          *)
(***************************************************************************)
EXTENDS Integers, FiniteSets, List1

CONSTANTS
    Timers,     \* the entries timer_init_global allocates (MAX_TIMER)
    Clients,
    Intervals,  \* the intervals clients set
    NULL,
    SKEW,       \* how far a processor's clock may be behind the fastest one
    WRAP,       \* 2^64: the times are u64
    MaxTime     \* bound: the clocks stop here

ASSUME TimerAssumption ==
    /\ IsFiniteSet(Timers)
    /\ Intervals \subseteq Nat /\ MaxTime \in Nat /\ SKEW \in Nat
    /\ WRAP \in Nat /\ WRAP > 2 * MaxTime
    /\ NULL \notin Timers \cup Clients

VARIABLES
    list1_timer_on, list1_timer_off, list1_timer_free,
    enable, settime, interval,
    client,             \* the callback and data fields
    timer_lock,
    timer_thread_run,
    time,               \* the fastest clock
    handle,             \* the timer each client holds
    pc,                 \* where the timer thread is
    callback,           \* locals of timer_thread: timer and client to call
    owed,               \* history: the calls each client has asked for, less
                        \* the ones it got or gave up
    behind              \* history: was the timer last set at a time before the
                        \* one at which some timer of the list had been set?

lists == <<list1_timer_on, list1_timer_off, list1_timer_free>>
thread == <<pc, callback>>
vars == <<lists, enable, settime, interval, client, timer_lock,
          timer_thread_run, time, handle, thread, owed, behind>>

Init ==
    /\ list1_timer_on = <<>>
    /\ list1_timer_off = <<>>
    /\ list1_timer_free \in SetToSeqs(Timers)
    /\ enable = [p \in Timers |-> FALSE]
    /\ settime = [p \in Timers |-> 0]
    /\ interval = [p \in Timers |-> 0]
    /\ client = [p \in Timers |-> NULL]
    /\ timer_lock = "free"
    /\ timer_thread_run = FALSE
    /\ time = 0
    /\ handle = [x \in Clients |-> NULL]
    /\ pc = "none"
    /\ callback = <<NULL, NULL>>
    /\ owed = [x \in Clients |-> 0]
    /\ behind = [p \in Timers |-> FALSE]

Tick ==
    /\ time < MaxTime
    /\ time' = time + 1
    /\ UNCHANGED <<lists, enable, settime, interval, client, timer_lock,
                   timer_thread_run, handle, thread, owed, behind>>

\* What a call of get_time may return on one processor or another.
get_time == {t \in 0 .. time : time - t <= SKEW}

(* When no timer is free, timer_new returns NULL and keeps the lock.       *)
timer_new(x) ==
    /\ handle[x] = NULL
    /\ timer_lock = "free"
    /\ \/ /\ list1_timer_free # <<>>
          /\ LET p == Head(list1_timer_free) IN
                /\ enable' = [enable EXCEPT ![p] = FALSE]
                /\ client' = [client EXCEPT ![p] = x]
                /\ list1_timer_off' = LIST1_ADD(list1_timer_off, p)
                /\ handle' = [handle EXCEPT ![x] = p]
          /\ list1_timer_free' = LIST1_POP(list1_timer_free)
          /\ UNCHANGED timer_lock
       \/ /\ list1_timer_free = <<>>
          /\ timer_lock' = "leaked"
          /\ UNCHANGED <<enable, client, list1_timer_off, list1_timer_free, handle>>
    /\ UNCHANGED <<list1_timer_on, settime, interval, timer_thread_run, time,
                   thread, owed, behind>>

\* The unsigned difference time - p->settime for a reading t of the clock.
Elapsed(p, t) == (t - settime[p]) % WRAP

\* Mutant: the test that keeps the second difference from wrapping is
\* missing, so an expired timer seems to have a very long time left.
Later_Wraps(d, t, usec) == (interval[d] - Elapsed(d, t)) % WRAP > usec

\* Is armed timer d due later than a timer set at t to usec?
Later(d, t, usec) ==
    /\ interval[d] > Elapsed(d, t)
    /\ interval[d] - Elapsed(d, t) > usec

\* The place of the first timer of l that is due later, or behind the last.
InsertPlace(l, t, usec) ==
    LET i == SelectInSeq(l, LAMBDA d : Later(d, t, usec))
    IN  IF i = 0 THEN Len(l) + 1 ELSE i

stamp(p, t, usec) ==
    /\ settime' = [settime EXCEPT ![p] = t]
    /\ interval' = [interval EXCEPT ![p] = usec]

(* timer_set (re)arms the timer and starts the timer thread once.  The     *)
(* bound leaves every clock the time to reach the deadline.                *)
timer_set(p, t, usec) ==
    /\ timer_lock = "free"
    /\ time + usec + SKEW <= MaxTime
    /\ LET on == IF enable[p] THEN LIST1_DEL(list1_timer_on, p) ELSE list1_timer_on
       IN  /\ list1_timer_on' = LIST1_INSERT(on, InsertPlace(on, t, usec), p)
           /\ behind' = [behind EXCEPT ![p] = \E d \in Elems(on) : settime[d] > t]
    /\ list1_timer_off' = IF enable[p] THEN list1_timer_off
                          ELSE LIST1_DEL(list1_timer_off, p)
    /\ enable' = [enable EXCEPT ![p] = TRUE]
    /\ stamp(p, t, usec)
    /\ timer_thread_run' = TRUE
    /\ owed' = [owed EXCEPT ![client[p]] = IF enable[p] THEN @ ELSE @ + 1]
    /\ UNCHANGED <<list1_timer_free, client, timer_lock, time, handle, callback>>

\* Mutant: the timer thread is not started.
client_set_NoThread(x, usec) ==
    /\ handle[x] # NULL
    /\ \E t \in get_time : timer_set(handle[x], t, usec)
    /\ UNCHANGED pc

client_set(x, usec) ==
    /\ handle[x] # NULL
    /\ \E t \in get_time : timer_set(handle[x], t, usec)
    /\ pc' = IF timer_thread_run THEN pc ELSE "loop"

\* Mutant: the timer keeps its enable flag.
disable_Not(p) == UNCHANGED enable
disable(p) == enable' = [enable EXCEPT ![p] = FALSE]

timer_free(x) ==
    LET p == handle[x] IN
    /\ p # NULL
    /\ timer_lock = "free"
    /\ list1_timer_on' = IF enable[p] THEN LIST1_DEL(list1_timer_on, p)
                         ELSE list1_timer_on
    /\ list1_timer_off' = IF enable[p] THEN list1_timer_off
                          ELSE LIST1_DEL(list1_timer_off, p)
    /\ disable(p)
    /\ list1_timer_free' = LIST1_ADD(list1_timer_free, p)
    /\ handle' = [handle EXCEPT ![x] = NULL]
    /\ owed' = [owed EXCEPT ![x] = IF enable[p] THEN @ - 1 ELSE @]
    /\ UNCHANGED <<settime, interval, client, timer_lock, timer_thread_run,
                   time, thread, behind>>
----------------------------------------------------------------------------
Expired(p, t) == Elapsed(p, t) >= interval[p]

(* The critical section of timer_thread: the head of the list, if it has   *)
(* expired, becomes idle, and its callback and data are copied.            *)
timer_thread_found ==
    LET p == Head(list1_timer_on) IN
    /\ pc = "loop"
    /\ timer_lock = "free"
    /\ list1_timer_on # <<>>
    /\ \E t \in get_time : Expired(p, t)
    /\ list1_timer_on' = LIST1_DEL(list1_timer_on, p)
    /\ disable(p)
    /\ callback' = <<p, client[p]>>
    /\ list1_timer_off' = LIST1_ADD(list1_timer_off, p)
    /\ pc' = "unlocked"
    /\ UNCHANGED <<list1_timer_free, settime, interval, client, timer_lock,
                   timer_thread_run, time, handle, owed, behind>>

\* Mutant: the fields are read again after the unlock instead of copied.
timer_thread_call_Reads ==
    /\ pc = "unlocked"
    /\ callback' = <<callback[1], client[callback[1]]>>
    /\ owed' = [owed EXCEPT ![client[callback[1]]] = @ - 1]
    /\ pc' = "callback"
    /\ UNCHANGED <<lists, enable, settime, interval, client, timer_lock,
                   timer_thread_run, time, handle, behind>>

timer_thread_call ==
    /\ pc = "unlocked"
    /\ owed' = [owed EXCEPT ![callback[2]] = @ - 1]
    /\ pc' = "callback"
    /\ UNCHANGED <<lists, enable, settime, interval, client, timer_lock,
                   timer_thread_run, time, handle, callback, behind>>

(* A callback may set its timer again as long as its client holds it.      *)
callback_set(usec) ==
    /\ pc = "callback"
    /\ handle[callback[2]] = callback[1]
    /\ \E t \in get_time : timer_set(callback[1], t, usec)
    /\ pc' = "loop"

callback_return ==
    /\ pc = "callback"
    /\ pc' = "loop"
    /\ UNCHANGED <<lists, enable, settime, interval, client, timer_lock,
                   timer_thread_run, time, handle, callback, owed, behind>>

Next ==
    \/ Tick
    \/ \E x \in Clients : \/ timer_new(x)
                          \/ timer_free(x)
                          \/ \E usec \in Intervals : client_set(x, usec)
    \/ timer_thread_found
    \/ timer_thread_call
    \/ \E usec \in Intervals : callback_set(usec)
    \/ callback_return

Spec == Init /\ [][Next]_vars
----------------------------------------------------------------------------
TypeOK ==
    /\ \A l \in {list1_timer_on, list1_timer_off, list1_timer_free} :
          l \in Seq(Timers)
    /\ enable \in [Timers -> BOOLEAN]
    /\ settime \in [Timers -> 0 .. MaxTime]
    /\ interval \in [Timers -> 0 .. MaxTime]
    /\ client \in [Timers -> Clients \cup {NULL}]
    /\ timer_lock \in {"free", "leaked"}
    /\ timer_thread_run \in BOOLEAN
    /\ time \in 0 .. MaxTime
    /\ handle \in [Clients -> Timers \cup {NULL}]
    /\ pc \in {"none", "loop", "unlocked", "callback"}
    /\ callback \in (Timers \cup {NULL}) \X (Clients \cup {NULL})
    /\ owed \in [Clients -> Int]
    /\ behind \in [Timers -> BOOLEAN]

(* Every timer is in exactly one of the three lists, in the one its enable *)
(* flag names (timer.c:133, "p->enable must be true"), and the timers that *)
(* are not free are the ones the clients hold, one each.                   *)
InOneList ==
    /\ IsList(list1_timer_on \o list1_timer_off \o list1_timer_free)
    /\ Elems(list1_timer_on \o list1_timer_off \o list1_timer_free) = Timers
    /\ \A p \in Timers : enable[p] <=> p \in Elems(list1_timer_on)
    /\ \A p \in Elems(list1_timer_on) \cup Elems(list1_timer_off) :
          handle[client[p]] = p
    /\ \A x \in Clients : handle[x] # NULL =>
          /\ client[handle[x]] = x
          /\ handle[x] \notin Elems(list1_timer_free)

(* timer_thread gives up when the head of the list has not expired         *)
(* (timer.c:135).  Whatever processor it runs on, the only timers that are *)
(* due by its clock and that it misses are ones that were set on a         *)
(* processor whose clock was behind: at a time before some timer of the    *)
(* list had been set, when the difference in timer.c:94 wraps and the      *)
(* place found is too far back.                                            *)
HeadDecides ==
    \A t \in get_time :
        list1_timer_on # <<>> /\ ~Expired(Head(list1_timer_on), t) =>
            \A p \in Elems(list1_timer_on) :
                settime[p] + interval[p] <= t => behind[p]

(* A client is called once for each time its timer was armed and not freed *)
(* before it expired, never for the timer of another client: the callback  *)
(* and data are copied under the lock (timer.c:145), whatever timer_free,  *)
(* timer_new and timer_set do to the entry before the call.                *)
CalledOncePerArming ==
    \A x \in Clients :
        LET armed == handle[x] # NULL /\ enable[handle[x]]
            pending == pc = "unlocked" /\ callback[2] = x
        IN  owed[x] = (IF armed THEN 1 ELSE 0) + (IF pending THEN 1 ELSE 0)
----------------------------------------------------------------------------
(* The timer thread is scheduled again and again, callbacks return, and    *)
(* the clocks run.                                                         *)
Fairness ==
    /\ WF_vars(Tick)
    /\ WF_vars(timer_thread_found)
    /\ WF_vars(timer_thread_call)
    /\ WF_vars(callback_return \/ \E usec \in Intervals : callback_set(usec))

FairSpec == Spec /\ Fairness

(* A timer that is set expires, unless it is set again or freed first.     *)
ArmedAt(p, t) == enable[p] /\ settime[p] = t

SetTimerExpires ==
    \A p \in Timers, t \in 0 .. MaxTime : ArmedAt(p, t) ~> ~ArmedAt(p, t)
=============================================================================

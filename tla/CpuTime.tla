------------------------------ MODULE CpuTime ------------------------------
(***************************************************************************)
(* The time of day of the processors (core/x86/time.c): every processor    *)
(* converts its own time stamp counter, and lastcputime keeps them         *)
(* together.  get_cpu_time reads lastcputime, reads the counter, and then  *)
(* either publishes its time by a compare and exchange or moves its own    *)
(* clock forward to lastcputime.  Other processors run in between.         *)
(*                                                                         *)
(* A clock is started by time_arch_init_pcpu: by all processors together   *)
(* with BIOS; with UEFI by the boot processor first and later by the       *)
(* others, while the boot processor is in time_init_dbsp holding initsync. *)
(* sync_all_processors (core/x86/ap.c) is one step of all.  Counters tick  *)
(* at the same rate: the measurement of hz is left out.                    *)
(***************************************************************************)
EXTENDS Integers, FiniteSetsExt

CONSTANTS CPUs, BSP, MAXTIME        \* MAXTIME bounds the time that passes
ASSUME CpuTimeAssumption == BSP \in CPUs /\ MAXTIME \in Nat

VARIABLES
    now,                \* real time
    reset,              \* real time when the counters were last reset
    uefi, slept,
    at,
    tsc, timediff,      \* of pcpu
    lastcputime,
    initsync,           \* the boot processor holds it exclusively
    lasttime, time,     \* local variables of get_cpu_time
    highest,            \* the highest time returned since the machine last woke up
    before,             \* its value when the call started
    atsync              \* the time of the boot processor at the last barrier

calls == <<lasttime, time, highest, before>>
timeVars == <<now, reset, uefi, slept, at, tsc, timediff, lastcputime, initsync, calls, atsync>>

Rdtsc == now - reset
Clock(c) == Rdtsc - tsc[c] + timediff[c]

All(v) == [c \in CPUs |-> v]
TimeInit ==
    /\ now = 0 /\ reset = 0 /\ uefi \in BOOLEAN /\ slept = FALSE
    /\ at = [c \in CPUs |-> IF uefi /\ c # BSP THEN "off" ELSE "sync1"]
    /\ tsc = All(0) /\ timediff = All(0) /\ lastcputime = 0 /\ initsync = FALSE
    /\ lasttime = All(0) /\ time = All(0) /\ highest = 0 /\ before = All(0)
    /\ atsync = 0

tick ==
    /\ now < MAXTIME /\ now' = now + 1
    /\ UNCHANGED <<reset, uefi, slept, at, tsc, timediff, lastcputime, initsync, calls, atsync>>

Go(c, from, to) == at[c] = from /\ at' = [at EXCEPT ![c] = to]
----------------------------------------------------------------------------
\* sync_all_processors: everyone who has been started is at the same one.
Sync(n, to) ==
    LET on == {c \in CPUs : at[c] # "off"} IN
    /\ \A c \in on : at[c] = n
    /\ at' = [c \in CPUs |-> IF c \in on THEN to[c] ELSE at[c]]
    /\ atsync' = Clock(BSP)
    /\ UNCHANGED <<now, reset, uefi, slept, tsc, timediff, lastcputime, initsync, calls>>

sync1 == Sync("sync1", All("sync2"))
sync2 == Sync("sync2", [c \in CPUs |-> IF c = BSP /\ initsync THEN "idle" ELSE "tsc2"])

\* time_arch_init_pcpu after the second barrier.
rdtsc2(c) ==
    /\ Go(c, "tsc2", "timediff")
    /\ tsc' = [tsc EXCEPT ![c] = Rdtsc]
    /\ UNCHANGED <<now, reset, uefi, slept, timediff, lastcputime, initsync, calls, atsync>>

\* Mutant: initsync is not taken.
sh_Free == TRUE
sh == ~initsync

init_timediff(c) ==
    /\ Go(c, "timediff", "idle") /\ sh
    /\ timediff' = [timediff EXCEPT ![c] = lastcputime]
    /\ UNCHANGED <<now, reset, uefi, slept, tsc, lastcputime, initsync, calls, atsync>>

\* With UEFI: the other processors start, and time_init_dbsp runs.
time_init_dbsp ==
    /\ uefi /\ at[BSP] = "idle" /\ \A c \in CPUs \ {BSP} : at[c] = "off"
    /\ initsync' = TRUE
    /\ at' = All("sync1")
    /\ UNCHANGED <<now, reset, uefi, slept, tsc, timediff, lastcputime, calls, atsync>>

\* The machine sleeps: the counters start from zero.
\* Mutant: the counter is not read again.
wake_tsc_Old(c) == tsc[c]
wake_tsc(c) == Rdtsc

sleep ==
    /\ ~slept /\ slept' = TRUE
    /\ ~initsync /\ \A c \in CPUs : at[c] = "idle"
    /\ reset' = now /\ at' = All("wakeup") /\ highest' = 0
    /\ UNCHANGED <<now, uefi, tsc, timediff, lastcputime, initsync, lasttime, time, before, atsync>>

time_wakeup(c) ==
    /\ Go(c, "wakeup", "idle")
    /\ tsc' = [tsc EXCEPT ![c] = wake_tsc(c)]
    /\ timediff' = [timediff EXCEPT ![c] = lastcputime]
    /\ UNCHANGED <<now, reset, uefi, slept, lastcputime, initsync, lasttime, time, highest, before, atsync>>
----------------------------------------------------------------------------
\* time_arch_get_cpu_time.
read_last(c) ==
    /\ Go(c, "idle", "rdtsc")
    /\ lasttime' = [lasttime EXCEPT ![c] = lastcputime]
    /\ before' = [before EXCEPT ![c] = highest]
    /\ UNCHANGED <<now, reset, uefi, slept, tsc, timediff, lastcputime, initsync, time, highest, atsync>>

\* Mutant: timediff is not added.
converted_NoDiff(c) == Rdtsc - tsc[c]
converted(c) == Rdtsc - tsc[c] + timediff[c]

read_tsc(c) ==
    /\ Go(c, "rdtsc", "publish")
    /\ time' = [time EXCEPT ![c] = converted(c)]
    /\ UNCHANGED <<now, reset, uefi, slept, tsc, timediff, lastcputime, initsync, lasttime, highest,
                   before, atsync>>

\* atomic_cmpxchg64 (&lastcputime, &lasttime, time)
cmpxchg(old, new) == IF lastcputime = old THEN new ELSE lastcputime

advance(c) == timediff[c] + (lasttime[c] - time[c])

\* The call returns; the one in time_init_dbsp then releases initsync.
publish(c) ==
    /\ Go(c, "publish", "idle")
    /\ IF lasttime[c] <= time[c]
       THEN /\ lastcputime' = cmpxchg(lasttime[c], time[c])
            /\ UNCHANGED <<timediff, time>>
       ELSE /\ timediff' = [timediff EXCEPT ![c] = advance(c)]
            /\ time' = [time EXCEPT ![c] = lasttime[c]]
            /\ UNCHANGED lastcputime
    /\ highest' = Max({highest, time'[c]})
    /\ initsync' = (initsync /\ c # BSP)
    /\ UNCHANGED <<now, reset, uefi, slept, tsc, lasttime, before, atsync>>

TimeNext ==
    \/ tick \/ sync1 \/ sync2 \/ time_init_dbsp \/ sleep
    \/ \E c \in CPUs : \/ rdtsc2(c) \/ init_timediff(c) \/ time_wakeup(c)
                       \/ read_last(c) \/ read_tsc(c) \/ publish(c)

TimeSpec == TimeInit /\ [][TimeNext]_timeVars
----------------------------------------------------------------------------
Times == 0..2 * MAXTIME
TimeTypeOK ==
    /\ now \in 0..MAXTIME /\ reset \in 0..now
    /\ at \in [CPUs -> {"off", "sync1", "sync2", "tsc2", "timediff", "wakeup", "idle", "rdtsc", "publish"}]
    /\ tsc \in [CPUs -> 0..MAXTIME] /\ timediff \in [CPUs -> Times] /\ lastcputime \in Times
    /\ lasttime \in [CPUs -> Times] /\ time \in [CPUs -> Times] /\ highest \in Times
    /\ initsync \in BOOLEAN /\ slept \in BOOLEAN

Running(c) == at[c] \in {"idle", "rdtsc", "publish"}

(* "keep TSC >= currentcpu->tsc": the difference of the unsigned counters  *)
(* that get_cpu_time converts is never negative, also after a sleep.       *)
TscNotBehind == \A c \in CPUs : Running(c) => tsc[c] <= Rdtsc

(* Of the times returned since the machine started or last woke up: one    *)
(* may be older than one that another processor returned before the call,  *)
(* because a compare and exchange that fails loses its time; but never by  *)
(* more than the clock that returns it is behind that of some running      *)
(* processor, the fastest one at most.  Over a sleep nothing of the kind   *)
(* holds: time_wakeup restarts every clock from lastcputime, and a time    *)
(* returned before the sleep that was lost there is later than that.       *)
BehindOnlyBySkew ==
    [][\A c \in CPUs : at[c] = "publish" /\ at'[c] = "idle" =>
         \E d \in CPUs : Running(d) /\ before[c] - time'[c] <= Clock(d)' - Clock(c)']_timeVars

(* "Current time of BSP for APs on UEFI environment": a processor started  *)
(* later starts from a time the boot processor took after the barrier both *)
(* left together, not from an older one.                                   *)
StartsAtTimeOfBsp ==
    [][\A c \in CPUs : at[c] = "timediff" /\ at'[c] = "idle" /\ uefi /\ c # BSP =>
         timediff'[c] >= atsync]_timeVars
=============================================================================

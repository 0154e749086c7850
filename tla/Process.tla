------------------------------ MODULE Process ------------------------------
(***************************************************************************)
(* The protection domain processes of the VMM (core/process.c) and the     *)
(* registry of message names (core/msg.c).                                 *)
(*                                                                         *)
(* A thread of the VMM sends a message by calling a function of another    *)
(* process with its own stack of calls: the thread enters the address      *)
(* space of the callee, runs there, makes system calls, and returns.  A    *)
(* process is freed by the last thread that leaves it after it exited, and *)
(* its pid is used again; the generation number gen tells the processes    *)
(* that had one pid apart.                                                 *)
(*                                                                         *)
(* A critical section of process_lock is one step.  What the code does     *)
(* between two of them is split: looking a name up and opening it, reading *)
(* a descriptor and calling it, testing setlimit and acting on it, setting *)
(* exitflag and returning, and clearing a function and its name.           *)
(***************************************************************************)
EXTENDS Integers, FiniteSets, Sequences, SequencesExt

CONSTANTS
    NUM_OF_PID,         \* the size of process[]; 0 is the VMM
    NUM_OF_MSGDSC,      \* descriptors and functions of a process
    NUM_OF_MSGDSCRECV,  \* the descriptors msgsenddesc may fill in
    Threads,            \* the threads of the VMM
    Names,              \* message names
    NULL,
    MaxDepth,           \* calls that fit on the stack of a VMM thread
    MaxGen              \* bound: generations of a pid

Pids == 0 .. NUM_OF_PID - 1
Descs == 0 .. NUM_OF_MSGDSC - 1

ASSUME ProcessAssumption ==
    /\ NUM_OF_PID \in Nat \ {0} /\ NUM_OF_MSGDSC \in Nat \ {0}
    /\ NUM_OF_MSGDSCRECV \in 1 .. NUM_OF_MSGDSC
    /\ IsFiniteSet(Threads)
    /\ NULL \notin Names
    /\ MaxDepth \in Nat /\ MaxGen \in Nat \ {0}

VARIABLES
    \* struct process_data process[]
    valid, gen, running, exitflag, setlimit,
    msgdsc,         \* pid, gen and dsc of a descriptor
    func,           \* is the func pointer of a descriptor set?
    msg_data_used,  \* the registered names
    stack,          \* the calls each thread is in, the innermost last
    pc,             \* where in process.c a thread is
    m,              \* locals mpid, mgen, mdesc of a thread
    panicked,
    inst            \* history: how many processes had the pid; the inst field
                    \* of a descriptor says which of them it was opened for

tables == <<valid, gen, running, exitflag, setlimit, msgdsc, func, inst>>
vars == <<tables, msg_data_used, stack, pc, m, panicked>>

NoDesc == [pid |-> 0, gen |-> 0, dsc |-> 0, inst |-> 0]

\* The process whose code, or system call, a thread executes.
Pid(th) == IF stack[th] = <<>> THEN 0 ELSE Last(stack[th]).pid
Least(S) == CHOOSE i \in S : \A j \in S : i <= j

(* process_init_global                                                     *)
Init ==
    /\ valid = [p \in Pids |-> p = 0]
    /\ gen = [p \in Pids |-> 1]
    /\ running = [p \in Pids |-> 0]
    /\ exitflag = [p \in Pids |-> FALSE]
    /\ setlimit = [p \in Pids |-> FALSE]
    /\ msgdsc = [p \in Pids |-> [i \in Descs |-> NoDesc]]
    /\ func = [p \in Pids |-> [i \in Descs |-> FALSE]]
    /\ msg_data_used = {}
    /\ stack = [th \in Threads |-> <<>>]
    /\ pc = [th \in Threads |-> "run"]
    /\ m = [th \in Threads |-> NoDesc]
    /\ panicked = "no"
    /\ inst = [p \in Pids |-> 0]

Goto(th, l) == pc' = [pc EXCEPT ![th] = l]
----------------------------------------------------------------------------
(* The test of setlimit that system calls make, before they lock; the VMM  *)
(* itself makes no such test.                                              *)
check_setlimit(th) ==
    /\ pc[th] = "run" /\ Pid(th) # 0
    /\ ~setlimit[Pid(th)]
    /\ Goto(th, "checked")
    /\ UNCHANGED <<tables, msg_data_used, stack, m, panicked>>

Allowed(th) == pc[th] = "checked" \/ (pc[th] = "run" /\ Pid(th) = 0)

_msgsetfunc(th, i, f) ==
    /\ Allowed(th)
    /\ func' = [func EXCEPT ![Pid(th)][i] = f]
    /\ Goto(th, "run")
    /\ UNCHANGED <<valid, gen, running, exitflag, setlimit, msgdsc, inst,
                   msg_data_used, stack, m, panicked>>

_findname(name) == {d \in msg_data_used : d.name = name}

msg_register(name, p, i) ==
    msg_data_used' = msg_data_used \cup
        {[name |-> name, pid |-> p, gen |-> gen[p], dsc |-> i, inst |-> inst[p]]}

(* A function gets the first free place; it stays there only if its name   *)
(* is new.  A function without a name needs no entry.                      *)
_msgregister(th, name) ==
    LET p == Pid(th)
        free == {i \in Descs : ~func[p][i]}
    IN  /\ Allowed(th)
        /\ \/ /\ free = {} \/ (name # NULL /\ _findname(name) # {})
              /\ UNCHANGED <<func, msg_data_used>>
           \/ /\ free # {}
              /\ name # NULL => _findname(name) = {}
              /\ func' = [func EXCEPT ![p][Least(free)] = TRUE]
              /\ IF name = NULL THEN UNCHANGED msg_data_used
                 ELSE msg_register(name, p, Least(free))
        /\ Goto(th, "run")
        /\ UNCHANGED <<valid, gen, running, exitflag, setlimit, msgdsc, inst,
                       stack, m, panicked>>

(* The function is cleared without process_lock, its names afterwards      *)
(* with msg_lock.                                                          *)
_msgunregister(th, i) ==
    /\ pc[th] = "run"
    /\ func' = [func EXCEPT ![Pid(th)][i] = FALSE]
    /\ m' = [m EXCEPT ![th].dsc = i]
    /\ Goto(th, "unregister2")
    /\ UNCHANGED <<valid, gen, running, exitflag, setlimit, msgdsc, inst,
                   msg_data_used, stack, panicked>>

msg_unregister2(th) ==
    /\ pc[th] = "unregister2"
    /\ msg_data_used' = {d \in msg_data_used : d.pid # Pid(th) \/ d.dsc # m[th].dsc}
    /\ m' = [m EXCEPT ![th] = NoDesc]
    /\ Goto(th, "run")
    /\ UNCHANGED <<tables, stack, panicked>>
----------------------------------------------------------------------------
Unused(p, i) == msgdsc[p][i].pid = 0 /\ msgdsc[p][i].gen = 0

_msgopen(th, name) ==
    /\ Allowed(th)
    /\ \/ \E d \in _findname(name) :
            /\ m' = [m EXCEPT ![th] = [pid |-> d.pid, gen |-> d.gen,
                                       dsc |-> d.dsc, inst |-> d.inst]]
            /\ Goto(th, "open")
       \/ /\ _findname(name) = {}
          /\ Goto(th, "run")
          /\ UNCHANGED m
    /\ UNCHANGED <<tables, msg_data_used, stack, panicked>>

_msgopen_2(th) ==
    LET p == Pid(th)
        free == {i \in Descs : Unused(p, i)}
    IN  /\ pc[th] = "open"
        /\ msgdsc' = IF free = {} THEN msgdsc
                     ELSE [msgdsc EXCEPT ![p][Least(free)] = m[th]]
        /\ m' = [m EXCEPT ![th] = NoDesc]
        /\ Goto(th, "run")
        /\ UNCHANGED <<valid, gen, running, exitflag, setlimit, func, inst,
                       msg_data_used, stack, panicked>>

_msgclose(th, i) ==
    /\ pc[th] = "run"
    /\ msgdsc' = [msgdsc EXCEPT ![Pid(th)][i] =
                     [pid |-> 0, gen |-> 0, dsc |-> @.dsc, inst |-> 0]]
    /\ UNCHANGED <<valid, gen, running, exitflag, setlimit, func, inst,
                   msg_data_used, stack, pc, m, panicked>>

(* A descriptor, or with myfunc a function of its own, is given to a       *)
(* process that is open at its entry function (0).                         *)
_msgsenddesc(th, todesc, senddesc, myfunc) ==
    LET p == Pid(th)
        to == msgdsc[p][todesc]
        free == {i \in 0 .. NUM_OF_MSGDSCRECV - 1 : Unused(to.pid, i)}
        sent == IF myfunc THEN [pid |-> p, gen |-> gen[p], dsc |-> senddesc, inst |-> inst[p]]
                ELSE msgdsc[p][senddesc]
    IN  /\ Allowed(th)
        /\ \/ /\ valid[to.pid] /\ gen[to.pid] = to.gen
              /\ to.pid # 0 /\ to.dsc = 0
              /\ free # {}
              /\ msgdsc' = [msgdsc EXCEPT ![to.pid][Least(free)] = sent]
           \/ /\ \/ ~valid[to.pid] \/ gen[to.pid] # to.gen
                 \/ to.pid = 0 \/ to.dsc # 0
                 \/ free = {}
              /\ UNCHANGED msgdsc
        /\ Goto(th, "run")
        /\ UNCHANGED <<valid, gen, running, exitflag, setlimit, func, inst,
                       msg_data_used, stack, m, panicked>>

\* Mutant: exitflag is left as the process that had the pid before left it.
reset_flags_NotExit(p) ==
    /\ running' = [running EXCEPT ![p] = 0]
    /\ setlimit' = [setlimit EXCEPT ![p] = FALSE]
    /\ UNCHANGED exitflag
reset_flags(p) ==
    /\ running' = [running EXCEPT ![p] = 0]
    /\ setlimit' = [setlimit EXCEPT ![p] = FALSE]
    /\ exitflag' = [exitflag EXCEPT ![p] = FALSE]

(* process_new takes the first free pid and opens the new process for the  *)
(* caller; there may be no pid or no memory.  processbin_load returns the  *)
(* entry point of one of the VMM's own programs, which is never 0, so its  *)
(* failure is no case.                                                     *)
process_new(th) ==
    LET free == {p \in Pids : p > 0 /\ ~valid[p]}
        p == Least(free)
    IN  /\ Allowed(th)
        /\ \/ /\ free # {} /\ gen[p] < MaxGen
              /\ reset_flags(p)
              /\ gen' = [gen EXCEPT ![p] = @ + 1]
              /\ valid' = [valid EXCEPT ![p] = TRUE]
              /\ msgdsc' = [msgdsc EXCEPT ![p] = [i \in Descs |-> NoDesc]]
              /\ func' = [func EXCEPT ![p] = [i \in Descs |-> i = 0]]
              /\ inst' = [inst EXCEPT ![p] = @ + 1]
              /\ m' = [m EXCEPT ![th] = [pid |-> p, gen |-> gen[p] + 1,
                                         dsc |-> 0, inst |-> inst[p] + 1]]
              /\ Goto(th, "open")
           \/ /\ Goto(th, "run")
              /\ UNCHANGED <<tables, m>>
        /\ UNCHANGED <<msg_data_used, stack, panicked>>
----------------------------------------------------------------------------
(* _msgsendint and _msgsendbuf read the descriptor, then call it.          *)
_msgsend(th, i) ==
    /\ pc[th] = "run"
    /\ m' = [m EXCEPT ![th] = msgdsc[Pid(th)][i]]
    /\ Goto(th, "call")
    /\ UNCHANGED <<tables, msg_data_used, stack, panicked>>

\* Mutant: the generation is not compared.
Callable_AnyGen(d) == valid[d.pid] /\ func[d.pid][d.dsc]
Callable(d) ==
    /\ valid[d.pid]
    /\ gen[d.pid] = d.gen
    /\ func[d.pid][d.dsc]

\* Mutant: the names of the process stay registered.
msg_unregisterall_Not(p) == UNCHANGED msg_data_used
msg_unregisterall(p) == msg_data_used' = {d \in msg_data_used : d.pid # p}

(* cleanup, when the last thread leaves a process that exited; n is how    *)
(* many threads stay in it.                                                *)
Leave(p, n) ==
    IF n = 0 /\ exitflag[p]
    THEN /\ gen' = [gen EXCEPT ![p] = @ + 1]
         /\ msg_unregisterall(p)
         /\ valid' = [valid EXCEPT ![p] = FALSE]
         /\ panicked' = IF valid[p] THEN panicked ELSE "assert"
    ELSE UNCHANGED <<gen, msg_data_used, valid, panicked>>

\* The early returns of call_msgfunc1.
call_refused(th) ==
    /\ pc[th] = "call"
    /\ Len(stack[th]) = MaxDepth \/ ~Callable(m[th])
    /\ m' = [m EXCEPT ![th] = NoDesc]
    /\ Goto(th, "run")
    /\ UNCHANGED <<tables, msg_data_used, stack, panicked>>

\* The buffers or the stack cannot be mapped.
call_mapfail(th) ==
    LET p == m[th].pid
    IN  /\ pc[th] = "call"
        /\ Len(stack[th]) < MaxDepth /\ Callable(m[th]) /\ p # 0
        /\ Leave(p, running[p])
        /\ m' = [m EXCEPT ![th] = NoDesc]
        /\ Goto(th, "run")
        /\ UNCHANGED <<running, exitflag, setlimit, msgdsc, func, inst, stack>>

count(p) == running' = [running EXCEPT ![p] = @ + 1]

(* call_msgfunc0 enters the process; a function of the VMM is called       *)
(* without counting it.  The function is tested and read in one step.  A   *)
(* _msgunregister, which does not take process_lock, may come between the  *)
(* two, and address 0 is entered: a process is killed by that, which is    *)
(* the same as its exit here; a fault in the VMM's function is left out.   *)
call_enter(th) ==
    LET p == m[th].pid
    IN  /\ pc[th] = "call"
        /\ Len(stack[th]) < MaxDepth /\ Callable(m[th])
        /\ IF p = 0 THEN UNCHANGED running ELSE count(p)
        /\ stack' = [stack EXCEPT ![th] = Append(@, [pid |-> p, inst |-> m[th].inst])]
        /\ m' = [m EXCEPT ![th] = NoDesc]
        /\ Goto(th, "run")
        /\ UNCHANGED <<valid, gen, exitflag, setlimit, msgdsc, func, inst,
                       msg_data_used, panicked>>

(* A function of the VMM returns.                                          *)
call_return_vmm(th) ==
    /\ pc[th] = "run" /\ stack[th] # <<>> /\ Pid(th) = 0
    /\ stack' = [stack EXCEPT ![th] = Front(@)]
    /\ UNCHANGED <<tables, msg_data_used, pc, m, panicked>>

\* Mutant: the thread is not taken off the count of threads in the process.
uncount_Not(p) == UNCHANGED running
uncount(p) == running' = [running EXCEPT ![p] = @ - 1]

(* A function of a process returns (sys_msgret): the rest of call_msgfunc0 *)
(* and call_msgfunc1 under process_lock.                                   *)
call_return(th) ==
    LET p == Pid(th)
    IN  /\ pc[th] \in {"run", "return"} /\ p # 0
        /\ uncount(p)
        /\ stack' = [stack EXCEPT ![th] = Front(@)]
        /\ Leave(p, running[p] - 1)
        /\ Goto(th, "run")
        /\ UNCHANGED <<exitflag, setlimit, msgdsc, func, inst, m>>

(* sys_exitprocess and process_kill set exitflag without a lock and return.*)
sys_exitprocess(th) ==
    /\ pc[th] = "run" /\ Pid(th) # 0
    /\ exitflag' = [exitflag EXCEPT ![Pid(th)] = TRUE]
    /\ Goto(th, "return")
    /\ UNCHANGED <<valid, gen, running, setlimit, msgdsc, func, inst,
                   msg_data_used, stack, m, panicked>>

sys_setlimit(th) ==
    /\ pc[th] = "run" /\ Pid(th) # 0
    /\ setlimit' = [setlimit EXCEPT ![Pid(th)] = TRUE]
    /\ UNCHANGED <<valid, gen, running, exitflag, msgdsc, func, inst,
                   msg_data_used, stack, pc, m, panicked>>

Step(th) ==
    \/ check_setlimit(th)
    \/ \E i \in Descs, f \in BOOLEAN : _msgsetfunc(th, i, f)
    \/ \E name \in Names \cup {NULL} : _msgregister(th, name)
    \/ \E i \in Descs : _msgunregister(th, i) \/ _msgclose(th, i) \/ _msgsend(th, i)
    \/ msg_unregister2(th)
    \/ \E name \in Names : _msgopen(th, name)
    \/ _msgopen_2(th)
    \/ \E i, j \in Descs, myfunc \in BOOLEAN : _msgsenddesc(th, i, j, myfunc)
    \/ process_new(th)
    \/ call_refused(th) \/ call_mapfail(th) \/ call_enter(th)
    \/ call_return_vmm(th) \/ call_return(th)
    \/ sys_exitprocess(th)
    \/ sys_setlimit(th)

Next == panicked = "no" /\ \E th \in Threads : Step(th)

Spec == Init /\ [][Next]_vars
----------------------------------------------------------------------------
Insts == 0 .. MaxGen
Desc == [pid : Pids, gen : 0 .. MaxGen + 1, dsc : Descs, inst : Insts]
Entry == [name : Names, pid : Pids, gen : 1 .. MaxGen + 1, dsc : Descs, inst : Insts]

TypeOK ==
    /\ valid \in [Pids -> BOOLEAN]
    /\ gen \in [Pids -> 1 .. MaxGen + 1]
    /\ running \in [Pids -> Nat]
    /\ exitflag \in [Pids -> BOOLEAN]
    /\ setlimit \in [Pids -> BOOLEAN]
    /\ msgdsc \in [Pids -> [Descs -> Desc]]
    /\ func \in [Pids -> [Descs -> BOOLEAN]]
    /\ msg_data_used \subseteq Entry
    /\ stack \in [Threads -> Seq([pid : Pids, inst : Insts])]
    /\ pc \in [Threads -> {"run", "checked", "unregister2", "open", "call", "return"}]
    /\ m \in [Threads -> Desc]
    /\ panicked \in {"no", "assert"}
    /\ inst \in [Pids -> Insts]

(* A name is registered once, and leads to the process that registered it, *)
(* which is alive: freeing a process takes its names with it               *)
(* (process.c:487), and nothing registers a name for a dead process.       *)
RegistryLive ==
    /\ \A d1, d2 \in msg_data_used : d1.name = d2.name => d1 = d2
    /\ \A d \in msg_data_used :
          valid[d.pid] /\ gen[d.pid] = d.gen /\ inst[d.pid] = d.inst

(* A thread is only ever in the process its descriptor was opened for, and *)
(* that process is not freed under it, however often the pid was reused    *)
(* between opening, reading and calling the descriptor (process.c:546); so *)
(* cleanup never finds the process gone (process.c:484).                   *)
CallsWhatWasOpened ==
    /\ panicked = "no"
    /\ \A th \in Threads : \A k \in DOMAIN stack[th] :
          LET f == stack[th][k] IN valid[f.pid] /\ inst[f.pid] = f.inst

\* The calls that threads have into a process.
Calls(p) ==
    Cardinality({c \in Threads \X (1 .. MaxDepth) :
                    c[2] \in DOMAIN stack[c[1]] /\ stack[c[1]][c[2]].pid = p})

(* running counts the calls threads have into a process.                   *)
RunningCounts == \A p \in Pids : p # 0 /\ valid[p] => running[p] = Calls(p)

(* A process that exited is freed by the last thread that leaves it: no    *)
(* such process stays valid with no thread in it (process.c:602).          *)
ExitedIsFreed == \A p \in Pids : valid[p] /\ exitflag[p] => running[p] > 0
=============================================================================

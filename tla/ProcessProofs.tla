--------------------------- MODULE ProcessProofs ---------------------------
(***************************************************************************)
(* Proofs about the processes and messages of Process, for every number of *)
(* pids, descriptors, threads and names, every depth of calls and every    *)
(* bound on the generations.                                               *)
(***************************************************************************)
EXTENDS Process, CoreTheorems

(* The generation of a pid is even as long as it is in use and tells its   *)
(* processes apart; pid 0 is the VMM for ever.                             *)
GenInv ==
    /\ valid[0] /\ gen[0] = 1 /\ inst[0] = 0
    /\ \A p \in Pids : p # 0 =>
          /\ gen[p] = 2 * inst[p] + IF valid[p] THEN 0 ELSE 1
          /\ valid[p] => gen[p] <= MaxGen

(* A descriptor that was ever filled in names the generation of the        *)
(* process it was opened for.                                              *)
Genuine(d) == d.gen # 0 => IF d.pid = 0 THEN d.inst = 0 ELSE d.gen = 2 * d.inst

DescInv ==
    /\ \A p \in Pids, i \in Descs : Genuine(msgdsc[p][i])
    /\ \A th \in Threads : Genuine(m[th])

(* The calls of a thread fit on its stack.                                 *)
DepthInv == \A th \in Threads : Len(stack[th]) <= MaxDepth

ProcessInv ==
    /\ TypeOK /\ GenInv /\ DescInv /\ DepthInv
    /\ RegistryLive /\ CallsWhatWasOpened /\ RunningCounts /\ ExitedIsFreed
----------------------------------------------------------------------------
\* Pid 0 is there, and numbers are numbers.
LEMMA Sizes ==
    /\ 0 \in Pids /\ 0 \in Descs
    /\ Pids \subseteq Nat /\ Descs \subseteq Nat
    /\ NUM_OF_MSGDSCRECV \in Nat /\ 0 .. NUM_OF_MSGDSCRECV - 1 \subseteq Descs
    /\ MaxGen \in Nat /\ MaxGen >= 1 /\ MaxDepth \in Nat
    /\ IsFiniteSet(Threads)
    /\ NoDesc \in Desc /\ Genuine(NoDesc)
<1>1. /\ 0 \in Pids /\ 0 \in Descs
      /\ Pids \subseteq Nat /\ Descs \subseteq Nat
      /\ NUM_OF_MSGDSCRECV \in Nat /\ 0 .. NUM_OF_MSGDSCRECV - 1 \subseteq Descs
      /\ MaxGen \in Nat /\ MaxGen >= 1 /\ MaxDepth \in Nat
  BY ProcessAssumption DEF Pids, Descs
<1>2. NoDesc \in Desc /\ Genuine(NoDesc)
  BY <1>1 DEF NoDesc, Desc, Genuine, Insts
<1> QED
  BY <1>1, <1>2, ProcessAssumption

LEMMA LeastFacts == ASSUME NEW T, T \subseteq Nat, T # {} PROVE Least(T) \in T
<1>1. \E x \in T : \A y \in T : x <= y
  BY LeastExists
<1> QED
  BY <1>1 DEF Least

\* The process whose code a thread executes is alive: it is the VMM, or the
\* thread has a call into it.
LEMMA PidFacts ==
    ASSUME ProcessInv, NEW th \in Threads
    PROVE  /\ Pid(th) \in Pids /\ valid[Pid(th)]
           /\ Pid(th) = 0 => inst[Pid(th)] = 0
           /\ Pid(th) # 0 => /\ gen[Pid(th)] = 2 * inst[Pid(th)]
                             /\ Len(stack[th]) \in 1 .. MaxDepth
                             /\ Len(stack[th]) \in DOMAIN stack[th]
                             /\ stack[th][Len(stack[th])].pid = Pid(th)
<1>1. TypeOK /\ GenInv /\ DepthInv /\ CallsWhatWasOpened
  BY DEF ProcessInv
<1>2. stack[th] \in Seq([pid : Pids, inst : Insts])
  BY <1>1 DEF TypeOK
<1>3. CASE stack[th] = <<>>
  BY <1>1, <1>3, Sizes DEF Pid, GenInv
<1>4. CASE stack[th] # <<>>
  <2> DEFINE s == stack[th]
             f == s[Len(s)]
  <2>1. Len(s) \in Nat /\ Len(s) # 0 /\ DOMAIN s = 1 .. Len(s)
    BY <1>2, <1>4, LenProperties, EmptySeq
  <2>2. Len(s) \in 1 .. MaxDepth /\ Len(s) \in DOMAIN s
    BY <1>1, <2>1, Sizes DEF DepthInv
  <2>3. f.pid \in Pids /\ valid[f.pid]
    <3>1. f \in [pid : Pids, inst : Insts]
      BY <1>2, <2>1, <2>2, ElementOfSeq
    <3>2. valid[f.pid]
      BY <1>1, <2>2 DEF CallsWhatWasOpened
    <3> QED
      BY <3>1, <3>2
  <2>4. Pid(th) = f.pid
    BY <1>4 DEF Pid, Last
  <2> HIDE DEF f
  <2>5. /\ f.pid = 0 => inst[f.pid] = 0
        /\ f.pid # 0 => gen[f.pid] = 2 * inst[f.pid] + 0
    BY <1>1, <2>3 DEF GenInv
  <2>6. inst[f.pid] \in Nat
    <3>1. inst[f.pid] \in Insts
      BY <1>1, <2>3 DEF TypeOK
    <3> QED
      BY <3>1, Sizes DEF Insts
  <2> QED
    BY <2>2, <2>3, <2>4, <2>5, <2>6 DEF f
<1> QED
  BY <1>3, <1>4

\* process_init_global
LEMMA ProcessInitInv == Init => ProcessInv
<1> SUFFICES ASSUME Init PROVE ProcessInv
  OBVIOUS
<1>1. TypeOK
  <2>1. /\ 0 \in Insts /\ 1 \in 1 .. MaxGen + 1
        /\ <<>> \in Seq([pid : Pids, inst : Insts])
    BY Sizes, EmptySeq DEF Insts
  <2>2. /\ valid \in [Pids -> BOOLEAN] /\ gen \in [Pids -> 1 .. MaxGen + 1]
        /\ running \in [Pids -> Nat] /\ exitflag \in [Pids -> BOOLEAN]
        /\ setlimit \in [Pids -> BOOLEAN] /\ inst \in [Pids -> Insts]
    BY <2>1 DEF Init
  <2>3. /\ msgdsc \in [Pids -> [Descs -> Desc]] /\ func \in [Pids -> [Descs -> BOOLEAN]]
        /\ m \in [Threads -> Desc]
    BY Sizes DEF Init
  <2>4. /\ stack \in [Threads -> Seq([pid : Pids, inst : Insts])]
        /\ pc \in [Threads -> {"run", "checked", "unregister2", "open", "call", "return"}]
        /\ panicked \in {"no", "assert"} /\ msg_data_used \subseteq Entry
    BY <2>1 DEF Init
  <2> QED
    BY <2>2, <2>3, <2>4 DEF TypeOK
<1>2. GenInv /\ ExitedIsFreed
  <2>1. \A p \in Pids : gen[p] = 1 /\ inst[p] = 0 /\ (valid[p] <=> p = 0) /\ ~exitflag[p]
    BY DEF Init
  <2>2. \A p \in Pids : p # 0 => gen[p] = 2 * inst[p] + IF valid[p] THEN 0 ELSE 1
    BY <2>1
  <2> QED
    BY <2>1, <2>2, Sizes DEF GenInv, ExitedIsFreed
<1>3. DescInv
  BY Sizes DEF Init, DescInv
<1>4. \A th \in Threads : stack[th] = <<>> /\ Len(stack[th]) = 0 /\ DOMAIN stack[th] = {}
  BY EmptySeq DEF Init
<1>5. DepthInv /\ RegistryLive /\ CallsWhatWasOpened
  BY <1>4, Sizes DEF Init, DepthInv, RegistryLive, CallsWhatWasOpened
<1>6. RunningCounts
  BY DEF Init, RunningCounts
<1> QED
  BY <1>1, <1>2, <1>3, <1>5, <1>6 DEF ProcessInv

\* Steps that leave the calls and the life of the processes alone.
LEMMA QuietInv ==
    ASSUME ProcessInv, TypeOK', DescInv', RegistryLive',
           UNCHANGED <<valid, gen, running, exitflag, inst, stack, panicked>>
    PROVE  ProcessInv'
  BY DEF ProcessInv, GenInv, DepthInv, CallsWhatWasOpened, RunningCounts, Calls, ExitedIsFreed

\* Steps that besides change neither the descriptors nor the registry, but may
\* change what a thread is about to do.
LEMMA LocalInv ==
    ASSUME ProcessInv, NEW th \in Threads, NEW d \in Desc, Genuine(d),
           NEW l \in {"run", "checked", "unregister2", "open", "call", "return"},
           m' = [m EXCEPT ![th] = d], Goto(th, l),
           func' \in [Pids -> [Descs -> BOOLEAN]], setlimit' \in [Pids -> BOOLEAN],
           UNCHANGED <<valid, gen, running, exitflag, inst, stack, panicked,
                       msgdsc, msg_data_used>>
    PROVE  ProcessInv'
<1>1. TypeOK /\ DescInv /\ RegistryLive
  BY DEF ProcessInv
<1>2. m' \in [Threads -> Desc] /\ pc' \in [Threads -> {"run", "checked", "unregister2", "open", "call", "return"}]
  BY <1>1 DEF TypeOK, Goto
<1>3. TypeOK'
  BY <1>1, <1>2 DEF TypeOK
<1>4. DescInv'
  BY <1>1 DEF DescInv, TypeOK
<1>5. RegistryLive'
  BY <1>1 DEF RegistryLive
<1> QED
  BY <1>3, <1>4, <1>5, QuietInv
----------------------------------------------------------------------------
\* Steps that change what a thread is about to do, and functions and limits.
LEMMA CheckInv == ASSUME ProcessInv, NEW th \in Threads, check_setlimit(th) PROVE ProcessInv'
<1>1. m \in [Threads -> Desc] /\ Genuine(m[th]) /\ TypeOK
  BY DEF ProcessInv, TypeOK, DescInv
<1>2. m' = [m EXCEPT ![th] = m[th]] /\ m[th] \in Desc
  BY <1>1 DEF check_setlimit
<1> QED
  BY <1>1, <1>2, LocalInv DEF check_setlimit, tables, TypeOK

LEMMA SetfuncInv ==
    ASSUME ProcessInv, NEW th \in Threads, NEW i \in Descs, NEW f \in BOOLEAN,
           _msgsetfunc(th, i, f)
    PROVE  ProcessInv'
<1>1. m \in [Threads -> Desc] /\ Genuine(m[th]) /\ TypeOK
  BY DEF ProcessInv, TypeOK, DescInv
<1>2. m' = [m EXCEPT ![th] = m[th]] /\ m[th] \in Desc
  BY <1>1 DEF _msgsetfunc
<1>3. func' \in [Pids -> [Descs -> BOOLEAN]]
  BY <1>1, PidFacts DEF _msgsetfunc, TypeOK
<1> QED
  BY <1>1, <1>2, <1>3, LocalInv DEF _msgsetfunc, TypeOK

LEMMA UnregisterInv ==
    ASSUME ProcessInv, NEW th \in Threads, NEW i \in Descs, _msgunregister(th, i)
    PROVE  ProcessInv'
<1> DEFINE d == [m[th] EXCEPT !.dsc = i]
<1>1. m \in [Threads -> Desc] /\ Genuine(m[th]) /\ TypeOK
  BY DEF ProcessInv, TypeOK, DescInv
<1>2. m' = [m EXCEPT ![th] = d]
  BY <1>1 DEF _msgunregister
<1>3. d \in Desc /\ Genuine(d)
  BY <1>1 DEF Desc, Genuine
<1>4. func' \in [Pids -> [Descs -> BOOLEAN]]
  BY <1>1, PidFacts DEF _msgunregister, TypeOK
<1> QED
  BY <1>1, <1>2, <1>3, <1>4, LocalInv DEF _msgunregister, TypeOK

LEMMA OpenInv ==
    ASSUME ProcessInv, NEW th \in Threads, NEW name \in Names, _msgopen(th, name)
    PROVE  ProcessInv'
<1>1. m \in [Threads -> Desc] /\ Genuine(m[th]) /\ TypeOK /\ RegistryLive /\ GenInv
  BY DEF ProcessInv, TypeOK, DescInv
<1>2. CASE m' = m /\ Goto(th, "run")
  <2>1. m' = [m EXCEPT ![th] = m[th]] /\ m[th] \in Desc
    BY <1>1, <1>2
  <2> QED
    BY <1>1, <1>2, <2>1, LocalInv DEF _msgopen, tables, TypeOK
<1>3. CASE \E d \in _findname(name) :
             /\ m' = [m EXCEPT ![th] = [pid |-> d.pid, gen |-> d.gen,
                                        dsc |-> d.dsc, inst |-> d.inst]]
             /\ Goto(th, "open")
  <2>1. PICK d \in _findname(name) :
             /\ m' = [m EXCEPT ![th] = [pid |-> d.pid, gen |-> d.gen,
                                        dsc |-> d.dsc, inst |-> d.inst]]
             /\ Goto(th, "open")
    BY <1>3
  <2> DEFINE e == [pid |-> d.pid, gen |-> d.gen, dsc |-> d.dsc, inst |-> d.inst]
  <2>2. d \in msg_data_used /\ d \in Entry
    BY <1>1 DEF _findname, TypeOK
  <2>3. e \in Desc
    BY <2>2, Sizes DEF Entry, Desc
  <2>4. /\ d.pid \in Pids /\ valid[d.pid] /\ gen[d.pid] = d.gen /\ inst[d.pid] = d.inst
        /\ d.inst \in Nat
    BY <1>1, <2>2, Sizes DEF Entry, RegistryLive, Insts
  <2>5. Genuine(e)
    BY <1>1, <2>4 DEF Genuine, GenInv
  <2> QED
    BY <1>1, <2>1, <2>3, <2>5, LocalInv DEF _msgopen, tables, TypeOK
<1> QED
  BY <1>2, <1>3 DEF _msgopen

LEMMA SendInv ==
    ASSUME ProcessInv, NEW th \in Threads, NEW i \in Descs, _msgsend(th, i)
    PROVE  ProcessInv'
<1>1. TypeOK /\ DescInv
  BY DEF ProcessInv
<1>2. msgdsc[Pid(th)][i] \in Desc /\ Genuine(msgdsc[Pid(th)][i])
  BY <1>1, PidFacts DEF TypeOK, DescInv
<1> QED
  BY <1>1, <1>2, LocalInv DEF _msgsend, tables, TypeOK

LEMMA RefusedInv == ASSUME ProcessInv, NEW th \in Threads, call_refused(th) PROVE ProcessInv'
  BY Sizes, LocalInv DEF call_refused, tables, ProcessInv, TypeOK

LEMMA SetlimitInv == ASSUME ProcessInv, NEW th \in Threads, sys_setlimit(th) PROVE ProcessInv'
<1>1. TypeOK /\ DescInv /\ RegistryLive
  BY DEF ProcessInv
<1>2. setlimit' \in [Pids -> BOOLEAN]
  BY <1>1, PidFacts DEF sys_setlimit, TypeOK
<1>3. TypeOK'
  BY <1>1, <1>2 DEF sys_setlimit, TypeOK
<1>4. DescInv' /\ RegistryLive'
  BY <1>1 DEF sys_setlimit, DescInv, RegistryLive
<1> QED
  BY <1>3, <1>4, QuietInv DEF sys_setlimit

\* An exited process that no thread is in is gone, so a thread that cannot
\* enter a process does not free it.
LEMMA MapfailInv == ASSUME ProcessInv, NEW th \in Threads, call_mapfail(th) PROVE ProcessInv'
<1> DEFINE p == m[th].pid
<1>1. TypeOK /\ ExitedIsFreed
  BY DEF ProcessInv
<1>2. p \in Pids
  BY <1>1 DEF TypeOK, Desc
<1>3. ~(running[p] = 0 /\ exitflag[p])
  BY <1>1, <1>2 DEF call_mapfail, Callable, ExitedIsFreed, TypeOK
<1>4. UNCHANGED <<gen, msg_data_used, valid, panicked>>
  BY <1>3 DEF call_mapfail, Leave
<1> QED
  BY <1>1, <1>4, Sizes, LocalInv DEF call_mapfail, TypeOK
----------------------------------------------------------------------------
\* Steps that fill in a descriptor with a genuine one.
LEMMA FillInv ==
    ASSUME ProcessInv, NEW p \in Pids, NEW i \in Descs, NEW d \in Desc, Genuine(d),
           msgdsc' = [msgdsc EXCEPT ![p][i] = d],
           m' \in [Threads -> Desc], \A th \in Threads : Genuine(m'[th]),
           pc' \in [Threads -> {"run", "checked", "unregister2", "open", "call", "return"}],
           UNCHANGED <<valid, gen, running, exitflag, inst, stack, panicked,
                       setlimit, func, msg_data_used>>
    PROVE  ProcessInv'
<1>1. TypeOK /\ DescInv /\ RegistryLive
  BY DEF ProcessInv
<1>2. msgdsc \in [Pids -> [Descs -> Desc]]
  BY <1>1 DEF TypeOK
<1>3. msgdsc' \in [Pids -> [Descs -> Desc]]
  BY <1>2
<1>4. TypeOK'
  BY <1>1, <1>3 DEF TypeOK
<1>5. DescInv'
  <2>1. \A q \in Pids, j \in Descs : msgdsc'[q][j] = IF q = p /\ j = i THEN d ELSE msgdsc[q][j]
    BY <1>2
  <2> QED
    BY <1>1, <2>1 DEF DescInv
<1>6. RegistryLive'
  BY <1>1 DEF RegistryLive
<1> QED
  BY <1>4, <1>5, <1>6, QuietInv

\* A thread goes on; what it was about to do is forgotten or stays.
LEMMA LocalsFacts ==
    ASSUME ProcessInv, NEW th \in Threads,
           m' = m \/ m' = [m EXCEPT ![th] = NoDesc],
           pc' = pc \/ Goto(th, "run") \/ Goto(th, "return")
    PROVE  /\ m' \in [Threads -> Desc] /\ \A y \in Threads : Genuine(m'[y])
           /\ pc' \in [Threads -> {"run", "checked", "unregister2", "open", "call", "return"}]
<1>1. /\ m \in [Threads -> Desc]
      /\ pc \in [Threads -> {"run", "checked", "unregister2", "open", "call", "return"}]
      /\ \A y \in Threads : Genuine(m[y])
  BY DEF ProcessInv, TypeOK, DescInv
<1>2. m' \in [Threads -> Desc] /\ \A y \in Threads : Genuine(m'[y])
  BY <1>1, Sizes
<1>3. pc' \in [Threads -> {"run", "checked", "unregister2", "open", "call", "return"}]
  BY <1>1 DEF Goto
<1> QED
  BY <1>2, <1>3

LEMMA Open2Inv == ASSUME ProcessInv, NEW th \in Threads, _msgopen_2(th) PROVE ProcessInv'
<1> DEFINE free == {i \in Descs : Unused(Pid(th), i)}
<1>1. /\ m[th] \in Desc /\ Genuine(m[th])
      /\ func \in [Pids -> [Descs -> BOOLEAN]] /\ setlimit \in [Pids -> BOOLEAN]
  BY DEF ProcessInv, TypeOK, DescInv
<1>2. CASE free = {}
  <2>1. msgdsc' = msgdsc
    BY <1>2 DEF _msgopen_2
  <2> QED
    BY <1>1, <2>1, Sizes, LocalInv DEF _msgopen_2
<1>3. CASE free # {}
  <2>1. Least(free) \in Descs
    <3>1. free \subseteq Nat
      BY Sizes
    <3> HIDE DEF free
    <3>2. Least(free) \in free
      BY <1>3, <3>1, LeastFacts
    <3> QED
      BY <3>2 DEF free
  <2>2. msgdsc' = [msgdsc EXCEPT ![Pid(th)][Least(free)] = m[th]]
    BY <1>3 DEF _msgopen_2
  <2> HIDE DEF free
  <2>3. Pid(th) \in Pids
    BY PidFacts
  <2>4. /\ m' \in [Threads -> Desc] /\ \A y \in Threads : Genuine(m'[y])
        /\ pc' \in [Threads -> {"run", "checked", "unregister2", "open", "call", "return"}]
    BY LocalsFacts DEF _msgopen_2
  <2>5. UNCHANGED <<valid, gen, running, exitflag, inst, stack, panicked,
                    setlimit, func, msg_data_used>>
    BY DEF _msgopen_2
  <2> QED
    BY <1>1, <2>1, <2>2, <2>3, <2>4, <2>5, FillInv
<1> QED
  BY <1>2, <1>3

LEMMA CloseInv ==
    ASSUME ProcessInv, NEW th \in Threads, NEW i \in Descs, _msgclose(th, i)
    PROVE  ProcessInv'
<1> DEFINE d == [pid |-> 0, gen |-> 0, dsc |-> msgdsc[Pid(th)][i].dsc, inst |-> 0]
<1>1. Pid(th) \in Pids /\ msgdsc \in [Pids -> [Descs -> Desc]]
  BY PidFacts DEF ProcessInv, TypeOK
<1>2. d \in Desc /\ Genuine(d)
  <2>1. msgdsc[Pid(th)][i] \in Desc
    BY <1>1
  <2>2. msgdsc[Pid(th)][i].dsc \in Descs
    BY <2>1 DEF Desc
  <2> QED
    BY <2>2, Sizes DEF Desc, Genuine, Insts
<1>3. msgdsc' = [msgdsc EXCEPT ![Pid(th)][i] = d]
  BY <1>1 DEF _msgclose
<1> HIDE DEF d
<1>4. /\ m' \in [Threads -> Desc] /\ \A y \in Threads : Genuine(m'[y])
      /\ pc' \in [Threads -> {"run", "checked", "unregister2", "open", "call", "return"}]
  BY LocalsFacts DEF _msgclose
<1>5. UNCHANGED <<valid, gen, running, exitflag, inst, stack, panicked,
                  setlimit, func, msg_data_used>>
  BY DEF _msgclose
<1> QED
  BY <1>1, <1>2, <1>3, <1>4, <1>5, FillInv

\* A process that gives away a function of its own is alive.
LEMMA SenddescInv ==
    ASSUME ProcessInv, NEW th \in Threads, NEW i \in Descs, NEW j \in Descs,
           NEW myfunc \in BOOLEAN, _msgsenddesc(th, i, j, myfunc)
    PROVE  ProcessInv'
<1> DEFINE p == Pid(th)
           to == msgdsc[p][i]
           free == {k \in 0 .. NUM_OF_MSGDSCRECV - 1 : Unused(to.pid, k)}
           sent == IF myfunc THEN [pid |-> p, gen |-> gen[p], dsc |-> j, inst |-> inst[p]]
                   ELSE msgdsc[p][j]
<1>1. TypeOK /\ DescInv
  BY DEF ProcessInv
<1>2. /\ p \in Pids /\ (p = 0 => inst[p] = 0) /\ (p # 0 => gen[p] = 2 * inst[p])
  BY PidFacts
<1>3. sent \in Desc /\ Genuine(sent)
  <2>1. CASE myfunc
    <3>1. sent = [pid |-> p, gen |-> gen[p], dsc |-> j, inst |-> inst[p]]
      BY <2>1
    <3>2. gen[p] \in 0 .. MaxGen + 1 /\ inst[p] \in Insts
      <4>1. gen[p] \in 1 .. MaxGen + 1 /\ inst[p] \in Insts
        BY <1>1, <1>2 DEF TypeOK
      <4> QED
        BY <4>1, Sizes
    <3> HIDE DEF sent, p
    <3> QED
      BY <1>2, <3>1, <3>2 DEF Desc, Genuine
  <2>2. CASE ~myfunc
    BY <1>1, <1>2, <2>2 DEF TypeOK, DescInv
  <2> QED
    BY <2>1, <2>2
<1>4. to \in Desc /\ to.pid \in Pids
  BY <1>1, <1>2 DEF TypeOK, Desc
<1>5. CASE msgdsc' = msgdsc
  <2>1. m \in [Threads -> Desc] /\ Genuine(m[th]) /\ m[th] \in Desc
    BY <1>1 DEF TypeOK, DescInv
  <2>2. m' = [m EXCEPT ![th] = m[th]]
    BY <2>1 DEF _msgsenddesc
  <2> QED
    BY <1>1, <1>5, <2>1, <2>2, LocalInv DEF _msgsenddesc, TypeOK
<1>6. CASE free # {} /\ msgdsc' = [msgdsc EXCEPT ![to.pid][Least(free)] = sent]
  <2>1. Least(free) \in Descs
    <3>1. free \subseteq Nat /\ free \subseteq Descs
      BY Sizes
    <3> HIDE DEF free
    <3>2. Least(free) \in free
      BY <1>6, <3>1, LeastFacts
    <3> QED
      BY <3>1, <3>2
  <2>2. /\ m' \in [Threads -> Desc] /\ \A y \in Threads : Genuine(m'[y])
        /\ pc' \in [Threads -> {"run", "checked", "unregister2", "open", "call", "return"}]
    BY LocalsFacts DEF _msgsenddesc
  <2>3. UNCHANGED <<valid, gen, running, exitflag, inst, stack, panicked,
                    setlimit, func, msg_data_used>>
    BY DEF _msgsenddesc
  <2> HIDE DEF free, sent, to
  <2> QED
    BY <1>3, <1>4, <1>6, <2>1, <2>2, <2>3, FillInv
<1> QED
  BY <1>5, <1>6 DEF _msgsenddesc

\* A name that is not registered yet is registered for a live process.
LEMMA RegisterInv ==
    ASSUME ProcessInv, NEW th \in Threads, NEW name \in Names \cup {NULL},
           _msgregister(th, name)
    PROVE  ProcessInv'
<1> DEFINE p == Pid(th)
           free == {i \in Descs : ~func[p][i]}
           k == Least(free)
           e == [name |-> name, pid |-> p, gen |-> gen[p], dsc |-> k, inst |-> inst[p]]
<1>1. TypeOK /\ DescInv /\ RegistryLive
  BY DEF ProcessInv
<1>2. p \in Pids /\ valid[p]
  BY PidFacts
<1>3. /\ m' \in [Threads -> Desc] /\ \A y \in Threads : Genuine(m'[y])
      /\ pc' \in [Threads -> {"run", "checked", "unregister2", "open", "call", "return"}]
  BY LocalsFacts DEF _msgregister
<1>4. UNCHANGED <<valid, gen, running, exitflag, inst, stack, panicked,
                  setlimit, msgdsc, m>>
  BY DEF _msgregister
<1>5. CASE UNCHANGED <<func, msg_data_used>>
  <2>1. TypeOK'
    BY <1>1, <1>3, <1>4, <1>5 DEF TypeOK
  <2>2. DescInv' /\ RegistryLive'
    BY <1>1, <1>4, <1>5 DEF DescInv, RegistryLive
  <2> QED
    BY <1>4, <2>1, <2>2, QuietInv
<1>6. CASE /\ free # {}
           /\ name # NULL => _findname(name) = {}
           /\ func' = [func EXCEPT ![p][k] = TRUE]
           /\ IF name = NULL THEN UNCHANGED msg_data_used ELSE msg_register(name, p, k)
  <2>1. k \in Descs
    <3>1. free \subseteq Nat /\ free \subseteq Descs
      BY Sizes
    <3> HIDE DEF free
    <3>2. Least(free) \in free
      BY <1>6, <3>1, LeastFacts
    <3> QED
      BY <3>1, <3>2
  <2> HIDE DEF k, p
  <2>2. func' \in [Pids -> [Descs -> BOOLEAN]]
    BY <1>1, <1>2, <1>6, <2>1 DEF TypeOK
  <2>3. \/ msg_data_used' = msg_data_used
        \/ name \in Names /\ _findname(name) = {} /\ msg_data_used' = msg_data_used \cup {e}
    BY <1>6 DEF msg_register
  <2>4. name \in Names => e \in Entry
    BY <1>1, <1>2, <2>1 DEF TypeOK, Entry
  <2>5. e.name = name /\ e.pid = p /\ e.gen = gen[p] /\ e.inst = inst[p]
    OBVIOUS
  <2> HIDE DEF e
  <2>6. msg_data_used' \subseteq Entry
    BY <1>1, <2>3, <2>4 DEF TypeOK
  <2>7. TypeOK'
    BY <1>1, <1>3, <1>4, <2>2, <2>6 DEF TypeOK
  <2>8. DescInv'
    BY <1>1, <1>4 DEF DescInv
  <2>9. RegistryLive'
    <3>1. ASSUME NEW d1 \in msg_data_used', NEW d2 \in msg_data_used', d1.name = d2.name
          PROVE  d1 = d2
      BY <1>1, <2>3, <2>5, <3>1 DEF RegistryLive, _findname
    <3>2. ASSUME NEW d \in msg_data_used'
          PROVE  valid[d.pid] /\ gen[d.pid] = d.gen /\ inst[d.pid] = d.inst
      BY <1>1, <1>2, <2>3, <2>5 DEF RegistryLive
    <3> QED
      BY <1>4, <3>1, <3>2 DEF RegistryLive
  <2> QED
    BY <1>4, <2>7, <2>8, <2>9, QuietInv
<1> QED
  BY <1>5, <1>6 DEF _msgregister

LEMMA Unregister2Inv ==
    ASSUME ProcessInv, NEW th \in Threads, msg_unregister2(th)
    PROVE  ProcessInv'
<1>1. TypeOK /\ DescInv /\ RegistryLive
  BY DEF ProcessInv
<1>2. /\ m' \in [Threads -> Desc] /\ \A y \in Threads : Genuine(m'[y])
      /\ pc' \in [Threads -> {"run", "checked", "unregister2", "open", "call", "return"}]
  BY LocalsFacts DEF msg_unregister2
<1>3. UNCHANGED tables /\ UNCHANGED <<stack, panicked>> /\ msg_data_used' \subseteq msg_data_used
  BY DEF msg_unregister2
<1>4. TypeOK'
  BY <1>1, <1>2, <1>3 DEF TypeOK, tables
<1>5. DescInv'
  BY <1>1, <1>2, <1>3 DEF DescInv, tables
<1>6. RegistryLive'
  BY <1>1, <1>3 DEF RegistryLive, tables
<1> QED
  BY <1>3, <1>4, <1>5, <1>6, QuietInv DEF tables
----------------------------------------------------------------------------
\* The calls into p when the threads have the stacks s.
CallSet(s, p) ==
    {c \in Threads \X (1 .. MaxDepth) : c[2] \in DOMAIN s[c[1]] /\ s[c[1]][c[2]].pid = p}

\* The stacks of calls that a thread has room for.
Frame == [pid : Pids, inst : Insts]
Stacks == {s \in [Threads -> Seq(Frame)] : \A th \in Threads : Len(s[th]) <= MaxDepth}

\* There are finitely many calls.
LEMMA CallSetFinite ==
    ASSUME NEW s, NEW p
    PROVE  IsFiniteSet(CallSet(s, p)) /\ Cardinality(CallSet(s, p)) \in Nat
<1>1. IsFiniteSet(1 .. MaxDepth)
  BY Sizes, FS_Interval
<1>2. IsFiniteSet(Threads \X (1 .. MaxDepth))
  BY <1>1, Sizes, FS_Product
<1>3. CallSet(s, p) \subseteq Threads \X (1 .. MaxDepth)
  BY DEF CallSet
<1> QED
  BY <1>2, <1>3, FS_Subset, FS_CardinalityType

\* There is no call into p when they count to 0.
LEMMA CallSetEmpty ==
    ASSUME NEW s \in Stacks, NEW p
    PROVE  Cardinality(CallSet(s, p)) = 0 <=>
             \A th \in Threads : \A k \in DOMAIN s[th] : s[th][k].pid # p
<1>1. Cardinality(CallSet(s, p)) = 0 <=> CallSet(s, p) = {}
  BY CallSetFinite, FS_EmptySet
<1>2. ASSUME NEW th \in Threads, NEW k \in DOMAIN s[th]
      PROVE  <<th, k>> \in Threads \X (1 .. MaxDepth)
  <2>1. s[th] \in Seq(Frame) /\ Len(s[th]) <= MaxDepth
    BY DEF Stacks
  <2>2. k \in 1 .. Len(s[th]) /\ Len(s[th]) \in Nat
    BY <2>1, LenProperties
  <2>3. k \in 1 .. MaxDepth
    BY <2>1, <2>2, Sizes
  <2> QED
    BY <2>3
<1>3. CallSet(s, p) = {} => \A th \in Threads : \A k \in DOMAIN s[th] : s[th][k].pid # p
  <2> SUFFICES ASSUME NEW th \in Threads, NEW k \in DOMAIN s[th], s[th][k].pid = p
               PROVE  <<th, k>> \in CallSet(s, p)
    OBVIOUS
  <2> QED
    BY <1>2 DEF CallSet
<1>4. (\A th \in Threads : \A k \in DOMAIN s[th] : s[th][k].pid # p) => CallSet(s, p) = {}
  BY DEF CallSet
<1> QED
  BY <1>1, <1>3, <1>4

\* A thread that enters a process has one more call into it.
LEMMA PushCalls ==
    ASSUME NEW s \in Stacks, NEW th \in Threads, NEW f \in Frame, Len(s[th]) < MaxDepth,
           NEW p, NEW s2 \in [Threads -> Seq(Frame)],
           s2[th] = Append(s[th], f), \A y \in Threads : y # th => s2[y] = s[y]
    PROVE  /\ s2 \in Stacks
           /\ \A y \in Threads : \A k \in DOMAIN s2[y] :
                 (k \in DOMAIN s[y] /\ s2[y][k] = s[y][k]) \/ s2[y][k] = f
           /\ Cardinality(CallSet(s2, p)) =
                 IF f.pid = p THEN Cardinality(CallSet(s, p)) + 1
                 ELSE Cardinality(CallSet(s, p))
<1> DEFINE n == Len(s[th])
           c == <<th, n + 1>>
<1>1. s \in [Threads -> Seq(Frame)] /\ n \in Nat /\ DOMAIN s[th] = 1 .. n
  BY LenProperties DEF Stacks
<1>2. /\ s2[th] = Append(s[th], f) /\ s2[th] \in Seq(Frame) /\ Len(s2[th]) = n + 1
      /\ DOMAIN s2[th] = 1 .. n + 1
      /\ \A k \in 1 .. n + 1 : s2[th][k] = IF k = n + 1 THEN f ELSE s[th][k]
  BY <1>1, AppendProperties, LenProperties
<1>3. \A y \in Threads : y # th => s2[y] = s[y]
  BY <1>1
<1>4. s2 \in [Threads -> Seq(Frame)]
  BY <1>1, <1>2
<1> HIDE DEF n
<1>5. s2 \in Stacks
  <2>1. ASSUME NEW y \in Threads PROVE Len(s2[y]) <= MaxDepth
    <3>1. CASE y = th
      BY <1>1, <1>2, <3>1, Sizes DEF n
    <3>2. CASE y # th
      BY <1>3, <3>2 DEF Stacks
    <3> QED
      BY <3>1, <3>2
  <2> QED
    BY <1>4, <2>1 DEF Stacks
<1>6. \A y \in Threads : \A k \in DOMAIN s2[y] :
         (k \in DOMAIN s[y] /\ s2[y][k] = s[y][k]) \/ s2[y][k] = f
  <2> SUFFICES ASSUME NEW y \in Threads, NEW k \in DOMAIN s2[y]
               PROVE  (k \in DOMAIN s[y] /\ s2[y][k] = s[y][k]) \/ s2[y][k] = f
    OBVIOUS
  <2>1. CASE y # th
    BY <1>3, <2>1
  <2>2. CASE y = th
    <3>1. k \in 1 .. n + 1 /\ (k = n + 1 \/ k \in 1 .. n)
      BY <1>1, <1>2, <2>2
    <3> QED
      BY <1>1, <1>2, <2>2, <3>1
  <2> QED
    BY <2>1, <2>2
<1>7. c \in Threads \X (1 .. MaxDepth) /\ c[1] = th /\ c[2] = n + 1
  BY <1>1, Sizes DEF n
<1>8. ASSUME NEW d \in Threads \X (1 .. MaxDepth)
      PROVE  d \in CallSet(s2, p) <=> d \in CallSet(s, p) \/ (d = c /\ f.pid = p)
  <2>1. PICK y \in Threads, k \in 1 .. MaxDepth : d = <<y, k>>
    OBVIOUS
  <2>2. d \in CallSet(s2, p) <=> k \in DOMAIN s2[y] /\ s2[y][k].pid = p
    BY <2>1 DEF CallSet
  <2>3. d \in CallSet(s, p) <=> k \in DOMAIN s[y] /\ s[y][k].pid = p
    BY <2>1 DEF CallSet
  <2>4. d = c <=> y = th /\ k = n + 1
    BY <2>1
  <2>5. CASE y = th
    BY <1>1, <1>2, <2>2, <2>3, <2>4, <2>5
  <2>6. CASE y # th
    BY <1>3, <2>2, <2>3, <2>4, <2>6
  <2> QED
    BY <2>5, <2>6
<1>9. c \notin CallSet(s, p)
  BY <1>1, <1>7 DEF CallSet
<1> HIDE DEF c
<1>10. CallSet(s2, p) \subseteq Threads \X (1 .. MaxDepth) /\ CallSet(s, p) \subseteq Threads \X (1 .. MaxDepth)
  BY DEF CallSet
<1>11. CASE f.pid = p
  <2>1. CallSet(s2, p) = CallSet(s, p) \cup {c}
    BY <1>7, <1>8, <1>10, <1>11
  <2>2. Cardinality(CallSet(s, p) \cup {c}) = Cardinality(CallSet(s, p)) + 1
    BY <1>9, CallSetFinite, FS_AddElement
  <2> QED
    BY <1>5, <1>6, <1>11, <2>1, <2>2
<1>12. CASE f.pid # p
  <2>1. CallSet(s2, p) = CallSet(s, p)
    BY <1>8, <1>10, <1>12
  <2> QED
    BY <1>5, <1>6, <1>12, <2>1
<1> QED
  BY <1>11, <1>12

\* A thread that returns has one call less into the process it was in.
LEMMA PopCalls ==
    ASSUME NEW s \in Stacks, NEW th \in Threads, Len(s[th]) # 0, NEW p,
           NEW s2 \in [Threads -> Seq(Frame)],
           s2[th] = Front(s[th]), \A y \in Threads : y # th => s2[y] = s[y]
    PROVE  /\ s2 \in Stacks
           /\ \A y \in Threads : \A k \in DOMAIN s2[y] : k \in DOMAIN s[y] /\ s2[y][k] = s[y][k]
           /\ Cardinality(CallSet(s2, p)) =
                 IF Last(s[th]).pid = p THEN Cardinality(CallSet(s, p)) - 1
                 ELSE Cardinality(CallSet(s, p))
<1> DEFINE n == Len(s[th])
           c == <<th, n>>
<1>1. /\ s \in [Threads -> Seq(Frame)] /\ n \in Nat /\ n # 0 /\ n <= MaxDepth
      /\ DOMAIN s[th] = 1 .. n
  BY LenProperties, EmptySeq DEF Stacks
<1>2. /\ s2[th] \in Seq(Frame) /\ Len(s2[th]) = n - 1 /\ DOMAIN s2[th] = 1 .. n - 1
      /\ \A k \in 1 .. n - 1 : s2[th][k] = s[th][k]
  <2>1. s2[th] = SubSeq(s[th], 1, n - 1)
    BY <1>1 DEF Front
  <2>2. /\ SubSeq(s[th], 1, n - 1) \in Seq(Frame) /\ Len(SubSeq(s[th], 1, n - 1)) = n - 1
        /\ \A k \in 1 .. n - 1 : SubSeq(s[th], 1, n - 1)[k] = s[th][k]
    BY <1>1, SubSeqProperties
  <2> QED
    BY <2>1, <2>2, LenProperties
<1>3. \A y \in Threads : y # th => s2[y] = s[y]
  BY <1>1
<1>4. s2 \in [Threads -> Seq(Frame)]
  BY <1>1, <1>2
<1>5. Last(s[th]) = s[th][n]
  BY DEF Last
<1> HIDE DEF n
<1>6. s2 \in Stacks
  <2>1. \A y \in Threads : Len(s2[y]) <= MaxDepth
    BY <1>1, <1>2, <1>3, Sizes DEF Stacks
  <2> QED
    BY <1>4, <2>1 DEF Stacks
<1>7. \A y \in Threads : \A k \in DOMAIN s2[y] : k \in DOMAIN s[y] /\ s2[y][k] = s[y][k]
  <2> SUFFICES ASSUME NEW y \in Threads, NEW k \in DOMAIN s2[y]
               PROVE  k \in DOMAIN s[y] /\ s2[y][k] = s[y][k]
    OBVIOUS
  <2>1. CASE y # th
    BY <1>3, <2>1
  <2>2. CASE y = th
    BY <1>1, <1>2, <2>2
  <2> QED
    BY <2>1, <2>2
<1>8. c \in Threads \X (1 .. MaxDepth) /\ c[1] = th /\ c[2] = n
  BY <1>1, Sizes
<1>9. ASSUME NEW d \in Threads \X (1 .. MaxDepth)
      PROVE  d \in CallSet(s2, p) <=> d \in CallSet(s, p) /\ d # c
  <2>1. PICK y \in Threads, k \in 1 .. MaxDepth : d = <<y, k>>
    OBVIOUS
  <2>2. d \in CallSet(s2, p) <=> k \in DOMAIN s2[y] /\ s2[y][k].pid = p
    BY <2>1 DEF CallSet
  <2>3. d \in CallSet(s, p) <=> k \in DOMAIN s[y] /\ s[y][k].pid = p
    BY <2>1 DEF CallSet
  <2>4. d = c <=> y = th /\ k = n
    BY <2>1
  <2>5. CASE y = th
    BY <1>1, <1>2, <2>2, <2>3, <2>4, <2>5
  <2>6. CASE y # th
    BY <1>3, <2>2, <2>3, <2>4, <2>6
  <2> QED
    BY <2>5, <2>6
<1>10. c \in CallSet(s, p) <=> Last(s[th]).pid = p
  BY <1>1, <1>5, <1>8 DEF CallSet
<1> HIDE DEF c
<1>11. CallSet(s2, p) \subseteq Threads \X (1 .. MaxDepth) /\ CallSet(s, p) \subseteq Threads \X (1 .. MaxDepth)
  BY DEF CallSet
<1>12. CASE Last(s[th]).pid = p
  <2>1. CallSet(s2, p) = CallSet(s, p) \ {c}
    BY <1>9, <1>11
  <2>2. Cardinality(CallSet(s, p) \ {c}) = Cardinality(CallSet(s, p)) - 1
    <3>1. c \in CallSet(s, p) /\ IsFiniteSet(CallSet(s, p))
      BY <1>10, <1>12, CallSetFinite
    <3> QED
      BY <3>1, FS_RemoveElement
  <2> QED
    BY <1>6, <1>7, <1>12, <2>1, <2>2
<1>13. CASE Last(s[th]).pid # p
  <2>1. CallSet(s2, p) = CallSet(s, p)
    BY <1>9, <1>10, <1>11, <1>13
  <2> QED
    BY <1>6, <1>7, <1>13, <2>1
<1> QED
  BY <1>12, <1>13
----------------------------------------------------------------------------
\* What an action that pops the stack of th does.
LEMMA PopStack ==
    ASSUME stack \in Stacks, NEW th \in Threads, stack[th] # <<>>,
           stack' = [stack EXCEPT ![th] = Front(stack[th])]
    PROVE  /\ Len(stack[th]) # 0
           /\ stack' \in [Threads -> Seq(Frame)]
           /\ stack'[th] = Front(stack[th])
           /\ \A y \in Threads : y # th => stack'[y] = stack[y]
<1>1. stack \in [Threads -> Seq(Frame)] /\ Front(stack[th]) \in Seq(Frame)
  <2>1. stack[th] \in Seq(Frame) /\ stack \in [Threads -> Seq(Frame)]
    BY DEF Stacks
  <2>2. Len(stack[th]) \in Nat /\ Len(stack[th]) # 0
    BY <2>1, LenProperties, EmptySeq
  <2> QED
    BY <2>1, <2>2, SubSeqProperties DEF Front
<1>2. /\ stack' \in [Threads -> Seq(Frame)]
      /\ stack'[th] = Front(stack[th])
      /\ \A y \in Threads : y # th => stack'[y] = stack[y]
  BY <1>1
<1>3. Len(stack[th]) # 0
  BY <1>1, EmptySeq
<1> QED
  BY <1>2, <1>3

\* What the invariant says about the calls of the threads.
LEMMA StackFacts ==
    ASSUME ProcessInv
    PROVE  /\ stack \in Stacks
           /\ \A p \in Pids : Calls(p) = Cardinality(CallSet(stack, p))
           /\ \A th \in Threads : Pid(th) # 0 =>
                 /\ stack[th] # <<>> /\ Last(stack[th]).pid = Pid(th)
                 /\ running[Pid(th)] > 0
<1>1. stack \in Stacks
  BY DEF ProcessInv, TypeOK, DepthInv, Stacks, Frame
<1>2. \A p \in Pids : Calls(p) = Cardinality(CallSet(stack, p))
  BY DEF Calls, CallSet
<1>3. ASSUME NEW th \in Threads, Pid(th) # 0
      PROVE  /\ stack[th] # <<>> /\ Last(stack[th]).pid = Pid(th)
             /\ running[Pid(th)] > 0
  <2>1. stack[th] # <<>> /\ Last(stack[th]).pid = Pid(th)
    BY <1>3 DEF Pid
  <2>2. /\ Len(stack[th]) \in DOMAIN stack[th]
        /\ stack[th][Len(stack[th])].pid = Pid(th)
        /\ Pid(th) \in Pids /\ valid[Pid(th)]
    BY <1>3, PidFacts
  <2>3. Cardinality(CallSet(stack, Pid(th))) # 0
    BY <1>1, <2>2, CallSetEmpty
  <2>4. running[Pid(th)] = Cardinality(CallSet(stack, Pid(th)))
    BY <1>2, <1>3, <2>2 DEF ProcessInv, RunningCounts
  <2>5. Cardinality(CallSet(stack, Pid(th))) \in Nat
    BY CallSetFinite
  <2>6. running[Pid(th)] > 0
    BY <2>3, <2>4, <2>5
  <2> QED
    BY <2>1, <2>6
<1> QED
  BY <1>1, <1>2, <1>3

\* A process exits while a thread is in it.
LEMMA ExitInv == ASSUME ProcessInv, NEW th \in Threads, sys_exitprocess(th) PROVE ProcessInv'
<1> DEFINE p == Pid(th)
<1>1. /\ TypeOK /\ GenInv /\ DescInv /\ DepthInv
      /\ RegistryLive /\ CallsWhatWasOpened /\ RunningCounts /\ ExitedIsFreed
  BY DEF ProcessInv
<1>2. p \in Pids /\ p # 0 /\ running[p] > 0
  BY PidFacts, StackFacts DEF sys_exitprocess
<1>3. /\ exitflag' = [exitflag EXCEPT ![p] = TRUE]
      /\ UNCHANGED <<valid, gen, running, setlimit, msgdsc, func, inst,
                     msg_data_used, stack, m, panicked>>
  BY DEF sys_exitprocess
<1>4. pc' \in [Threads -> {"run", "checked", "unregister2", "open", "call", "return"}]
  BY LocalsFacts DEF sys_exitprocess
<1> HIDE DEF p
<1>5. exitflag' \in [Pids -> BOOLEAN] /\ \A q \in Pids : q # p => exitflag'[q] = exitflag[q]
  BY <1>1, <1>2, <1>3 DEF TypeOK
<1>6. TypeOK'
  BY <1>1, <1>3, <1>4, <1>5 DEF TypeOK
<1>7. GenInv' /\ DescInv' /\ DepthInv'
  BY <1>1, <1>3 DEF GenInv, DescInv, DepthInv
<1>8. RegistryLive' /\ CallsWhatWasOpened' /\ RunningCounts'
  BY <1>1, <1>3 DEF RegistryLive, CallsWhatWasOpened, RunningCounts, Calls
<1>9. ExitedIsFreed'
  BY <1>1, <1>2, <1>3, <1>5 DEF ExitedIsFreed
<1> QED
  BY <1>6, <1>7, <1>8, <1>9 DEF ProcessInv

\* A descriptor that can be called is of the process that has the pid now.
LEMMA CallableFacts ==
    ASSUME ProcessInv, NEW th \in Threads, Callable(m[th])
    PROVE  LET d == m[th] IN
           d.pid \in Pids /\ d.inst \in Insts /\ valid[d.pid] /\ d.inst = inst[d.pid]
<1> DEFINE d == m[th]
<1>1. TypeOK /\ GenInv /\ Genuine(d)
  BY DEF ProcessInv, DescInv
<1>2. d \in Desc
  BY <1>1 DEF TypeOK
<1> HIDE DEF d
<1>3. d.pid \in Pids /\ d.inst \in Insts /\ d.inst \in Nat
  BY <1>2, Sizes DEF Desc, Insts
<1>4. valid[d.pid] /\ gen[d.pid] = d.gen
  BY DEF Callable, d
<1>5. gen[d.pid] \in 1 .. MaxGen + 1 /\ inst[d.pid] \in Insts
  BY <1>1, <1>3 DEF TypeOK
<1>6. d.gen # 0 /\ inst[d.pid] \in Nat
  BY <1>4, <1>5, Sizes DEF Insts
<1>7. CASE d.pid = 0
  BY <1>1, <1>3, <1>4, <1>6, <1>7 DEF Genuine, GenInv, d
<1>8. CASE d.pid # 0
  <2>1. d.gen = 2 * d.inst /\ gen[d.pid] = 2 * inst[d.pid] + 0
    BY <1>1, <1>3, <1>4, <1>6, <1>8 DEF Genuine, GenInv
  <2> QED
    BY <1>3, <1>4, <1>6, <2>1 DEF d
<1> QED
  BY <1>7, <1>8

\* A thread enters the process its descriptor was opened for.
LEMMA EnterInv == ASSUME ProcessInv, NEW th \in Threads, call_enter(th) PROVE ProcessInv'
<1> DEFINE p == m[th].pid
           f == [pid |-> p, inst |-> m[th].inst]
<1>1. /\ TypeOK /\ GenInv /\ DescInv /\ DepthInv
      /\ RegistryLive /\ CallsWhatWasOpened /\ RunningCounts /\ ExitedIsFreed
  BY DEF ProcessInv
<1>2. /\ p \in Pids /\ valid[p] /\ f.pid = p /\ f.inst = inst[p] /\ f \in Frame
  BY CallableFacts DEF call_enter, Frame
<1>3. /\ Len(stack[th]) < MaxDepth
      /\ running' = IF p = 0 THEN running ELSE [running EXCEPT ![p] = @ + 1]
      /\ UNCHANGED <<valid, gen, exitflag, setlimit, msgdsc, func, inst,
                     msg_data_used, panicked>>
  BY DEF call_enter, count
<1>4. stack' = [stack EXCEPT ![th] = Append(stack[th], f)]
  BY <1>1 DEF call_enter, TypeOK
<1>5. /\ m' \in [Threads -> Desc] /\ \A y \in Threads : Genuine(m'[y])
      /\ pc' \in [Threads -> {"run", "checked", "unregister2", "open", "call", "return"}]
  BY LocalsFacts DEF call_enter
<1> HIDE DEF p, f
<1>6. /\ stack' \in Stacks
      /\ \A y \in Threads : \A k \in DOMAIN stack'[y] :
            (k \in DOMAIN stack[y] /\ stack'[y][k] = stack[y][k]) \/ stack'[y][k] = f
      /\ \A q \in Pids : Cardinality(CallSet(stack', q)) =
            IF p = q THEN Calls(q) + 1 ELSE Calls(q)
  <2>1. stack \in Stacks /\ \A q \in Pids : Calls(q) = Cardinality(CallSet(stack, q))
    BY StackFacts
  <2>2. f \in Frame /\ Len(stack[th]) < MaxDepth
    BY <1>2, <1>3
  <2>3. ASSUME NEW q
        PROVE  /\ stack' \in Stacks
               /\ \A y \in Threads : \A k \in DOMAIN stack'[y] :
                     (k \in DOMAIN stack[y] /\ stack'[y][k] = stack[y][k]) \/ stack'[y][k] = f
               /\ Cardinality(CallSet(stack', q)) =
                     IF f.pid = q THEN Cardinality(CallSet(stack, q)) + 1
                     ELSE Cardinality(CallSet(stack, q))
    <3>1. stack \in [Threads -> Seq(Frame)] /\ Append(stack[th], f) \in Seq(Frame)
      BY <2>1, <2>2, AppendProperties DEF Stacks
    <3>2. /\ stack' \in [Threads -> Seq(Frame)]
          /\ stack'[th] = Append(stack[th], f)
          /\ \A y \in Threads : y # th => stack'[y] = stack[y]
      BY <1>4, <3>1
    <3> QED
      BY <2>1, <2>2, <3>2, PushCalls
  <2> QED
    BY <1>2, <2>1, <2>3
<1>7. running' \in [Pids -> Nat] /\ \A q \in Pids : running'[q] =
         IF p = q /\ q # 0 THEN running[q] + 1 ELSE running[q]
  BY <1>1, <1>2, <1>3 DEF TypeOK
<1>8. TypeOK' /\ DepthInv'
  BY <1>1, <1>3, <1>5, <1>6, <1>7 DEF TypeOK, DepthInv, Stacks, Frame
<1>9. GenInv' /\ DescInv' /\ RegistryLive'
  BY <1>1, <1>3, <1>5 DEF GenInv, DescInv, RegistryLive
<1>10. CallsWhatWasOpened'
  BY <1>1, <1>2, <1>3, <1>6 DEF CallsWhatWasOpened
<1>11. RunningCounts'
  <2>1. \A q \in Pids : Calls(q)' = Cardinality(CallSet(stack', q))
    BY DEF Calls, CallSet
  <2> QED
    BY <1>1, <1>3, <1>6, <1>7, <2>1 DEF RunningCounts
<1>12. ExitedIsFreed'
  BY <1>1, <1>3, <1>7 DEF ExitedIsFreed, TypeOK
<1> QED
  BY <1>8, <1>9, <1>10, <1>11, <1>12 DEF ProcessInv

\* Calls into the VMM are not counted.
LEMMA ReturnVmmInv == ASSUME ProcessInv, NEW th \in Threads, call_return_vmm(th) PROVE ProcessInv'
<1>1. /\ TypeOK /\ GenInv /\ DescInv /\ DepthInv
      /\ RegistryLive /\ CallsWhatWasOpened /\ RunningCounts /\ ExitedIsFreed
  BY DEF ProcessInv
<1>2. stack[th] # <<>> /\ Last(stack[th]).pid = 0
  BY DEF call_return_vmm, Pid
<1>3. /\ stack' = [stack EXCEPT ![th] = Front(stack[th])]
      /\ UNCHANGED <<valid, gen, running, exitflag, setlimit, msgdsc, func, inst,
                     msg_data_used, pc, m, panicked>>
  BY <1>1 DEF call_return_vmm, tables, TypeOK
<1>4. /\ stack' \in Stacks
      /\ \A y \in Threads : \A k \in DOMAIN stack'[y] :
            k \in DOMAIN stack[y] /\ stack'[y][k] = stack[y][k]
      /\ \A q \in Pids : q # 0 => Cardinality(CallSet(stack', q)) = Calls(q)
  <2>1. stack \in Stacks /\ \A q \in Pids : Calls(q) = Cardinality(CallSet(stack, q))
    BY StackFacts
  <2>2. ASSUME NEW q
        PROVE  /\ stack' \in Stacks
               /\ \A y \in Threads : \A k \in DOMAIN stack'[y] :
                     k \in DOMAIN stack[y] /\ stack'[y][k] = stack[y][k]
               /\ Cardinality(CallSet(stack', q)) =
                     IF Last(stack[th]).pid = q THEN Cardinality(CallSet(stack, q)) - 1
                     ELSE Cardinality(CallSet(stack, q))
    <3>1. /\ Len(stack[th]) # 0 /\ stack' \in [Threads -> Seq(Frame)]
          /\ stack'[th] = Front(stack[th])
          /\ \A y \in Threads : y # th => stack'[y] = stack[y]
      BY <1>2, <1>3, <2>1, PopStack
    <3> QED
      BY <2>1, <3>1, PopCalls
  <2> QED
    BY <1>2, <2>1, <2>2
<1>5. TypeOK' /\ DepthInv'
  BY <1>1, <1>3, <1>4 DEF TypeOK, DepthInv, Stacks, Frame
<1>6. GenInv' /\ DescInv' /\ RegistryLive' /\ ExitedIsFreed'
  BY <1>1, <1>3 DEF GenInv, DescInv, RegistryLive, ExitedIsFreed
<1>7. CallsWhatWasOpened'
  BY <1>1, <1>3, <1>4 DEF CallsWhatWasOpened
<1>8. RunningCounts'
  <2>1. \A q \in Pids : Calls(q)' = Cardinality(CallSet(stack', q))
    BY DEF Calls, CallSet
  <2>2. \A q \in Pids : q # 0 => Calls(q)' = Calls(q)
    BY <1>4, <2>1
  <2>3. RunningCounts /\ valid' = valid /\ running' = running
    BY <1>1, <1>3
  <2> QED
    BY ONLY <2>2, <2>3 DEF RunningCounts
<1> QED
  BY <1>5, <1>6, <1>7, <1>8 DEF ProcessInv

\* A thread returns from a process; the last one frees it if it exited.
LEMMA ReturnInv == ASSUME ProcessInv, NEW th \in Threads, call_return(th) PROVE ProcessInv'
<1> DEFINE p == Pid(th)
<1>1. /\ TypeOK /\ GenInv /\ DescInv /\ DepthInv
      /\ RegistryLive /\ CallsWhatWasOpened /\ RunningCounts /\ ExitedIsFreed
  BY DEF ProcessInv
<1>2. p \in Pids /\ p # 0 /\ valid[p] /\ gen[p] = 2 * inst[p]
  BY PidFacts DEF call_return
<1>3. stack[th] # <<>> /\ Last(stack[th]).pid = p /\ running[p] > 0
  BY StackFacts DEF call_return
<1>4. /\ stack' = [stack EXCEPT ![th] = Front(stack[th])]
      /\ running' = [running EXCEPT ![p] = @ - 1]
      /\ Leave(p, running[p] - 1)
      /\ UNCHANGED <<exitflag, setlimit, msgdsc, func, inst, m>>
  BY <1>1 DEF call_return, uncount, TypeOK
<1>5. /\ m' \in [Threads -> Desc] /\ \A y \in Threads : Genuine(m'[y])
      /\ pc' \in [Threads -> {"run", "checked", "unregister2", "open", "call", "return"}]
  BY LocalsFacts DEF call_return
<1> HIDE DEF p
<1>6. /\ stack' \in Stacks
      /\ \A y \in Threads : \A k \in DOMAIN stack'[y] :
            k \in DOMAIN stack[y] /\ stack'[y][k] = stack[y][k]
      /\ \A q \in Pids : Cardinality(CallSet(stack', q)) =
            IF p = q THEN Calls(q) - 1 ELSE Calls(q)
  <2>1. stack \in Stacks /\ \A q \in Pids : Calls(q) = Cardinality(CallSet(stack, q))
    BY StackFacts
  <2>2. ASSUME NEW q
        PROVE  /\ stack' \in Stacks
               /\ \A y \in Threads : \A k \in DOMAIN stack'[y] :
                     k \in DOMAIN stack[y] /\ stack'[y][k] = stack[y][k]
               /\ Cardinality(CallSet(stack', q)) =
                     IF Last(stack[th]).pid = q THEN Cardinality(CallSet(stack, q)) - 1
                     ELSE Cardinality(CallSet(stack, q))
    <3>1. /\ Len(stack[th]) # 0 /\ stack' \in [Threads -> Seq(Frame)]
          /\ stack'[th] = Front(stack[th])
          /\ \A y \in Threads : y # th => stack'[y] = stack[y]
      BY <1>3, <1>4, <2>1, PopStack
    <3> QED
      BY <2>1, <3>1, PopCalls
  <2> QED
    BY <1>3, <2>1, <2>2
<1>7. \A q \in Pids : Calls(q)' = Cardinality(CallSet(stack', q))
  BY DEF Calls, CallSet
<1>8. /\ running[p] \in Nat /\ running[p] = Calls(p)
      /\ running' \in [Pids -> Nat]
      /\ running'[p] = running[p] - 1
      /\ \A q \in Pids : q # p => running'[q] = running[q]
  BY <1>1, <1>2, <1>3, <1>4 DEF TypeOK, RunningCounts
<1>9. CASE running[p] - 1 = 0 /\ exitflag[p]
  <2>1. /\ gen' = [gen EXCEPT ![p] = @ + 1]
        /\ msg_data_used' = {d \in msg_data_used : d.pid # p}
        /\ valid' = [valid EXCEPT ![p] = FALSE]
        /\ panicked' = panicked
    BY <1>2, <1>4, <1>9 DEF Leave, msg_unregisterall
  <2>2. \A y \in Threads : \A k \in DOMAIN stack'[y] : stack'[y][k].pid # p
    <3>1. Cardinality(CallSet(stack', p)) = 0
      BY <1>2, <1>6, <1>8, <1>9
    <3> QED
      BY <1>6, <3>1, CallSetEmpty
  <2>3. /\ gen[p] \in 1 .. MaxGen + 1 /\ gen[p] <= MaxGen /\ inst[p] \in Nat
    <3>1. gen[p] \in 1 .. MaxGen + 1 /\ inst[p] \in Insts /\ gen[p] <= MaxGen
      BY <1>1, <1>2 DEF TypeOK, GenInv
    <3> QED
      BY <3>1, Sizes DEF Insts
  <2>4. /\ gen' \in [Pids -> 1 .. MaxGen + 1] /\ gen'[p] = gen[p] + 1
        /\ valid' \in [Pids -> BOOLEAN] /\ ~valid'[p]
        /\ \A q \in Pids : q # p => gen'[q] = gen[q] /\ valid'[q] = valid[q]
    <3>1. gen[p] + 1 \in 1 .. MaxGen + 1
      BY <2>3, Sizes
    <3> QED
      BY <1>1, <1>2, <2>1, <3>1 DEF TypeOK
  <2>5. TypeOK'
    <3>1. msg_data_used' \subseteq Entry
      BY <1>1, <2>1 DEF TypeOK
    <3>2. stack' \in [Threads -> Seq([pid : Pids, inst : Insts])]
      BY <1>6 DEF Stacks, Frame
    <3> QED
      BY <1>1, <1>4, <1>5, <1>8, <2>1, <2>4, <3>1, <3>2 DEF TypeOK
  <2>6. DepthInv' /\ DescInv'
    BY <1>1, <1>4, <1>5, <1>6 DEF DepthInv, DescInv, Stacks
  <2>7. GenInv'
    <3>1. gen'[p] = 2 * inst'[p] + 1
      BY <1>2, <1>4, <2>4
    <3>2. 0 \in Pids /\ 0 # p
      BY <1>2, Sizes
    <3> QED
      BY <1>1, <1>4, <2>4, <3>1, <3>2 DEF GenInv
  <2>8. RegistryLive'
    <3>1. msg_data_used' \subseteq msg_data_used /\ \A d \in msg_data_used' : d.pid # p /\ d.pid \in Pids
      BY <1>1, <2>1 DEF TypeOK, Entry
    <3> QED
      BY <1>1, <1>4, <2>4, <3>1 DEF RegistryLive
  <2>9. CallsWhatWasOpened'
    <3> SUFFICES ASSUME NEW y \in Threads, NEW k \in DOMAIN stack'[y]
                 PROVE  valid'[stack'[y][k].pid] /\ inst[stack'[y][k].pid] = stack'[y][k].inst
      BY <1>1, <1>4, <2>1 DEF CallsWhatWasOpened
    <3>1. k \in DOMAIN stack[y] /\ stack'[y][k] = stack[y][k] /\ stack[y][k].pid # p
      BY <1>6, <2>2
    <3>2. stack[y][k].pid \in Pids
      <4>1. stack[y] \in Seq([pid : Pids, inst : Insts])
        BY <1>1 DEF TypeOK
      <4>2. stack[y][k] \in [pid : Pids, inst : Insts]
        BY <3>1, <4>1, ElementOfSeq, LenProperties
      <4> QED
        BY <4>2
    <3> QED
      BY <1>1, <2>4, <3>1, <3>2 DEF CallsWhatWasOpened
  <2>10. RunningCounts' /\ ExitedIsFreed'
    <3>1. ASSUME NEW q \in Pids, q # 0, valid'[q] PROVE running'[q] = Calls(q)'
      <4>1. q # p /\ valid[q]
        BY <2>4, <3>1
      <4> QED
        BY <1>1, <1>6, <1>7, <1>8, <3>1, <4>1 DEF RunningCounts
    <3>2. ASSUME NEW q \in Pids, valid'[q], exitflag'[q] PROVE running'[q] > 0
      <4>1. q # p /\ valid[q] /\ exitflag[q]
        BY <1>4, <2>4, <3>2
      <4> QED
        BY <1>1, <1>8, <4>1 DEF ExitedIsFreed
    <3> QED
      BY <3>1, <3>2 DEF RunningCounts, ExitedIsFreed
  <2> QED
    BY <2>5, <2>6, <2>7, <2>8, <2>9, <2>10 DEF ProcessInv
<1>10. CASE ~(running[p] - 1 = 0 /\ exitflag[p])
  <2>1. UNCHANGED <<gen, msg_data_used, valid, panicked>>
    BY <1>4, <1>10 DEF Leave
  <2>2. TypeOK'
    <3>1. stack' \in [Threads -> Seq([pid : Pids, inst : Insts])]
      BY <1>6 DEF Stacks, Frame
    <3> QED
      BY <1>1, <1>4, <1>5, <1>8, <2>1, <3>1 DEF TypeOK
  <2>3. DepthInv' /\ DescInv'
    BY <1>1, <1>4, <1>5, <1>6 DEF DepthInv, DescInv, Stacks
  <2>4. GenInv' /\ RegistryLive'
    BY <1>1, <1>4, <2>1 DEF GenInv, RegistryLive
  <2>5. CallsWhatWasOpened'
    BY <1>1, <1>4, <1>6, <2>1 DEF CallsWhatWasOpened
  <2>6. RunningCounts'
    BY <1>1, <1>6, <1>7, <1>8, <2>1 DEF RunningCounts
  <2>7. ExitedIsFreed'
    <3>1. exitflag[p] => running'[p] > 0
      BY <1>3, <1>8, <1>10
    <3> QED
      BY <1>1, <1>4, <1>8, <2>1, <3>1 DEF ExitedIsFreed
  <2> QED
    BY <2>2, <2>3, <2>4, <2>5, <2>6, <2>7 DEF ProcessInv
<1> QED
  BY <1>9, <1>10

\* A new process gets a pid that no thread is in and no name leads to.
LEMMA NewInv == ASSUME ProcessInv, NEW th \in Threads, process_new(th) PROVE ProcessInv'
<1> DEFINE free == {p \in Pids : p > 0 /\ ~valid[p]}
           p == Least(free)
           d == [pid |-> p, gen |-> gen[p] + 1, dsc |-> 0, inst |-> inst[p] + 1]
<1>1. /\ TypeOK /\ GenInv /\ DescInv /\ DepthInv
      /\ RegistryLive /\ CallsWhatWasOpened /\ RunningCounts /\ ExitedIsFreed
  BY DEF ProcessInv
<1>2. CASE Goto(th, "run") /\ UNCHANGED <<tables, m>>
  <2>1. m \in [Threads -> Desc] /\ Genuine(m[th]) /\ m[th] \in Desc
    BY <1>1 DEF TypeOK, DescInv
  <2>2. m' = [m EXCEPT ![th] = m[th]]
    BY <1>2, <2>1
  <2> QED
    BY <1>1, <1>2, <2>1, <2>2, LocalInv DEF process_new, tables, TypeOK
<1>3. CASE /\ free # {} /\ gen[p] < MaxGen
           /\ reset_flags(p)
           /\ gen' = [gen EXCEPT ![p] = @ + 1]
           /\ valid' = [valid EXCEPT ![p] = TRUE]
           /\ msgdsc' = [msgdsc EXCEPT ![p] = [i \in Descs |-> NoDesc]]
           /\ func' = [func EXCEPT ![p] = [i \in Descs |-> i = 0]]
           /\ inst' = [inst EXCEPT ![p] = @ + 1]
           /\ m' = [m EXCEPT ![th] = d]
           /\ Goto(th, "open")
  <2>1. p \in Pids /\ p # 0 /\ ~valid[p]
    <3>1. free \subseteq Nat
      BY Sizes
    <3> HIDE DEF free
    <3>2. p \in free
      BY <1>3, <3>1, LeastFacts
    <3>3. 0 \notin free
      BY DEF free
    <3> QED
      BY <3>2, <3>3 DEF free
  <2> HIDE DEF p
  <2>2. UNCHANGED <<msg_data_used, stack, panicked>>
    BY DEF process_new
  <2>3. /\ gen[p] = 2 * inst[p] + 1 /\ inst[p] \in Nat /\ gen[p] \in Nat
        /\ gen[p] + 1 \in 1 .. MaxGen + 1 /\ gen[p] + 1 <= MaxGen
        /\ inst[p] + 1 \in Insts
    <3>1. gen[p] \in 1 .. MaxGen + 1 /\ inst[p] \in Insts /\ gen[p] = 2 * inst[p] + 1
      BY <1>1, <2>1 DEF TypeOK, GenInv
    <3> QED
      BY <1>3, <3>1, Sizes DEF Insts
  <2>4. d \in Desc /\ Genuine(d)
    <3>1. gen[p] + 1 \in 0 .. MaxGen + 1
      BY <2>3, Sizes
    <3>2. d \in Desc
      BY <2>1, <2>3, <3>1, Sizes DEF Desc
    <3>3. gen[p] + 1 = 2 * (inst[p] + 1)
      BY <2>3
    <3> QED
      BY <2>1, <3>2, <3>3 DEF Genuine
  <2> HIDE DEF d, free
  <2>5. /\ gen' \in [Pids -> 1 .. MaxGen + 1] /\ gen'[p] = gen[p] + 1
        /\ valid' \in [Pids -> BOOLEAN] /\ valid'[p] = TRUE
        /\ inst' \in [Pids -> Insts] /\ inst'[p] = inst[p] + 1
        /\ \A q \in Pids : q # p => gen'[q] = gen[q] /\ valid'[q] = valid[q] /\ inst'[q] = inst[q]
    BY <1>1, <1>3, <2>1, <2>3 DEF TypeOK
  <2>6. /\ running' \in [Pids -> Nat] /\ exitflag' \in [Pids -> BOOLEAN]
        /\ setlimit' \in [Pids -> BOOLEAN]
        /\ running'[p] = 0 /\ exitflag'[p] = FALSE
        /\ \A q \in Pids : q # p => running'[q] = running[q] /\ exitflag'[q] = exitflag[q]
    BY <1>1, <1>3, <2>1 DEF TypeOK, reset_flags
  <2>7. /\ msgdsc' \in [Pids -> [Descs -> Desc]] /\ func' \in [Pids -> [Descs -> BOOLEAN]]
        /\ \A q \in Pids, i \in Descs :
              msgdsc'[q][i] = IF q = p THEN NoDesc ELSE msgdsc[q][i]
    <3>1. msgdsc \in [Pids -> [Descs -> Desc]] /\ func \in [Pids -> [Descs -> BOOLEAN]]
      BY <1>1 DEF TypeOK
    <3>2. [i \in Descs |-> NoDesc] \in [Descs -> Desc]
      BY Sizes
    <3>3. msgdsc' \in [Pids -> [Descs -> Desc]]
      BY <1>3, <2>1, <3>1, <3>2
    <3>4. func' \in [Pids -> [Descs -> BOOLEAN]]
      BY <1>3, <2>1, <3>1
    <3>5. \A q \in Pids, i \in Descs : msgdsc'[q][i] = IF q = p THEN NoDesc ELSE msgdsc[q][i]
      BY <1>3, <2>1, <3>1
    <3> QED
      BY <3>3, <3>4, <3>5
  <2>8. /\ m' \in [Threads -> Desc] /\ \A y \in Threads : Genuine(m'[y])
        /\ pc' \in [Threads -> {"run", "checked", "unregister2", "open", "call", "return"}]
    <3>1. m \in [Threads -> Desc] /\ \A y \in Threads : Genuine(m[y])
      BY <1>1 DEF TypeOK, DescInv
    <3>2. m' \in [Threads -> Desc] /\ \A y \in Threads : Genuine(m'[y])
      BY <1>3, <2>4, <3>1
    <3>3. pc' \in [Threads -> {"run", "checked", "unregister2", "open", "call", "return"}]
      BY <1>1, <1>3 DEF Goto, TypeOK
    <3> QED
      BY <3>2, <3>3
  <2>9. TypeOK' /\ DepthInv'
    BY <1>1, <2>2, <2>5, <2>6, <2>7, <2>8 DEF TypeOK, DepthInv
  <2>10. DescInv'
    BY <1>1, <2>7, <2>8, Sizes DEF DescInv
  <2>11. GenInv'
    <3>1. gen'[p] = 2 * inst'[p] + 0 /\ gen'[p] <= MaxGen
      BY <2>3, <2>5
    <3>2. 0 \in Pids /\ 0 # p
      BY <2>1, Sizes
    <3> QED
      BY <1>1, <2>5, <3>1, <3>2 DEF GenInv
  <2>12. RegistryLive'
    <3>1. \A e \in msg_data_used : e.pid # p /\ e.pid \in Pids
      BY <1>1, <2>1 DEF TypeOK, Entry, RegistryLive
    <3> QED
      BY <1>1, <2>2, <2>5, <3>1 DEF RegistryLive
  <2>13. \A y \in Threads : \A k \in DOMAIN stack[y] :
            stack[y][k].pid # p /\ stack[y][k].pid \in Pids
    <3> SUFFICES ASSUME NEW y \in Threads, NEW k \in DOMAIN stack[y]
                 PROVE  stack[y][k].pid # p /\ stack[y][k].pid \in Pids
      OBVIOUS
    <3>1. stack[y] \in Seq([pid : Pids, inst : Insts])
      BY <1>1 DEF TypeOK
    <3>2. stack[y][k] \in [pid : Pids, inst : Insts]
      BY <3>1, ElementOfSeq, LenProperties
    <3>3. valid[stack[y][k].pid]
      BY <1>1 DEF CallsWhatWasOpened
    <3> QED
      BY <2>1, <3>2, <3>3
  <2>14. CallsWhatWasOpened'
    BY <1>1, <2>2, <2>5, <2>13 DEF CallsWhatWasOpened
  <2>15. RunningCounts'
    <3>1. \A q \in Pids : Calls(q)' = Calls(q)
      BY <2>2 DEF Calls
    <3>2. Calls(p) = 0
      BY <2>1, <2>13, StackFacts, CallSetEmpty
    <3> QED
      BY <1>1, <2>5, <2>6, <3>1, <3>2 DEF RunningCounts
  <2>16. ExitedIsFreed'
    BY <1>1, <2>5, <2>6 DEF ExitedIsFreed
  <2> QED
    BY <2>9, <2>10, <2>11, <2>12, <2>14, <2>15, <2>16 DEF ProcessInv
<1> QED
  BY <1>2, <1>3 DEF process_new
----------------------------------------------------------------------------
LEMMA ProcessNextInv == ProcessInv /\ [Next]_vars => ProcessInv'
<1> SUFFICES ASSUME ProcessInv, [Next]_vars PROVE ProcessInv'
  OBVIOUS
<1>1. CASE UNCHANGED vars
  <2>1. TypeOK'
    BY <1>1 DEF ProcessInv, TypeOK, vars, tables
  <2>2. DescInv' /\ RegistryLive'
    BY <1>1 DEF ProcessInv, DescInv, RegistryLive, vars, tables
  <2> QED
    BY <1>1, <2>1, <2>2, QuietInv DEF vars, tables
<1>2. ASSUME NEW th \in Threads, Step(th) PROVE ProcessInv'
  <2>1. CASE \/ check_setlimit(th)
             \/ \E i \in Descs, f \in BOOLEAN : _msgsetfunc(th, i, f)
             \/ \E name \in Names \cup {NULL} : _msgregister(th, name)
             \/ \E i \in Descs : _msgunregister(th, i) \/ _msgclose(th, i) \/ _msgsend(th, i)
             \/ msg_unregister2(th)
    BY <2>1, CheckInv, SetfuncInv, RegisterInv, UnregisterInv, CloseInv, SendInv, Unregister2Inv
  <2>2. CASE \/ \E name \in Names : _msgopen(th, name)
             \/ _msgopen_2(th)
             \/ \E i, j \in Descs, myfunc \in BOOLEAN : _msgsenddesc(th, i, j, myfunc)
             \/ process_new(th)
    BY <2>2, OpenInv, Open2Inv, SenddescInv, NewInv
  <2>3. CASE \/ call_refused(th) \/ call_mapfail(th) \/ call_enter(th)
             \/ call_return_vmm(th) \/ call_return(th)
             \/ sys_exitprocess(th)
             \/ sys_setlimit(th)
    BY <2>3, RefusedInv, MapfailInv, EnterInv, ReturnVmmInv, ReturnInv, ExitInv, SetlimitInv
  <2> QED
    BY <1>2, <2>1, <2>2, <2>3 DEF Step
<1> QED
  BY <1>1, <1>2 DEF Next

(* The inductive invariant of the processes.                               *)
THEOREM ProcessInvariance == Spec => []ProcessInv
  BY ProcessInitInv, ProcessNextInv, PTL DEF Spec

(* Names lead to live processes, each to one.                              *)
THEOREM ProcessRegistryLive == Spec => []RegistryLive
<1>1. ProcessInv => RegistryLive
  BY DEF ProcessInv
<1> QED
  BY <1>1, ProcessInvariance, PTL

(* A thread enters the process its descriptor was opened for, and that     *)
(* process is not freed under it, however often pids are used again; the   *)
(* assertion of cleanup never fails.                                       *)
THEOREM ProcessCallsWhatWasOpened == Spec => []CallsWhatWasOpened
<1>1. ProcessInv => CallsWhatWasOpened
  BY DEF ProcessInv
<1> QED
  BY <1>1, ProcessInvariance, PTL

(* The count of running calls is right.                                    *)
THEOREM ProcessRunningCounts == Spec => []RunningCounts
<1>1. ProcessInv => RunningCounts
  BY DEF ProcessInv
<1> QED
  BY <1>1, ProcessInvariance, PTL

(* The last thread frees a process that exited.                            *)
THEOREM ProcessExitedIsFreed == Spec => []ExitedIsFreed
<1>1. ProcessInv => ExitedIsFreed
  BY DEF ProcessInv
<1> QED
  BY <1>1, ProcessInvariance, PTL
=============================================================================

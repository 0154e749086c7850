----------------------------- MODULE NvmeQueue -----------------------------
(***************************************************************************)
(* One I/O queue pair of the NVMe driver (drivers/nvme).  The guest has    *)
(* rings of its own.  Its commands are fetched into requests, submitted to *)
(* the host's ring under new identifiers, and their completions copied     *)
(* back; the VMM puts requests of its own on the same pair.  The guest's   *)
(* completion doorbell is translated to the host's ring.                   *)
(*                                                                         *)
(* Three contexts enter the driver: "subm" is the guest's submission       *)
(* doorbell, "comp" its completion doorbell, its interrupt mask registers  *)
(* and the interrupt, "host" a thread of the VMM with a request.  The      *)
(* guest serialises each of its rings.  A section under hub->lock is a     *)
(* step; the locks of the two rings are variables.  Nothing in the         *)
(* repository gives the host's rings another size than the guest's, or     *)
(* pauses a request.                                                       *)
(*                                                                         *)
(* External: the guest's driver and the controller, which completes what   *)
(* it has fetched in any order and stops at a full completion ring.        *)
(***************************************************************************)
EXTENDS Integers, Sequences, SequencesExt, FiniteSets, FiniteSetsExt

CONSTANTS
    N, M,               \* entries of the submission and completion rings
    FETCH,              \* most commands fetched at once (get_fetching_limit)
    MAXG, MAXH          \* bounds on the commands of the guest and of the VMM

ASSUME RingSizes ==
    /\ N \in Nat \ {0, 1} /\ M \in Nat \ {0, 1} /\ FETCH \in Nat \ {0}
    /\ MAXG \in Nat /\ MAXH \in Nat

None == 0
Guest == 1..MAXG        \* the guest's commands; the VMM's are negative
Host == {-k : k \in 1..MAXH}

VARIABLES
    issued, gsq, gtail, gsqhd,  \* guest: commands, ring, tail, known head
    gcq, gcqhead, gcqphase,     \* guest: completion ring, head and phase
    answered,                   \* answers the guest has taken per command
    g_tail, g_new_tail,         \* g_subm_queue_info: cur_pos, new_pos
    g_cur_tail, n_fetchable,    \* of the fetch; at g_tail and 0 between two
    g_head, g_new_head, g_phase,\* g_comp_queue_info
    queuing_g, queuing_h,       \* requests in the VMM
    req_slot, n_slots_used, next_slot,
    waiting_g, waiting_h,       \* hub: n_waiting_g_reqs, n_waiting_h_reqs
    not_ack_g, not_ack_h,       \* hub: n_not_ack_g_reqs, n_not_ack_h_reqs
    hsq, h_tail, h_head,        \* h_subm_queue_info and its ring
    hcq, h_cqhead, h_phase,     \* h_comp_queue_info and its ring
    last_write,                 \* the completion doorbell
    c_tail, c_head, inflight,   \* controller: doorbell, head, commands
    c_cqtail, c_phase,
    executed,                   \* requests the controller has completed
    pc, subm_lock, comp_lock,
    creq, cent,                 \* request and entry in process_comp_queue
    first,                      \* first_g_comp and first_h_comp
    hosts                       \* requests the VMM has made

guestVars == <<issued, gsq, gtail, gsqhd, gcqhead, gcqphase, answered>>
gq == <<g_tail, g_new_tail, g_cur_tail, n_fetchable>>
gc == <<gcq, g_head, g_phase>>
queues == <<queuing_g, queuing_h>>
slots == <<req_slot, n_slots_used, next_slot>>
counts == <<waiting_g, waiting_h, not_ack_g, not_ack_h>>
hq == <<hsq, h_tail, h_head>>
hc == <<h_cqhead, h_phase>>
ctrl == <<c_head, inflight, hcq, c_cqtail, c_phase, executed>>
proc == <<comp_lock, creq, cent, first>>
vars == <<guestVars, gq, gc, g_new_head, queues, slots, counts, hq, hc, last_write, c_tail, ctrl,
          pc, subm_lock, proc, hosts>>

Contexts == {"subm", "comp", "host"}
NoEntry == [cid |-> 0, phase |-> 0, head |-> 0, req |-> None]

Init ==
    /\ issued = 0 /\ gsq = [i \in 0..N-1 |-> None] /\ gtail = 0 /\ gsqhd = 0
    /\ gcq = [i \in 0..M-1 |-> NoEntry] /\ gcqhead = 0 /\ gcqphase = 1
    /\ answered = [k \in Guest |-> 0]
    /\ g_tail = 0 /\ g_new_tail = 0 /\ g_cur_tail = 0 /\ n_fetchable = 0
    /\ g_head = 0 /\ g_new_head = 0 /\ g_phase = 1
    /\ queuing_g = <<>> /\ queuing_h = <<>>
    /\ req_slot = [i \in 0..N-1 |-> None] /\ n_slots_used = 0 /\ next_slot = 0
    /\ waiting_g = 0 /\ waiting_h = 0 /\ not_ack_g = 0 /\ not_ack_h = 0
    /\ hsq = [i \in 0..N-1 |-> <<0, None>>] /\ h_tail = 0 /\ h_head = 0
    /\ hcq = [i \in 0..M-1 |-> NoEntry] /\ h_cqhead = 0 /\ h_phase = 1 /\ last_write = 0
    /\ c_tail = 0 /\ c_head = 0 /\ inflight = {} /\ c_cqtail = 0 /\ c_phase = 1
    /\ executed = {}
    /\ pc = [c \in Contexts |-> "idle"] /\ subm_lock = "nobody" /\ comp_lock = "nobody"
    /\ creq = None /\ cent = NoEntry /\ first = <<>> /\ hosts = 0

Goto(c, from, to) == pc[c] = from /\ pc' = [pc EXCEPT ![c] = to]

\* Positions of a ring of n entries: the next one, how far one is behind
\* another, and those from one up to another.
Inc(p, n) == (p + 1) % n
Dist(from, to, n) == (to + n - from) % n
Window(from, to, n) == {p \in 0..n-1 : Dist(from, p, n) < Dist(from, to, n)}
Flip(phase, wraps) == IF wraps THEN 1 - phase ELSE phase
----------------------------------------------------------------------------
(* nvme_submit_queuing_requests.                                           *)

\* The VMM's requests and the guest's are not mixed.
\* Mutant: the VMM's request does not wait for the guest's acknowledgements.
dequeue_host_req_Mixed == waiting_h > 0
dequeue_host_req == waiting_h > 0 /\ not_ack_g = 0

Room == Min({N - 1 - n_slots_used, Dist(Inc(h_tail, N), h_head, N)})

Dequeued ==
    LET q == IF dequeue_host_req THEN queuing_h ELSE queuing_g
    IN IF ~dequeue_host_req /\ not_ack_h > 0 THEN <<>>
       ELSE SubSeq(q, 1, Min({Room, Len(q)}))

\* get_free_slot, n times: the first n free slots from next_slot on.
get_free_slots(slot, n) ==
    /\ \A i \in 1..n : req_slot[slot[i]] = None
    /\ \A i \in 1..n, s \in 0..N-1 :
          req_slot[s] = None /\ Dist(next_slot, s, N) < Dist(next_slot, slot[i], N)
            <=> \E j \in 1..i-1 : slot[j] = s

submit ==
    LET d == Dequeued
        n == Len(d)
    IN \E slot \in [1..n -> 0..N-1] :
       /\ get_free_slots(slot, n)
       /\ req_slot' = [s \in 0..N-1 |-> IF \E i \in 1..n : slot[i] = s
                                       THEN d[CHOOSE i \in 1..n : slot[i] = s] ELSE req_slot[s]]
       /\ next_slot' = IF n = 0 THEN next_slot ELSE Inc(slot[n], N)
       /\ hsq' = [p \in 0..N-1 |-> LET i == Dist(h_tail, p, N) + 1 IN
                                   IF i <= n THEN <<slot[i], d[i]>> ELSE hsq[p]]
       /\ h_tail' = (h_tail + n) % N /\ c_tail' = h_tail'
       /\ n_slots_used' = n_slots_used + n
       /\ IF dequeue_host_req
          THEN /\ queuing_h' = SubSeq(queuing_h, n + 1, Len(queuing_h))
               /\ not_ack_h' = not_ack_h + n
               /\ UNCHANGED <<queuing_g, not_ack_g>>
          ELSE /\ queuing_g' = SubSeq(queuing_g, n + 1, Len(queuing_g))
               /\ not_ack_g' = not_ack_g + n
               /\ UNCHANGED <<queuing_h, not_ack_h>>
       /\ UNCHANGED <<h_head, waiting_g, waiting_h>>

\* nvme_register_request and nvme_submit_queuing_requests for a request of
\* the VMM (do_submit_requests).
register_host ==
    /\ Goto("host", "idle", "submit") /\ hosts < MAXH
    /\ hosts' = hosts + 1
    /\ queuing_h' = Append(queuing_h, -hosts') /\ waiting_h' = waiting_h + 1
    /\ UNCHANGED <<guestVars, gq, gc, g_new_head, queuing_g, slots, waiting_g, not_ack_g,
                   not_ack_h, hq, hc, last_write, c_tail, ctrl, subm_lock, proc>>

submit_host ==
    /\ Goto("host", "submit", "idle") /\ submit
    /\ UNCHANGED <<guestVars, gq, gc, g_new_head, hc, last_write, ctrl, subm_lock, proc, hosts>>

\* update_new_tail_pos; nvme_try_process_requests follows under the lock of
\* the queue.
ring_sq ==
    /\ g_new_tail # gtail /\ subm_lock = "nobody"
    /\ Goto("subm", "idle", "fetch")
    /\ subm_lock' = "subm" /\ g_new_tail' = gtail /\ n_fetchable' = FETCH
    /\ UNCHANGED <<guestVars, g_tail, g_cur_tail, gc, g_new_head, queues, slots, counts, hq, hc,
                   last_write, c_tail, ctrl, proc, hosts>>

\* fetch_requests_from_guest: one request, registered; then the position,
\* which the answers to the guest carry as its head pointer.
Fetchable == g_cur_tail # g_new_tail /\ n_fetchable # 0
Fetching(c) == pc[c] \in {"fetch", "again"}

fetch(c) ==
    /\ Fetching(c) /\ Fetchable
    /\ queuing_g' = Append(queuing_g, gsq[g_cur_tail]) /\ waiting_g' = waiting_g + 1
    /\ g_cur_tail' = Inc(g_cur_tail, N) /\ n_fetchable' = n_fetchable - 1
    /\ UNCHANGED <<guestVars, g_tail, g_new_tail, gc, g_new_head, queuing_h, slots, waiting_h,
                   not_ack_g, not_ack_h, hq, hc, last_write, c_tail, ctrl, pc, subm_lock, proc,
                   hosts>>

move_tail(c) ==
    /\ Fetching(c) /\ ~Fetchable /\ g_tail # g_cur_tail
    /\ g_tail' = g_cur_tail
    /\ UNCHANGED <<guestVars, g_new_tail, g_cur_tail, n_fetchable, gc, g_new_head, queues, slots,
                   counts, hq, hc, last_write, c_tail, ctrl, pc, subm_lock, proc, hosts>>

\* The doorbell goes on with nvme_process_all_comp_queues; the same call at
\* the end of that function is its last.
submit_guest(c) ==
    /\ Fetching(c) /\ ~Fetchable /\ g_tail = g_cur_tail
    /\ pc' = [pc EXCEPT ![c] = IF @ = "fetch" THEN "comp" ELSE "idle"]
    /\ submit
    /\ subm_lock' = "nobody" /\ n_fetchable' = 0
    /\ UNCHANGED <<guestVars, g_tail, g_new_tail, g_cur_tail, gc, g_new_head, hc, last_write,
                   ctrl, proc, hosts>>
----------------------------------------------------------------------------
(* The completion doorbell.                                                *)

\* nvme_update_comp_db
doorbell(hh, gh, new) == Dist(Dist(new, gh, M), hh, M)

n_ack_reqs == Dist(g_new_head, gcqhead, M)
Ignored == n_ack_reqs = 0 \/ not_ack_g < n_ack_reqs

\* update_comp_db
ring_cq ==
    /\ gcqhead # g_new_head
    /\ Goto("comp", "idle", "comp")
    /\ IF Ignored
       THEN UNCHANGED <<not_ack_g, g_new_head, last_write>>
       ELSE /\ not_ack_g' = not_ack_g - n_ack_reqs
            /\ g_new_head' = gcqhead
            /\ last_write' = doorbell(h_cqhead, g_head, gcqhead)
    /\ UNCHANGED <<guestVars, gq, gc, queues, slots, waiting_g, waiting_h, not_ack_h, hq, hc,
                   c_tail, ctrl, subm_lock, proc, hosts>>

\* The interrupt, or a register whose access looks for completions.
interrupt ==
    /\ Goto("comp", "idle", "comp")
    /\ UNCHANGED <<guestVars, gq, gc, g_new_head, queues, slots, counts, hq, hc, last_write,
                   c_tail, ctrl, subm_lock, proc, hosts>>
----------------------------------------------------------------------------
(* process_comp_queue.                                                     *)

lock_comp_queue(c) ==
    /\ Goto(c, "comp", "loop") /\ comp_lock = "nobody" /\ comp_lock' = c
    /\ UNCHANGED <<guestVars, gq, gc, g_new_head, queues, slots, counts, hq, hc, last_write,
                   c_tail, ctrl, subm_lock, creq, cent, first, hosts>>

\* Mutant: the phase is not compared.
Posted_NoPhase == hcq[h_cqhead] # NoEntry
Posted == hcq[h_cqhead].phase = h_phase

\* get_request
get_request(c) ==
    /\ Posted /\ Goto(c, "loop", "deliver")
    /\ cent' = hcq[h_cqhead] /\ creq' = req_slot[cent'.cid]
    /\ req_slot' = [req_slot EXCEPT ![cent'.cid] = None]
    /\ n_slots_used' = n_slots_used - 1
    /\ UNCHANGED <<guestVars, gq, gc, g_new_head, queues, next_slot, counts, hq, hc, last_write,
                   c_tail, ctrl, subm_lock, comp_lock, first, hosts>>

\* update_h_subm_cur_head: what the controller has fetched becomes a flush.
\* Mutant: the head stays.
update_h_subm_cur_head_No == hsq' = hsq /\ h_head' = h_head
update_h_subm_cur_head ==
    /\ hsq' = [i \in 0..N-1 |-> IF i \in Window(h_head, cent.head, N)
                                THEN <<hsq[i][1], None>> ELSE hsq[i]]
    /\ h_head' = cent.head

\* The answer carries the guest's identifier and phase.
\* Mutants: it keeps the identifier of the host's ring; its head is the
\* guest's doorbell.
Answer_HostId == [cid |-> cent.cid, phase |-> g_phase, head |-> g_tail, req |-> creq]
Answer_NewTail == [cid |-> creq, phase |-> g_phase, head |-> g_new_tail, req |-> creq]
Answer == [cid |-> creq, phase |-> g_phase, head |-> g_tail, req |-> creq]

deliver(c) ==
    /\ Goto(c, "deliver", "free")
    /\ h_cqhead' = Inc(h_cqhead, M) /\ h_phase' = Flip(h_phase, h_cqhead' = 0)
    /\ IF creq \in Guest
       THEN /\ IF first = <<>>
               THEN first' = <<g_head, Answer>> /\ gcq' = gcq
               ELSE gcq' = [gcq EXCEPT ![g_head] = Answer] /\ first' = first
            /\ g_head' = Inc(g_head, M) /\ g_phase' = Flip(g_phase, g_head' = 0)
            /\ UNCHANGED <<not_ack_h, last_write>>
       ELSE /\ not_ack_h' = not_ack_h - 1
            /\ last_write' = doorbell(h_cqhead', g_head, g_new_head)
            /\ UNCHANGED <<gc, first>>
    /\ update_h_subm_cur_head
    /\ UNCHANGED <<guestVars, gq, g_new_head, queues, slots, waiting_g, waiting_h, not_ack_g,
                   h_tail, c_tail, ctrl, subm_lock, comp_lock, creq, cent, hosts>>

\* nvme_free_request
nvme_free_request(c) ==
    /\ Goto(c, "free", "loop")
    /\ IF creq \in Guest
       THEN waiting_g' = waiting_g - 1 /\ waiting_h' = waiting_h
       ELSE waiting_h' = waiting_h - 1 /\ waiting_g' = waiting_g
    /\ creq' = None /\ cent' = NoEntry
    /\ UNCHANGED <<guestVars, gq, gc, g_new_head, queues, slots, not_ack_g, not_ack_h, hq, hc,
                   last_write, c_tail, ctrl, subm_lock, comp_lock, first, hosts>>

\* The first answer is shown when the others are in place.
show_first(c) ==
    /\ ~Posted /\ Goto(c, "loop", "relock")
    /\ gcq' = IF first = <<>> THEN gcq ELSE [gcq EXCEPT ![first[1]] = first[2]]
    /\ first' = <<>> /\ comp_lock' = "nobody"
    /\ UNCHANGED <<guestVars, gq, g_head, g_phase, g_new_head, queues, slots, counts,
                   hq, hc, last_write, c_tail, ctrl, subm_lock, creq, cent, hosts>>

lock_subm_queue(c) ==
    /\ Goto(c, "relock", "again") /\ subm_lock = "nobody" /\ subm_lock' = c
    /\ n_fetchable' = FETCH
    /\ UNCHANGED <<guestVars, g_tail, g_new_tail, g_cur_tail, gc, g_new_head, queues, slots,
                   counts, hq, hc, last_write, c_tail, ctrl, proc, hosts>>
----------------------------------------------------------------------------
(* The guest: issues commands and takes answers.                           *)

rest == <<gq, gc, g_new_head, queues, slots, counts, hq, hc, last_write, c_tail, pc, subm_lock,
          proc, hosts>>

issue ==
    /\ pc["subm"] = "idle" /\ issued < MAXG /\ Inc(gtail, N) # gsqhd
    /\ issued' = issued + 1
    /\ gsq' = [gsq EXCEPT ![gtail] = issued']
    /\ gtail' = Inc(gtail, N)
    /\ UNCHANGED <<gsqhd, gcqhead, gcqphase, answered, ctrl, rest>>

take_answer ==
    LET a == gcq[gcqhead] IN
    /\ pc["comp"] = "idle" /\ a.phase = gcqphase
    /\ answered' = [answered EXCEPT ![a.cid] = @ + 1]
    /\ gsqhd' = a.head
    /\ gcqhead' = Inc(gcqhead, M) /\ gcqphase' = Flip(gcqphase, gcqhead' = 0)
    /\ UNCHANGED <<issued, gsq, gtail, ctrl, rest>>

(* The controller.                                                         *)
ctrl_fetch ==
    /\ c_head # c_tail
    /\ inflight' = inflight \cup {hsq[c_head]} /\ c_head' = Inc(c_head, N)
    /\ UNCHANGED <<guestVars, hcq, c_cqtail, c_phase, executed, rest>>

ctrl_complete ==
    /\ Inc(c_cqtail, M) # last_write
    /\ \E e \in inflight :
          /\ hcq' = [hcq EXCEPT ![c_cqtail] = [cid |-> e[1], phase |-> c_phase, head |-> c_head,
                                               req |-> e[2]]]
          /\ inflight' = inflight \ {e}
          /\ executed' = executed \cup {e[2]}
    /\ c_cqtail' = Inc(c_cqtail, M) /\ c_phase' = Flip(c_phase, c_cqtail' = 0)
    /\ UNCHANGED <<guestVars, c_head, rest>>
----------------------------------------------------------------------------
Driver(c) ==
    \/ fetch(c) \/ move_tail(c) \/ submit_guest(c) \/ lock_comp_queue(c) \/ get_request(c)
    \/ deliver(c) \/ nvme_free_request(c) \/ show_first(c) \/ lock_subm_queue(c)

Next ==
    \/ register_host \/ submit_host \/ ring_sq \/ ring_cq \/ interrupt
    \/ \E c \in {"subm", "comp"} : Driver(c)
    \/ issue \/ take_answer \/ ctrl_fetch \/ ctrl_complete

Spec == Init /\ [][Next]_vars

(* The processors go on and get their locks; the guest rings its doorbells *)
(* and takes its answers; the controller completes its commands and        *)
(* interrupts as long as a completion is not acknowledged.                 *)
Unacknowledged == last_write # c_cqtail
Fairness ==
    /\ \A c \in {"subm", "comp"} : SF_vars(Driver(c))
    /\ SF_vars(ring_sq) /\ SF_vars(ring_cq) /\ SF_vars(take_answer) /\ WF_vars(submit_host)
    /\ WF_vars(ctrl_fetch) /\ SF_vars(ctrl_complete)
    /\ SF_vars(Unacknowledged /\ interrupt)
FairSpec == Spec /\ Fairness
----------------------------------------------------------------------------
TypeOK ==
    /\ issued \in 0..MAXG /\ hosts \in 0..MAXH
    /\ gtail \in 0..N-1 /\ gsqhd \in 0..N-1 /\ g_tail \in 0..N-1 /\ g_new_tail \in 0..N-1
    /\ g_cur_tail \in 0..N-1 /\ n_fetchable \in 0..FETCH
    /\ gcqhead \in 0..M-1 /\ g_head \in 0..M-1 /\ g_new_head \in 0..M-1
    /\ h_tail \in 0..N-1 /\ h_head \in 0..N-1 /\ h_cqhead \in 0..M-1 /\ last_write \in 0..M-1
    /\ {gcqphase, g_phase, h_phase, c_phase} \subseteq {0, 1}
    /\ n_slots_used \in 0..N-1 /\ next_slot \in 0..N-1
    /\ waiting_g \in 0..MAXG /\ waiting_h \in 0..MAXH
    /\ not_ack_g \in 0..MAXG /\ not_ack_h \in 0..MAXH
    /\ Range(req_slot) \subseteq Guest \cup Host \cup {None}
    /\ pc \in [Contexts -> {"idle", "fetch", "submit", "comp", "loop", "deliver", "free", "relock",
                            "again"}]

(* The identifier of every command at the controller, not fetched, in      *)
(* execution or in a completion not looked at, is the slot of its request, *)
(* and no other slot is in use: a completion finds the request it is for,  *)
(* and no command in the ring is overwritten before it is fetched.         *)
CommandsOwnSlots ==
    LET atController == {hsq[i] : i \in Window(c_head, c_tail, N)} \cup inflight
                        \cup {<<hcq[i].cid, hcq[i].req>> : i \in Window(h_cqhead, c_cqtail, M)
                                  \ (IF creq # None /\ pc[comp_lock] = "deliver"
                                     THEN {h_cqhead} ELSE {})}
        inUse == {<<s, req_slot[s]>> : s \in {i \in 0..N-1 : req_slot[i] # None}}
    IN atController = inUse /\ Cardinality(inUse) = n_slots_used

(* Each command of the guest is answered at most once, and only after the  *)
(* controller has completed it.                                            *)
AnsweredOnce ==
    \A k \in Guest : answered[k] <= 1 /\ (answered[k] = 1 => k \in executed)

(* The VMM acknowledges no completion of a guest's command before the      *)
(* guest does ("BitVisor does not write a completion doorbell on behalf of *)
(* the guest"): what the controller takes as processed and not             *)
(* acknowledged are the guest's, and they are the ones it has not          *)
(* acknowledged.                                                           *)
DoorbellIsGuests ==
    /\ \A i \in Window(last_write, h_cqhead, M) : hcq[i].req \in Guest
    /\ Cardinality(Window(last_write, h_cqhead, M)) = Dist(g_new_head, g_head, M)

(* The guest's own head pointer (g_subm_cur_tail): the place of a          *)
(* command that is not fetched yet is never one the guest takes for free,  *)
(* although answers are given while another processor fetches.             *)
GuestRingKept == Window(g_cur_tail, gtail, N) \subseteq Window(gsqhd, gtail, N)

(* Everyone is served when the guest makes a pause, although the VMM's     *)
(* requests and the guest's keep each other back and a fetch takes only a  *)
(* part of the ring: again and again every command of the guest is         *)
(* answered, and every request of the VMM executed, its callback run and   *)
(* the request freed.                                                      *)
EveryoneServed ==
    []<>(/\ \A k \in 1..issued : answered[k] = 1
         /\ \A k \in 1..hosts : -k \in executed
         /\ waiting_h = 0)
=============================================================================

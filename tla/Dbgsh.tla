------------------------------- MODULE Dbgsh -------------------------------
(***************************************************************************)
(* The debug shell's channel to the guest (core/vmmcall_dbgsh.c) and the   *)
(* program at the other end (tools/dbgsh/dbgsh.c).  The shell's thread     *)
(* puts a character, or 0 to ask for one, in s and waits until the guest   *)
(* has put its answer in r and taken s away; the program calls "dbgsh"     *)
(* with its answer, or with -1, and gets s.  The two run on different      *)
(* processors and synchronise by s, r and the thread's state only.         *)
(*                                                                         *)
(* One program talks to the shell at a time.  Characters written and typed *)
(* are numbered.                                                           *)
(***************************************************************************)
EXTENDS Integers

CONSTANTS MAXOUT, MAXIN         \* bounds on the characters each way

Nothing == -1
Ask == 0                        \* also the answer to a character
End == 1000                     \* 0x100 | '\n': the shell has finished

VARIABLES
    s, r, stopped,
    tpc, state,         \* the thread: where it is, thread_state in thread.c
    sending,            \* the argument of dbgsh_send_to_guest
    gpc, arg,           \* the program: where it is, argument of the call
    out, in,            \* characters written by the shell, typed by the user
    got                 \* characters the shell got

thread == <<tpc, sending, out, got>>
guest == <<gpc, arg, in>>
vars == <<s, r, stopped, state, thread, guest>>

Init ==
    /\ s = Nothing /\ r = Nothing /\ stopped = FALSE
    /\ tpc = "shell" /\ state = "none" /\ sending = Nothing
    /\ gpc = "call" /\ arg = Nothing
    /\ out = 0 /\ in = 0 /\ got = 0
----------------------------------------------------------------------------
\* The thread.  dbgsh_ttyout_msghandler, dbgsh_ttyin_msghandler and the end
\* of debug_shell call dbgsh_send_to_guest.
send(c) ==
    /\ tpc = "shell" /\ state = "run" /\ tpc' = "test"
    /\ s' = c /\ sending' = c
    /\ UNCHANGED <<r, stopped, state, got, guest>>

ttyout == out < MAXOUT /\ out' = out + 1 /\ send(out')
ttyin == got < MAXIN /\ out' = out /\ send(Ask)
finish == out' = out /\ send(End)

\* while (r == -1 || s != -1), negated
Answered == r # Nothing /\ s = Nothing

test ==
    /\ tpc = "test" /\ tpc' = IF Answered THEN "take" ELSE "stop"
    /\ UNCHANGED <<s, r, stopped, state, sending, out, got, guest>>

\* Under dbgsh_lock2: stopped = true; thread_will_stop ().
will_stop ==
    /\ tpc = "stop" /\ tpc' = "schedule"
    /\ stopped' = TRUE /\ state' = "will_stop"
    /\ UNCHANGED <<s, r, sending, out, got, guest>>

\* schedule: a thread that will stop is run again only after a wake-up.
schedule ==
    /\ tpc = "schedule"
    /\ \/ state = "will_stop" /\ state' = "stop" /\ tpc' = tpc
       \/ state = "run" /\ state' = state /\ tpc' = "test"
    /\ UNCHANGED <<s, r, stopped, sending, out, got, guest>>

\* Return r.  dbgsh_ttyin_msghandler asks again when it gets 0.
take ==
    /\ tpc = "take" /\ tpc' = "shell"
    /\ r' = Nothing /\ sending' = Nothing
    /\ got' = IF sending = Ask /\ r # Ask THEN got + 1 ELSE got
    /\ UNCHANGED <<s, stopped, state, out, guest>>
----------------------------------------------------------------------------
\* The call "dbgsh" (dbgsh_enabled), made by the program's loop.
call ==
    /\ gpc = "call" /\ gpc' = IF arg = Nothing THEN "ret" ELSE "write_r"
    /\ state' = IF state = "none" THEN "run" ELSE state
    /\ UNCHANGED <<s, r, stopped, thread, arg, in>>

write_r ==
    /\ gpc = "write_r" /\ gpc' = "write_s" /\ r' = arg
    /\ UNCHANGED <<s, stopped, state, thread, arg, in>>

write_s ==
    /\ gpc = "write_s" /\ gpc' = "wakeup" /\ s' = Nothing
    /\ UNCHANGED <<r, stopped, state, thread, arg, in>>

\* Under dbgsh_lock2: if (stopped) thread_wakeup (tid).
wakeup ==
    /\ gpc = "wakeup" /\ gpc' = "ret"
    /\ state' = IF stopped THEN "run" ELSE state
    /\ UNCHANGED <<s, r, stopped, thread, arg, in>>

\* The program looks at what the call returned: it types, prints, or leaves
\* after one more call, and may then be started again.
ret ==
    /\ gpc = "ret" /\ gpc' = "call"
    /\ \/ s = Nothing /\ arg' = Nothing /\ UNCHANGED in
       \/ s = Ask /\ in < MAXIN /\ in' = in + 1 /\ arg' = in'
       \/ s \in {End} \cup 1..MAXOUT /\ arg' = Ask /\ UNCHANGED in
    /\ UNCHANGED <<s, r, stopped, state, thread>>

Thread == ttyout \/ ttyin \/ finish \/ test \/ will_stop \/ schedule \/ take
Guest == call \/ write_r \/ write_s \/ wakeup \/ ret
Next == Thread \/ Guest

Spec == Init /\ [][Next]_vars

(* Both processors go on; the user types.                                  *)
FairSpec == Spec /\ WF_vars(Thread) /\ WF_vars(Guest)
----------------------------------------------------------------------------
TypeOK ==
    /\ s \in {Nothing, Ask, End} \cup 1..MAXOUT /\ r \in {Nothing, Ask} \cup 1..MAXIN
    /\ stopped \in BOOLEAN /\ state \in {"none", "run", "will_stop", "stop"}
    /\ tpc \in {"shell", "test", "stop", "schedule", "take"}
    /\ gpc \in {"call", "write_r", "write_s", "wakeup", "ret"}
    /\ out \in 0..MAXOUT /\ in \in 0..MAXIN /\ got \in 0..in

(* "Debug shell access from guest": an answer of the guest gets to the     *)
(* shell.                                                                  *)
AnswerArrives == r # Nothing ~> r = Nothing
=============================================================================

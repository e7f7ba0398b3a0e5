------------------------------ MODULE PoolCtl ------------------------------
(***************************************************************************)
(* How other threads command the pool threads of glbd (glb_pool.c): the    *)
(* listener hands over a new connection, the control and the watchdog      *)
(* threads drop a destination or collect statistics, main() shuts down. A  *)
(* command is written to the pool's pipe, and the sender then waits on the *)
(* pool's condition variable for the pool thread's signal.                 *)
(*                                                                         *)
(* pool_send_ctl() holds the pool's lock from the write to the wait, so    *)
(* both are one step. The pool thread reads and carries out a command      *)
(* without that lock and takes it only to signal.                          *)
(***************************************************************************)
EXTENDS Integers, Sequences, FiniteSets

CONSTANTS
    Control,        \* the thread that carries out the administrator's requests
    Watchdog,       \* the thread that watches the destinations
    Listener,       \* the thread that adds connections
    Main,           \* the thread that shuts the pools down
    NPools,         \* cnf->n_threads
    Spurious,       \* whether pthread_cond_wait() ever returns by itself
    MaxBacklog      \* spurious wakeups stop at so many unread commands (bound)

Callers == {Control, Watchdog, Listener, Main}
Pools == 1..NPools
Codes == {"ADD_CONN", "DROP_DST", "STATS", "SHUTDOWN"}

ASSUME PoolCtlAssumption ==
    /\ Control \notin {Watchdog, Listener, Main}
    /\ Watchdog \notin {Listener, Main} /\ Listener # Main
    /\ NPools \in Nat \ {0}
    /\ Spurious \in BOOLEAN
    /\ MaxBacklog \in Nat

VARIABLES
    pc,         \* what each caller is doing
    at,         \* the pool it is dealing with
    code,       \* the command it is sending
    owner,      \* the callers that hold the lock of glb_pool_t: at most one
    phase,      \* main(): "running", then "joined" with the other callers gone,
                \* then "destroying" the pools
    pipe,       \* the commands in each pool's pipe, with their senders
    handling,   \* the command each pool thread has read and not yet confirmed
    shutdown    \* the pool thread has left its loop

vars == <<pc, at, code, owner, phase, pipe, handling, shutdown>>
callerVars == <<pc, at, code, owner, phase>>
poolVars == <<pipe, handling, shutdown>>

CallerStates == {"idle", "send", "waiting", "woken"}
Ctl == [from : Callers, code : Codes]

Init ==
    /\ pc = [s \in Callers |-> "idle"]
    /\ at = [s \in Callers |-> 1]
    /\ code = [s \in Callers |-> "STATS"]
    /\ owner = {}
    /\ phase = "running"
    /\ pipe = [p \in Pools |-> <<>>]
    /\ handling = [p \in Pools |-> <<>>]
    /\ shutdown = [p \in Pools |-> FALSE]

-----------------------------------------------------------------------------
(* The callers                                                             *)

\* glb_pool_add_conn() up to the call of pool_send_ctl(): the lock is held only
\* while the pool is looked for. pool_get_pool() compares counters that the pool
\* threads change meanwhile, so any pool may come out as the least busy one.
AddConn ==
    /\ pc[Listener] = "idle" /\ phase = "running" /\ owner = {}
    /\ \E p \in Pools : at' = [at EXCEPT ![Listener] = p]
    /\ pc' = [pc EXCEPT ![Listener] = "send"]
    /\ code' = [code EXCEPT ![Listener] = "ADD_CONN"]
    /\ UNCHANGED <<owner, phase, poolVars>>

\* pool_bcast_ctl(): takes the lock and starts with the first pool.
pool_bcast_ctl(s, c) ==
    /\ pc[s] = "idle" /\ owner = {}
    /\ owner' = {s}
    /\ pc' = [pc EXCEPT ![s] = "send"]
    /\ at' = [at EXCEPT ![s] = 1]
    /\ code' = [code EXCEPT ![s] = c]
    /\ UNCHANGED poolVars

\* glb_pool_drop_dst() and glb_pool_print_stats().
Command(s, c) ==
    /\ phase = "running"
    /\ pool_bcast_ctl(s, c)
    /\ UNCHANGED phase

\* A faulty variant: the listener is not joined (glb_listener_destroy() gives up
\* when it cannot connect to the listening socket).
Join_NotListener ==
    /\ phase = "running" /\ \A s \in Callers \ {Listener} : pc[s] = "idle"
    /\ phase' = "joined"
    /\ UNCHANGED <<pc, at, code, owner, poolVars>>

\* main() has joined the listener, the control thread and the watchdog. That
\* glb_listener_destroy() manages to join the listener is assumed.
Join ==
    /\ phase = "running" /\ \A s \in Callers : pc[s] = "idle"
    /\ phase' = "joined"
    /\ UNCHANGED <<pc, at, code, owner, poolVars>>

\* wdog_dst_cleanup(), called by main(): drop what the watchdog still watched.
Cleanup ==
    /\ phase = "joined"
    /\ pool_bcast_ctl(Main, "DROP_DST")
    /\ UNCHANGED phase

\* glb_pool_destroy()
Destroy ==
    /\ phase = "joined"
    /\ pool_bcast_ctl(Main, "SHUTDOWN")
    /\ phase' = "destroying"

\* pool_send_ctl(): write the command and wait.
SendCtl(s) ==
    /\ pc[s] = "send"
    /\ pipe' = [pipe EXCEPT ![at[s]] = Append(@, [from |-> s, code |-> code[s]])]
    /\ pc' = [pc EXCEPT ![s] = "waiting"]
    /\ UNCHANGED <<at, code, owner, phase, handling, shutdown>>

\* pthread_cond_wait() may return without a signal.
SpuriousWakeup(s) ==
    /\ Spurious /\ pc[s] = "waiting" /\ Len(pipe[at[s]]) < MaxBacklog
    /\ pc' = [pc EXCEPT ![s] = "woken"]
    /\ UNCHANGED <<at, code, owner, phase, poolVars>>

\* A faulty variant: the loop over the pools runs one too far.
Return_TooFar(s) ==
    /\ pc[s] = "woken" /\ s \in owner
    /\ at' = [at EXCEPT ![s] = @ + 1]
    /\ pc' = [pc EXCEPT ![s] = "send"]
    /\ UNCHANGED <<code, owner, phase, poolVars>>

\* pool_send_ctl() returns: a broadcast goes on to the next pool or ends, and
\* what the call held is gone.
Return(s) ==
    /\ pc[s] = "woken"
    /\ IF s \in owner /\ at[s] < NPools
       THEN /\ at' = [at EXCEPT ![s] = @ + 1]
            /\ pc' = [pc EXCEPT ![s] = "send"]
            /\ UNCHANGED <<code, owner>>
       ELSE /\ pc' = [pc EXCEPT ![s] = "idle"]
            /\ at' = [at EXCEPT ![s] = 1]
            /\ code' = [code EXCEPT ![s] = "STATS"]
            /\ owner' = owner \ {s}
    /\ UNCHANGED <<phase, poolVars>>

-----------------------------------------------------------------------------
(* The pool threads                                                        *)

\* pool_handle_ctl(): read a command ...
ReadCtl(p) ==
    /\ ~shutdown[p] /\ handling[p] = <<>> /\ pipe[p] # <<>>
    /\ handling' = [handling EXCEPT ![p] = <<Head(pipe[p])>>]
    /\ pipe' = [pipe EXCEPT ![p] = Tail(@)]
    /\ UNCHANGED <<callerVars, shutdown>>

Waiting(p) == {s \in Callers : pc[s] = "waiting" /\ at[s] = p}

\* A faulty variant: the signal never comes.
Signal_None(p) == UNCHANGED pc

\* pthread_cond_signal() wakes one of the threads that wait, if there is one.
Signal(p) ==
    \/ Waiting(p) = {} /\ UNCHANGED pc
    \/ \E s \in Waiting(p) : pc' = [pc EXCEPT ![s] = "woken"]

\* A faulty variant: a pool that shuts down leaves without a word.
FinishCtl_SilentShutdown(p) ==
    /\ handling[p] # <<>>
    /\ shutdown' = [shutdown EXCEPT ![p] = handling[p][1].code = "SHUTDOWN"]
    /\ handling' = [handling EXCEPT ![p] = <<>>]
    /\ IF shutdown'[p] THEN UNCHANGED pc ELSE Signal(p)
    /\ UNCHANGED <<at, code, owner, phase, pipe>>

\* ... carry it out, and signal.
FinishCtl(p) ==
    /\ handling[p] # <<>>
    /\ shutdown' = [shutdown EXCEPT ![p] = handling[p][1].code = "SHUTDOWN"]
    /\ handling' = [handling EXCEPT ![p] = <<>>]
    /\ Signal(p)
    /\ UNCHANGED <<at, code, owner, phase, pipe>>

-----------------------------------------------------------------------------

Next ==
    \/ AddConn
    \/ Command(Control, "STATS")
    \/ \E s \in {Control, Watchdog} : Command(s, "DROP_DST")
    \/ Join
    \/ Cleanup
    \/ Destroy
    \/ \E s \in Callers : SendCtl(s)
    \/ \E s \in Callers : SpuriousWakeup(s)
    \/ \E s \in Callers : Return(s)
    \/ \E p \in Pools : ReadCtl(p)
    \/ \E p \in Pools : FinishCtl(p)

Spec == Init /\ [][Next]_vars

\* Threads that can run do run: pool threads, and callers inside a call.
Fairness ==
    /\ \A s \in Callers : WF_vars(SendCtl(s)) /\ WF_vars(Return(s))
    /\ \A p \in Pools : WF_vars(ReadCtl(p)) /\ WF_vars(FinishCtl(p))

FairSpec == Spec /\ Fairness

-----------------------------------------------------------------------------
(* Properties                                                              *)

\* Every variable has its type.
TypeOK ==
    /\ pc \in [Callers -> CallerStates]
    /\ at \in [Callers -> Pools]
    /\ code \in [Callers -> Codes]
    /\ owner \subseteq Callers
    /\ phase \in {"running", "joined", "destroying"}
    /\ pipe \in [Pools -> Seq(Ctl)]
    /\ handling \in [Pools -> Seq(Ctl)]
    /\ shutdown \in [Pools -> BOOLEAN]

\* For each thread that waits on a pool's condition variable there is a command
\* whose confirmation is still to come: as pool_handle_ctl() signals once for
\* each command, nobody is left waiting, whoever it is that each signal wakes.
SignalForEveryWaiter ==
    \A p \in Pools : Cardinality(Waiting(p)) <= Len(pipe[p]) + Len(handling[p])

\* No command is left in the pipe of a pool thread that is gone, where its
\* sender would wait for ever: main() joins the senders before it shuts down.
NoCommandAfterShutdown ==
    \A p \in Pools : shutdown[p] => pipe[p] = <<>> /\ handling[p] = <<>>

\* Every call returns, provided that from some time on nobody makes a new one
\* (a signal may wake a later caller first, again and again).
CallsReturn ==
    <>[][\A s \in Callers : pc[s] = "idle" => pc'[s] = "idle"]_vars
        => \A s \in Callers : [](pc[s] # "idle" => <>(pc[s] = "idle"))

\* glb_pool_destroy() gets every pool thread to leave its loop, so that it can
\* join them all.
ShutdownCompletes ==
    phase = "destroying" ~> \A p \in Pools : shutdown[p]

\* "Sends ctl and waits for confirmation from the pool thread" (line 980 of
\* glb_pool.c): as long as a pool thread has yet to carry out a command whose
\* data is in the sender's stack frame, the sender is in pool_send_ctl().
ConfirmedMeansHandled ==
    \A p \in Pools : \A k \in DOMAIN (handling[p] \o pipe[p]) :
        LET ctl == (handling[p] \o pipe[p])[k] IN
        ctl.code \in {"STATS", "DROP_DST"} => ctl.from \in Waiting(p)
=============================================================================

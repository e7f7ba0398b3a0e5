------------------------------ MODULE Backend ------------------------------
(***************************************************************************)
(* A backend thread of the watchdog, with the threads it shares its        *)
(* context with: exec_thread() (glb_wdog_exec.c) or backend_dummy_thread() *)
(* and glb_backend_probe() (glb_wdog_backend.c), and the watchdog thread   *)
(* that creates it, collects its results, asks it to quit and joins it     *)
(* (glb_wdog.c).                                                           *)
(*                                                                         *)
(* All of them wait on one condition variable, ctx->cond. What a thread    *)
(* does between taking ctx->lock and releasing it (or waiting) is one      *)
(* step. Probes come from the router, which holds its own lock meanwhile:  *)
(* there is one at a time. The external program is what it answers. Names  *)
(* that Wdog has too begin with Thread here, so that WdogProofs can extend *)
(* both modules.                                                           *)
(***************************************************************************)
EXTENDS BackendCtx

CONSTANTS
    Kinds,          \* the backends in use: a subset of {"exec", "dummy"}
    MaxWaiting      \* a bound of ctx->waiting

ASSUME BackendAssumption ==
    /\ Kinds \subseteq {"exec", "dummy"}
    /\ MaxWaiting \in Nat

VARIABLES
    kind,       \* the backend
    wd,         \* the watchdog: "none", "creating" (it has ctx->lock), "waiting"
                \* for the first signal, "watching", "failed", "freed"
    th,         \* the thread: "none", "start", "ready" to enter its loop, "poll",
                \* "sleep", "ending" (it has set join), "done"
    probe,      \* the router: "out" or "in" glb_backend_probe()
    cond,       \* the threads that are blocked on ctx->cond
    ctx,        \* quit, join and result of the context
    errn,       \* whether ctx->errn is not 0
    waiting,    \* ctx->waiting
    fresh       \* history: a result has come since the probe began

threadVars == <<kind, wd, th, probe, cond, ctx, errn, waiting, fresh>>

Unlocked == wd # "creating"

\* pthread_cond_signal(): what it can leave of the blocked threads.
AfterSignal(c) == IF c = {} THEN {c} ELSE {c \ {t} : t \in c}

ThreadInit ==
    /\ kind \in Kinds
    /\ wd = "none" /\ th = "none" /\ probe = "out"
    /\ cond = {}
    /\ ctx = NewCtx
    /\ errn = FALSE
    /\ waiting = 0
    /\ fresh = FALSE

-----------------------------------------------------------------------------
(* The watchdog                                                            *)

\* wdog_change_dst() starts the thread, with ctx->lock held ...
Create ==
    /\ wd = "none"
    /\ wd' = "creating" /\ th' = "start"
    /\ UNCHANGED <<kind, probe, cond, ctx, errn, waiting, fresh>>

\* ... waits for its signal ...
CreateWait ==
    /\ wd = "creating"
    /\ wd' = "waiting" /\ cond' = cond \cup {"wdog"}
    /\ UNCHANGED <<kind, th, probe, ctx, errn, waiting, fresh>>

\* ... and looks at join to see whether it has come up.
CreateDone ==
    /\ wd = "waiting" /\ "wdog" \notin cond
    /\ wd' = IF ctx.join THEN "failed" ELSE "watching"
    /\ UNCHANGED <<kind, th, probe, cond, ctx, errn, waiting, fresh>>

\* A faulty variant: the thread is signalled whenever its result is taken.
Collect_Signals ==
    /\ wd = "watching"
    /\ ctx' = Collected(ctx)
    /\ cond' \in AfterSignal(cond)
    /\ UNCHANGED <<kind, wd, th, probe, errn, waiting, fresh>>

\* wdog_copy_result(): takes the result; a destination that was not found too
\* often is scheduled for removal.
Collect ==
    /\ wd = "watching"
    /\ \/ ctx' = Collected(ctx) /\ UNCHANGED cond
       \/ /\ ctx.result = [state |-> GLB_DST_NOTFOUND, ready |-> TRUE]
          /\ ctx' = Quitting(Collected(ctx))
          /\ cond' \in AfterSignal(cond)
    /\ UNCHANGED <<kind, wd, th, probe, errn, waiting, fresh>>

\* wdog_change_dst() with a negative weight, and wdog_dst_cleanup().
QuitThread ==
    /\ wd = "watching"
    /\ ctx' = Quitting(ctx)
    /\ cond' \in AfterSignal(cond)
    /\ UNCHANGED <<kind, wd, th, probe, errn, waiting, fresh>>

\* pthread_join() and wdog_backend_thread_ctx_destroy(): a thread that did not
\* come up, one found with join set, one that was told to quit at the end. A
\* probe may still be waiting: the router is not asked.
Free ==
    /\ wd \in {"watching", "failed"} /\ th = "done"
    /\ wd' = "freed"
    /\ UNCHANGED <<kind, th, probe, cond, ctx, errn, waiting, fresh>>

-----------------------------------------------------------------------------
(* The backend thread                                                      *)

\* exec_thread() until init_error: memory runs out, with a signal sent without
\* the lock or with none, or the program does not start, or it does.
\* backend_dummy_thread() has nothing to do here.
Start ==
    /\ th = "start" /\ th' = "ready"
    /\ \/ errn' = FALSE /\ UNCHANGED cond
       \/ kind = "exec" /\ errn' = TRUE /\ cond' \in {cond} \cup AfterSignal(cond)
    /\ UNCHANGED <<kind, wd, probe, ctx, waiting, fresh>>

\* Goes to sleep until the next interval; c is the context, and left are the
\* other blocked threads.
Sleep(c, left) ==
    /\ th' = "sleep" /\ ctx' = c /\ cond' = left \cup {"thread"}

\* The result of the dummy backend.
Dummy == [state |-> GLB_DST_READY, ready |-> TRUE]

\* The head of the main loop.
Loop(c, left) ==
    \/ c.quit /\ kind = "exec" /\ th' = "ending" /\ ctx' = Exited(c) /\ cond' = left
    \/ c.quit /\ kind = "dummy" /\ th' = "ending" /\ ctx' = [c EXCEPT !.join = TRUE]
       /\ cond' = left
    \/ ~c.quit /\ kind = "exec" /\ th' = "poll" /\ ctx' = c /\ cond' = left
    \/ ~c.quit /\ kind = "dummy" /\ Sleep(Published(c, Dummy), left)

\* A faulty variant: the first signal is sent before the lock is taken.
Enter_Early ==
    /\ th = "ready"
    /\ \E left \in AfterSignal(cond) : Loop(IF errn THEN Quitting(ctx) ELSE ctx, left)
    /\ UNCHANGED <<kind, wd, probe, errn, waiting, fresh>>

\* A thread with an error skips the main loop; the others enter it. The signal
\* is the one that wdog_change_dst() waits for.
Enter ==
    /\ th = "ready" /\ Unlocked
    /\ \E left \in AfterSignal(cond) : Loop(IF errn THEN Quitting(ctx) ELSE ctx, left)
    /\ UNCHANGED <<kind, wd, probe, errn, waiting, fresh>>

\* A faulty variant: the number the program prints is not compared with READY.
Answers_Unchecked ==
    [r : [state : States \cup {GLB_DST_READY + 1}, ready : {TRUE}], e : {FALSE}]

\* What comes of "poll": a result with its state; no result, with an error (the
\* command cannot be sent, the answer is not a state) or without (the program
\* has closed its output and errno is 0, or glbd is being terminated).
Answers ==
    [r : [state : States, ready : {TRUE}], e : {FALSE}]
        \cup [r : {NoResult}, e : BOOLEAN]

\* The waiting router is woken: by nobody, by a signal, by a broadcast.
WakeProbes ==
    CASE waiting = 0 -> {cond}
      [] waiting = 1 -> AfterSignal(cond)
      [] OTHER -> {{}}

\* A faulty variant: an error sets join but does not leave the loop.
Poll_GoesOn ==
    /\ th = "poll" /\ Unlocked
    /\ \E a \in Answers, left \in WakeProbes :
        /\ errn' = a.e
        /\ Sleep(IF a.e THEN Exited(ctx) ELSE Published(ctx, a.r), left)
    /\ waiting' = 0 /\ fresh' = TRUE
    /\ UNCHANGED <<kind, wd, probe>>

\* One turn of the loop of exec_thread(), from the unlocked exchange with the
\* program to the wait for the next interval.
Poll ==
    /\ th = "poll" /\ Unlocked
    /\ \E a \in Answers, left \in WakeProbes :
        /\ errn' = a.e
        /\ IF a.e
           THEN th' = "ending" /\ ctx' = Exited(ctx) /\ cond' = left
           ELSE Sleep(Published(ctx, a.r), left)
    /\ waiting' = 0 /\ fresh' = TRUE
    /\ UNCHANGED <<kind, wd, probe>>

\* A faulty variant: the thread sleeps until it is signalled.
WakeUp_Signalled ==
    /\ th = "sleep" /\ "thread" \notin cond /\ Unlocked
    /\ Loop(ctx, cond)
    /\ UNCHANGED <<kind, wd, probe, errn, waiting, fresh>>

\* pthread_cond_timedwait() returns: the thread was signalled or it is time.
WakeUp ==
    /\ th = "sleep" /\ Unlocked
    /\ Loop(ctx, cond \ {"thread"})
    /\ UNCHANGED <<kind, wd, probe, errn, waiting, fresh>>

\* exec_thread() has told the program to quit and waited for it: it returns.
End ==
    /\ th = "ending" /\ th' = "done"
    /\ UNCHANGED <<kind, wd, probe, cond, ctx, errn, waiting, fresh>>

-----------------------------------------------------------------------------
(* The router                                                              *)

\* A faulty variant: the thread is not told that somebody waits.
ProbeBegin_NotCounted ==
    /\ wd = "watching" /\ probe = "out" /\ ~ctx.quit /\ ~ctx.join
    /\ \E left \in AfterSignal(cond) : cond' = left \cup {"router"}
    /\ probe' = "in" /\ fresh' = FALSE
    /\ UNCHANGED <<kind, wd, th, ctx, errn, waiting>>

\* glb_backend_probe(): wake the thread and wait. (With quit or join set it
\* returns at once and changes nothing.)
ProbeBegin ==
    /\ wd = "watching" /\ probe = "out" /\ ~ctx.quit /\ ~ctx.join
    /\ waiting < MaxWaiting
    /\ waiting' = waiting + 1
    /\ \E left \in AfterSignal(cond) : cond' = left \cup {"router"}
    /\ probe' = "in" /\ fresh' = FALSE
    /\ UNCHANGED <<kind, wd, th, ctx, errn>>

\* The router takes the result, if it was signalled, or gives up.
ProbeEnd ==
    /\ probe = "in"
    /\ probe' = "out" /\ cond' = cond \ {"router"}
    /\ UNCHANGED <<kind, wd, th, ctx, errn, waiting, fresh>>

-----------------------------------------------------------------------------

ThreadNext ==
    \/ Create \/ CreateWait \/ CreateDone \/ Collect \/ QuitThread \/ Free
    \/ Start \/ Enter \/ Poll \/ WakeUp \/ End
    \/ ProbeBegin \/ ProbeEnd

ThreadSpec == ThreadInit /\ [][ThreadNext]_threadVars

\* The watchdog finishes what it began. The thread runs on: the program answers,
\* the time it sleeps until comes, and the program ends when it is told to.
ThreadFairness ==
    /\ WF_threadVars(CreateWait) /\ WF_threadVars(CreateDone)
    /\ WF_threadVars(Start) /\ WF_threadVars(Enter) /\ WF_threadVars(Poll)
    /\ WF_threadVars(WakeUp) /\ WF_threadVars(End)

ThreadFairSpec == ThreadSpec /\ ThreadFairness

-----------------------------------------------------------------------------
(* Properties                                                              *)

\* Every variable has its type; what the program prints is only accepted as a
\* state in the range of glb_dst_state_t.
ThreadTypeOK ==
    /\ kind \in Kinds
    /\ wd \in {"none", "creating", "waiting", "watching", "failed", "freed"}
    /\ th \in {"none", "start", "ready", "poll", "sleep", "ending", "done"}
    /\ probe \in {"out", "in"}
    /\ cond \subseteq {"wdog", "thread", "router"}
    /\ ctx \in Ctx
    /\ errn \in BOOLEAN
    /\ waiting \in Nat
    /\ fresh \in BOOLEAN

\* The signals on ctx->cond reach whom they are meant for although three
\* threads wait on it: exec_thread() goes to sleep only when no probe is left
\* waiting, and a probe wakes it before it waits itself, so never are two of
\* them blocked at once and the watchdog's order to quit cannot go to a probe
\* while the thread sleeps.
OneSleeper ==
    kind = "exec" => \A s, t \in cond : s = t

\* A probe that does not time out returns what the program answered after it
\* was asked, not the result of an earlier poll, unless the thread is being
\* told to quit (glb_backend_probe() takes any signal for the answer).
ProbeFresh ==
    [][probe = "in" /\ probe' = "out" /\ "router" \notin cond
        => fresh \/ ctx.quit]_threadVars

\* wdog_change_dst() does not wait for ever for the thread it has created: the
\* signal is sent with the lock that it gives up only to wait.
CreateReturns == wd = "creating" ~> wd \in {"watching", "failed"}

\* A thread that is told to quit ends, also when the signal comes while it is
\* polling and nobody waits for it: wdog_dst_cleanup() can join every thread.
QuitHonoured == ctx.quit ~> th = "done"

\* The exec and the dummy backend keep what glb_wdog_backend.h asks of a
\* backend: the context moves as in BackendSpec, and a thread that is told to
\* quit sets join and does not touch the context any more.
life ==
    CASE th = "none" -> "none"
      [] th \in {"start", "ready"} -> "starting"
      [] th \in {"poll", "sleep"} -> "running"
      [] OTHER -> "exited"

Abs == INSTANCE BackendSpec WITH life <- life, ctx <- ctx

Implements == Abs!Spec
=============================================================================

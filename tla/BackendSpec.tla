---------------------------- MODULE BackendSpec ----------------------------
(***************************************************************************)
(* What a watchdog backend promises to the watchdog (the comments of       *)
(* glb_wdog_backend.h on glb_backend_thread_t): it updates the result      *)
(* while it runs, it respects quit, and it sets join when, and only when,  *)
(* it will not touch the context again. How the threads wait for and wake  *)
(* each other is the business of Backend, which implements this.           *)
(***************************************************************************)
EXTENDS BackendCtx

VARIABLES
    life,       \* of the thread: "none", "starting", "running" or "exited"
    ctx         \* the shared context

vars == <<life, ctx>>

Init == life = "none" /\ ctx = NewCtx

\* The watchdog creates the thread.
Create == life = "none" /\ life' = "starting" /\ UNCHANGED ctx

\* The thread enters its loop, or finds that it cannot.
Start ==
    /\ life = "starting"
    /\ \/ life' = "running" /\ ctx' \in {ctx} \cup {Published(ctx, r) : r \in Result}
       \/ life' = "exited" /\ ctx' = Quitting(Exited(ctx))

\* It has a new result.
Publish ==
    /\ life = "running"
    /\ \E r \in Result : ctx' = Published(ctx, r)
    /\ UNCHANGED life

\* The watchdog takes the result, or asks the thread to quit, or both.
Take ==
    /\ life # "none"
    /\ ctx' \in {Collected(ctx), Quitting(ctx), Quitting(Collected(ctx))}
    /\ UNCHANGED life

\* The thread leaves: it was asked to, or it cannot go on.
Exit ==
    /\ life = "running"
    /\ life' = "exited"
    /\ ctx' \in {Exited(ctx), [ctx EXCEPT !.join = TRUE]}

Next == Create \/ Start \/ Publish \/ Take \/ Exit

\* A thread that has been created gets to its loop, and one that is asked to
\* quit does.
Spec ==
    /\ Init /\ [][Next]_vars
    /\ WF_vars(Start)
    /\ WF_vars(ctx.quit /\ Exit)
=============================================================================

----------------------------- MODULE BackendCtx -----------------------------
(***************************************************************************)
(* glb_backend_thread_ctx_t (glb_wdog_backend.h): what a backend thread    *)
(* and the watchdog share, and what each of them does to it while it holds *)
(* the lock of the context. Latency, time stamp, host and port are left    *)
(* out; the list of other members is kept by the watchdog's module.        *)
(***************************************************************************)
EXTENDS Naturals

\* glb_dst_state_t
GLB_DST_NOTFOUND == 0
GLB_DST_NOTREADY == 1
GLB_DST_AVOID == 2
GLB_DST_READY == 3

States == GLB_DST_NOTFOUND..GLB_DST_READY

\* glb_wdog_check_t
Result == [state : States, ready : BOOLEAN]

\* A result that memset() or calloc() has cleared.
NoResult == [state |-> GLB_DST_NOTFOUND, ready |-> FALSE]

Ctx == [quit : BOOLEAN, join : BOOLEAN, result : Result]

\* wdog_backend_thread_ctx_create()
NewCtx == [quit |-> FALSE, join |-> FALSE, result |-> NoResult]

\* The thread has polled the destination.
Published(c, r) == [c EXCEPT !.result = r]

\* The watchdog has copied the result.
Collected(c) == [c EXCEPT !.result.ready = FALSE]

\* The thread is asked to quit.
Quitting(c) == [c EXCEPT !.quit = TRUE]

\* The thread of the exec backend has left its loop.
Exited(c) == [c EXCEPT !.result = NoResult, !.join = TRUE]
=============================================================================

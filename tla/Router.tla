------------------------------- MODULE Router -------------------------------
(***************************************************************************)
(* The router of glb (glb_router.c): the table of destinations, the five   *)
(* balancing policies, the bookkeeping of failed destinations, and the     *)
(* protocol by which threads connect through the table while another one   *)
(* changes it.                                                             *)
(*                                                                         *)
(* What a thread does while it holds router->lock is one step, except      *)
(* where the code lets go of the lock or somebody looks without it:        *)
(* connect() runs unlocked between two steps of router_connect_dst(),      *)
(* pthread_cond_wait() splits glb_router_change_dst(), and                 *)
(* glb_router_connect() reads router->conns without the lock, so that it   *)
(* can see glb_router_choose_dst_again() half way.                         *)
(***************************************************************************)
EXTENDS Integers, FiniteSets

CONSTANTS
    Addrs,      \* addresses of destinations
    NoAddr,     \* not an address
    Weights,    \* weights the operator or the watchdog may ask for; -1 deletes
    Slots,      \* connections the program may have at a time; threads in libglb
    HintOf,     \* the hash of the client's address, for each slot
    HintMax,    \* 0xffffffff
    Retry,      \* router_retry_interval(), in ticks
    MaxTime,    \* the clock stops there (bound)
    Configs,    \* the configurations to consider
    ReaddBusy   \* may an address come back while connections made before its
                \* removal are still open?

Policies == {"least", "round", "single", "random", "source"}

\* glbd: built with GLBD (glbd) or without (libglb).
CnfType == [policy : Policies, top : BOOLEAN, synchronous : BOOLEAN,
            extra : BOOLEAN, max_conn : Nat, glbd : BOOLEAN]

ASSUME RouterAssumption ==
    /\ NoAddr \notin Addrs
    /\ Weights \subseteq Nat \cup {-1}
    /\ IsFiniteSet(Slots)
    /\ HintMax \in Nat \ {0}
    /\ HintOf \in [Slots -> 0..HintMax]
    /\ Retry \in Nat \ {0}
    /\ MaxTime \in Nat
    /\ Configs \subseteq CnfType
    /\ ReaddBusy \in BOOLEAN

VARIABLES
    cnf,        \* the configuration, fixed for the life of the process
    router,     \* struct glb_router: the table and the decision context
    busy_count, \* connects in progress
    wait_count, \* threads in glb_router_change_dst() that wait for them
    changer,    \* the one thread that changes the table
    admitted,   \* the listener has passed the max_conn check
    st,         \* what each slot is doing
    ptr,        \* the table entry a connecting slot points to
    peer,       \* the address an open slot is connected to
    now         \* time (NULL)

slotVars == <<st, ptr, peer>>
vars == <<cnf, router, busy_count, wait_count, changer, admitted, slotVars, now>>

-----------------------------------------------------------------------------
(* Types                                                                   *)

\* router_dst_t. usage is kept as the weight and the connections of the time
\* it was last computed; map as the destination's share of the interval, a
\* weight, of which the code stores the running sum over the total.
DstType == [addr : Addrs, weight : Nat, failed : Nat, conns : Int,
            usage : [weight : Nat, conns : Int], map : Nat]

RouterNames == {"n_dst", "dst", "top_dst", "min_weight", "top_failed",
                "map_failed", "rrb_next", "conns"}

\* ctx.min_weight = 0 stands for GLB_DBL_EPSILON, top_dst = 0 for NULL. The top
\* destination and the round-robin cursor are in the table.
RouterFields(r) ==
    /\ r = [f \in RouterNames |-> r[f]]
    /\ r.n_dst \in Nat
    /\ r.dst \in [1..r.n_dst -> DstType]
    /\ r.top_dst \in 0..r.n_dst
    /\ r.min_weight \in Nat /\ r.top_failed \in Nat /\ r.map_failed \in Nat
    /\ r.rrb_next \in Nat /\ (r.rrb_next < r.n_dst \/ r.rrb_next = 0)
    /\ r.conns \in Int

SlotStates == {"idle", "connecting", "open", "again"}

ChangerType == [pc : {"idle", "waiting", "woken"}, addr : Addrs \cup {NoAddr},
                weight : Nat \cup {-1}, i : Nat]

NoChange == [pc |-> "idle", addr |-> NoAddr, weight |-> 0, i |-> 0]

-----------------------------------------------------------------------------
(* The decision context, the top destination and the map                   *)

router_dst_is_good_base(d, t) == t - d.failed > Retry

router_dst_is_good(d, min, t) ==
    d.weight > 0 /\ d.weight >= min /\ router_dst_is_good_base(d, t)

router_top_dst_is_good(r, t) ==
    /\ r.top_dst # 0
    /\ router_dst_is_good(r.dst[r.top_dst], 0, t)

router_update_ctx(r, t) ==
    [r EXCEPT !.min_weight = IF router_top_dst_is_good(r, t)
                             THEN r.dst[r.top_dst].weight ELSE 0]

\* The set holds one router: the scan ends at the first of the heaviest.
router_redo_top(r, t) ==
    LET better == {i \in 1..r.n_dst : /\ r.dst[i].weight > r.min_weight
                                      /\ router_dst_is_good_base(r.dst[i], t)}
        best == {i \in better : \A j \in better :
                    \/ r.dst[j].weight < r.dst[i].weight
                    \/ r.dst[j].weight = r.dst[i].weight /\ i <= j}
    IN  IF better = {} THEN {r}
        ELSE {[r EXCEPT !.top_dst = i, !.min_weight = r.dst[i].weight] : i \in best}

router_redo_map(r, t) ==
    [r EXCEPT !.dst = [i \in 1..r.n_dst |->
        [r.dst[i] EXCEPT !.map = IF router_dst_is_good(r.dst[i], r.min_weight, t)
                                 THEN r.dst[i].weight ELSE 0]]]

router_uses_map == cnf.policy \in {"random", "source"}

router_dst_usage(d) == [weight |-> d.weight, conns |-> d.conns]

\* u > v for u = weight / (conns + 1)
UsageAbove(u, v) == u.weight * (v.conns + 1) > v.weight * (u.conns + 1)

\* conns += k for destination i and for the router, and the usage that follows.
\* libglb keeps no count.
CountConn(r, i, k) ==
    LET d == [r.dst[i] EXCEPT !.conns = @ + k]
    IN  IF cnf.glbd
        THEN [r EXCEPT !.conns = @ + k,
                       !.dst[i] = [d EXCEPT !.usage = router_dst_usage(d)]]
        ELSE r

-----------------------------------------------------------------------------
(* Choosing a destination. Every operator returns a set of possible        *)
(* choices: the router afterwards and the entry chosen, 0 for NULL. bad    *)
(* are the destinations whose extra probe (router_dst_check) would fail.   *)

Chosen(r, i) == [router |-> r, i |-> i]

First(S) == {i \in S : \A j \in S : i <= j}

FailingProbes(r) == IF cnf.extra THEN SUBSET (1..r.n_dst) ELSE {{}}

\* router_dst_probe() of each destination in S has failed.
ProbeFailed(r, S, t) ==
    [r EXCEPT !.dst = [i \in 1..r.n_dst |->
        IF i \in S THEN [r.dst[i] EXCEPT !.failed = t] ELSE r.dst[i]]]

\* The first of the destinations with the largest weight / (conns + 1).
router_choose_dst_least(r, t, bad) ==
    LET good == {i \in 1..r.n_dst : router_dst_is_good(r.dst[i], r.min_weight, t)}
        best == {i \in good : \A j \in good :
                    /\ ~UsageAbove(r.dst[j].usage, r.dst[i].usage)
                    /\ j < i => UsageAbove(r.dst[i].usage, r.dst[j].usage)}
    IN  IF good = {} THEN {Chosen(r, 0)}
        ELSE {IF i \in bad THEN Chosen(ProbeFailed(r, {i}, t), 0) ELSE Chosen(r, i)
              : i \in best}

\* The cursor rrb_next counts from 0. It stops behind the choice, or where it
\* was after a full turn; the good ones it passed were probed in vain.
router_choose_dst_round(r, t, bad) ==
    LET at(k) == ((r.rrb_next + k) % r.n_dst) + 1
        good == {k \in 0..(r.n_dst - 1) :
                    router_dst_is_good(r.dst[at(k)], r.min_weight, t)}
        hits == {k \in good : at(k) \notin bad}
        passed(k) == {at(j) : j \in {j \in good : j < k}}
    IN  IF hits = {} THEN {Chosen(ProbeFailed(r, passed(r.n_dst), t), 0)}
        ELSE {Chosen([ProbeFailed(r, passed(k), t)
                         EXCEPT !.rrb_next = at(k) % r.n_dst], at(k))
              : k \in First(hits)}

router_choose_dst_single(r, t) ==
    {Chosen(r, IF router_top_dst_is_good(r, t) THEN r.top_dst ELSE 0)}

\* The running sum of the shares, up to entry k: the interval is made of units of
\* weight, of which the pair of j and u is the u-th one of entry j.
MapSum(r, k) == Cardinality(UNION {{j} \X (1..r.dst[j].map) : j \in 1..k})

\* m < d->map, where m is slightly less than h / HintMax: negative for h = 0.
HintReaches(r, h, i) ==
    IF MapSum(r, r.n_dst) = 0 THEN h = 0
    ELSE h * MapSum(r, r.n_dst) <= MapSum(r, i) * HintMax

router_choose_dst_hint(r, t, bad, h) ==
    LET q == IF r.n_dst > 0 /\ r.map_failed # 0 /\ t - r.map_failed > Retry
             THEN [router_redo_map(r, t) EXCEPT !.map_failed = 0] ELSE r
        reach == {i \in 1..r.n_dst : HintReaches(q, h, i)}
        hits == reach \ bad
    IN  IF hits = {} THEN {Chosen(ProbeFailed(q, reach, t), 0)}
        ELSE {Chosen(ProbeFailed(q, {j \in reach : j < i}, t), i) : i \in First(hits)}

\* random draws a hint for each choice; source hashes the client's address.
Hints(c) == IF cnf.policy = "random" THEN 0..HintMax ELSE {HintOf[c]}

PolicyChoices(r, t, c) ==
    UNION {CASE cnf.policy = "least"  -> IF cnf.glbd THEN router_choose_dst_least(r, t, bad)
                                         ELSE {Chosen(r, 0)}
             [] cnf.policy = "round"  -> router_choose_dst_round(r, t, bad)
             [] cnf.policy = "single" -> router_choose_dst_single(r, t)
             [] OTHER -> UNION {router_choose_dst_hint(r, t, bad, h) : h \in Hints(c)}
           : bad \in FailingProbes(r)}

\* The context, with the top destination looked for again when it is due.
ContextForChoice(r, t) ==
    LET u == router_update_ctx(r, t)
    IN  IF cnf.top /\ u.top_failed # 0 /\ t - u.top_failed > Retry
        THEN {[x EXCEPT !.top_failed = 0] : x \in router_redo_top(u, t)}
        ELSE {u}

router_choose_dst(r, t, c) ==
    {IF p.i = 0 THEN p ELSE Chosen(CountConn(p.router, p.i, 1), p.i)
     : p \in UNION {PolicyChoices(x, t, c) : x \in ContextForChoice(r, t)}}

-----------------------------------------------------------------------------
(* Failed destinations and disconnects                                     *)

\* A faulty variant: the map is left as it was.
router_dst_failed_KeepsMap(r, i, t) ==
    LET f == [r EXCEPT !.dst[i].failed = t]
    IN  {IF router_uses_map THEN [f EXCEPT !.map_failed = t] ELSE f}

\* A faulty variant: nobody is told to look at the destination again.
router_dst_failed_NoMark(r, i, t) ==
    {router_redo_map([r EXCEPT !.dst[i].failed = t], t)}

router_dst_failed(r, i, t) ==
    LET f == [r EXCEPT !.dst[i].failed = t]
        tops == IF i = r.top_dst
                THEN {[x EXCEPT !.top_failed = t]
                      : x \in router_redo_top([f EXCEPT !.min_weight = 0], t)}
                ELSE {f}
    IN  IF ~router_dst_is_good(r.dst[i], r.min_weight, t) THEN {f}
        ELSE {IF router_uses_map THEN [router_redo_map(x, t) EXCEPT !.map_failed = t]
              ELSE x : x \in tops}

\* The entry with address a, 0 if there is none.
Lookup(r, a) ==
    LET found == {i \in 1..r.n_dst : r.dst[i].addr = a}
    IN  IF found = {} THEN 0 ELSE CHOOSE i \in found : TRUE

router_disconnect(r, a, failed, t) ==
    LET i == Lookup(r, a)
    IN  IF i = 0 THEN {r}
        ELSE IF failed THEN router_dst_failed(CountConn(r, i, -1), i, t)
        ELSE {CountConn(r, i, -1)}

-----------------------------------------------------------------------------
(* Changing the table                                                      *)

NewDst(a, w) == [addr |-> a, weight |-> w, failed |-> 0, conns |-> 0,
                 usage |-> [weight |-> w, conns |-> 0], map |-> 0]

AddDst(r, a, w) ==
    [r EXCEPT !.n_dst = @ + 1, !.top_dst = 0,
              !.dst = [j \in 1..(r.n_dst + 1) |->
                         IF j = r.n_dst + 1 THEN NewDst(a, w) ELSE r.dst[j]]]

\* A faulty variant: the cursor may be left behind the end.
RemoveDst_KeepsCursor(r, i) ==
    LET n == r.n_dst - 1
    IN  [r EXCEPT !.n_dst = n, !.top_dst = 0, !.conns = @ - r.dst[i].conns,
                  !.dst = [j \in 1..n |-> IF j = i THEN r.dst[r.n_dst] ELSE r.dst[j]]]

\* A faulty variant: the connections of the destination still count.
RemoveDst_KeepsConns(r, i) ==
    LET n == r.n_dst - 1
    IN  [r EXCEPT !.n_dst = n, !.top_dst = 0,
                  !.rrb_next = IF n > 0 THEN @ % n ELSE 0,
                  !.dst = [j \in 1..n |-> IF j = i THEN r.dst[r.n_dst] ELSE r.dst[j]]]

\* The last entry takes the place of the removed one.
RemoveDst(r, i) ==
    LET n == r.n_dst - 1
    IN  [r EXCEPT !.n_dst = n, !.top_dst = 0,
                  !.conns = @ - r.dst[i].conns,
                  !.rrb_next = IF n > 0 THEN @ % n ELSE 0,
                  !.dst = [j \in 1..n |-> IF j = i THEN r.dst[r.n_dst] ELSE r.dst[j]]]

\* A faulty variant: the usage is left to the next connection.
ReweighDst_KeepsUsage(r, i, w) == [r EXCEPT !.dst[i].weight = w]

ReweighDst(r, i, w) ==
    LET d == [r.dst[i] EXCEPT !.weight = w]
    IN  [r EXCEPT !.dst[i] = [d EXCEPT !.usage = router_dst_usage(d)]]

\* glb_router_change_dst() from the point where it may touch the table. i is
\* the entry it found before it waited, 0 if none.
ChangeTable(r, i, a, w, t) ==
    LET e == IF i = 0 THEN AddDst(r, a, w)
             ELSE IF w < 0 THEN RemoveDst(r, i)
             ELSE ReweighDst(r, i, w)
        u == router_update_ctx(e, t)
        tops == IF cnf.top THEN router_redo_top(u, t) ELSE {u}
    IN  IF i # 0 /\ w = r.dst[i].weight THEN {r}
        ELSE {IF router_uses_map THEN router_redo_map(x, t) ELSE x : x \in tops}

-----------------------------------------------------------------------------
(* The operations                                                          *)

Init ==
    /\ cnf \in Configs
    /\ router = [n_dst |-> 0, dst |-> [i \in 1..0 |-> NewDst(NoAddr, 0)],
                 top_dst |-> 0, min_weight |-> 0, top_failed |-> 0,
                 map_failed |-> 0, rrb_next |-> 0, conns |-> 0]
    /\ busy_count = 0
    /\ wait_count = 0
    /\ changer = NoChange
    /\ admitted = FALSE
    /\ st = [c \in Slots |-> "idle"]
    /\ ptr = [c \in Slots |-> 0]
    /\ peer = [c \in Slots |-> NoAddr]
    /\ now = Retry + 1

\* Nobody holds router->lock between two steps.
Unlocked == \A c \in Slots : st[c] # "again"

\* Slot c goes to state s, with entry i and address a.
Become(c, s, i, a) ==
    /\ st' = [st EXCEPT ![c] = s]
    /\ ptr' = [ptr EXCEPT ![c] = i]
    /\ peer' = [peer EXCEPT ![c] = a]

\* A faulty variant: one thread that waits is not enough.
SignalFree_ForTwo ==
    changer' = IF busy_count' = 0 /\ wait_count > 1 /\ changer.pc = "waiting"
               THEN [changer EXCEPT !.pc = "woken"] ELSE changer

\* pthread_cond_signal (&router->free) once nobody is connecting.
SignalFree ==
    changer' = IF busy_count' = 0 /\ wait_count > 0 /\ changer.pc = "waiting"
               THEN [changer EXCEPT !.pc = "woken"] ELSE changer

\* A faulty variant: one connection too many.
BelowMaxConn_OrAt == router.conns <= cnf.max_conn

BelowMaxConn == router.conns < cnf.max_conn

\* glb_router_connect(): the listener, one thread, checks the limit.
Admit ==
    /\ cnf.glbd /\ ~admitted
    /\ \A c \in Slots : st[c] # "connecting"
    /\ \E c \in Slots : st[c] = "idle"
    /\ BelowMaxConn
    /\ admitted' = TRUE
    /\ UNCHANGED <<cnf, router, busy_count, wait_count, changer, slotVars, now>>

\* glb_router_connect(): no socket for a synchronous connect.
SocketFails ==
    /\ cnf.glbd /\ cnf.synchronous /\ admitted
    /\ admitted' = FALSE
    /\ UNCHANGED <<cnf, router, busy_count, wait_count, changer, slotVars, now>>

\* glb_router_choose_dst(): the pool will connect to the address chosen.
ChooseAsync(c) ==
    /\ cnf.glbd /\ ~cnf.synchronous /\ admitted
    /\ st[c] = "idle" /\ Unlocked
    /\ admitted' = FALSE
    /\ \E p \in router_choose_dst(router, now, c) :
          /\ router' = p.router
          /\ IF p.i = 0 THEN UNCHANGED slotVars
             ELSE Become(c, "open", 0, p.router.dst[p.i].addr)
    /\ UNCHANGED <<cnf, busy_count, wait_count, changer, now>>

\* router_connect_dst() up to its first connect(), or to its end when there is
\* no destination to connect to.
ConnectBegin(c) ==
    /\ cnf.synchronous
    /\ cnf.glbd => admitted
    /\ st[c] = "idle" /\ Unlocked
    /\ admitted' = FALSE
    /\ \E p \in router_choose_dst(router, now, c) :
          /\ router' = p.router
          /\ IF p.i = 0
             THEN UNCHANGED <<busy_count, slotVars>> /\ SignalFree
             ELSE /\ busy_count' = busy_count + 1
                  /\ Become(c, "connecting", p.i, NoAddr)
                  /\ UNCHANGED changer
    /\ UNCHANGED <<cnf, wait_count, now>>

\* A faulty variant: the way out of the loop leaves busy_count up.
ConnectOk_StaysBusy(c) ==
    /\ st[c] = "connecting" /\ Unlocked
    /\ IF cnf.glbd THEN Become(c, "open", 0, router.dst[ptr[c]].addr)
                   ELSE Become(c, "idle", 0, NoAddr)
    /\ UNCHANGED <<cnf, router, busy_count, wait_count, changer, admitted, now>>

\* connect() has succeeded. libglb gives the socket to the application.
ConnectOk(c) ==
    /\ st[c] = "connecting" /\ Unlocked
    /\ IF cnf.glbd THEN Become(c, "open", 0, router.dst[ptr[c]].addr)
                   ELSE Become(c, "idle", 0, NoAddr)
    /\ busy_count' = busy_count - 1
    /\ SignalFree
    /\ UNCHANGED <<cnf, router, wait_count, admitted, now>>

\* connect() has failed: undo the count, mark the destination, choose again.
ConnectFail(c) ==
    /\ st[c] = "connecting" /\ Unlocked
    /\ \E f \in router_dst_failed(CountConn(router, ptr[c], -1), ptr[c], now) :
       \E p \in router_choose_dst(f, now, c) :
          /\ router' = p.router
          /\ IF p.i = 0
             THEN /\ Become(c, "idle", 0, NoAddr)
                  /\ busy_count' = busy_count - 1
                  /\ SignalFree
             ELSE /\ Become(c, "connecting", p.i, NoAddr)
                  /\ UNCHANGED <<busy_count, changer>>
    /\ UNCHANGED <<cnf, wait_count, admitted, now>>

\* glb_router_disconnect(). Only an asynchronous connect can fail this late.
Disconnect(c, failed) ==
    /\ st[c] = "open" /\ Unlocked
    /\ failed => ~cnf.synchronous
    /\ router' \in router_disconnect(router, peer[c], failed, now)
    /\ Become(c, "idle", 0, NoAddr)
    /\ UNCHANGED <<cnf, busy_count, wait_count, changer, admitted, now>>

\* glb_router_choose_dst_again(): the failed half, which leaves the lock held ...
ChooseAgainBegin(c) ==
    /\ ~cnf.synchronous
    /\ st[c] = "open" /\ Unlocked
    /\ router' \in router_disconnect(router, peer[c], TRUE, now)
    /\ Become(c, "again", 0, NoAddr)
    /\ UNCHANGED <<cnf, busy_count, wait_count, changer, admitted, now>>

\* ... and the choice.
ChooseAgainEnd(c) ==
    /\ st[c] = "again"
    /\ \E p \in router_choose_dst(router, now, c) :
          /\ router' = p.router
          /\ IF p.i = 0 THEN Become(c, "idle", 0, NoAddr)
             ELSE Become(c, "open", 0, p.router.dst[p.i].addr)
    /\ UNCHANGED <<cnf, busy_count, wait_count, changer, admitted, now>>

\* The sanity check: a destination to be removed has to be there.
Sane(i, w) == w >= 0 \/ i # 0

\* A faulty variant: only a removal waits, though an addition moves the table.
MustWait_Removal(i, w) == i # 0 /\ w < 0 /\ busy_count > 0

\* Entries may not come or go while someone is connecting.
MustWait(i, w) == (i = 0 \/ w < 0) /\ busy_count > 0

\* glb_router_change_dst() up to its end, or to the wait for connects in
\* progress. To remove an unknown destination changes nothing.
ChangeBegin(a, w) ==
    LET i == Lookup(router, a)
    IN  /\ changer.pc = "idle" /\ Unlocked
        /\ Sane(i, w)
        /\ \/ i # 0 \/ ReaddBusy
           \/ \A c \in Slots : ~(st[c] = "open" /\ peer[c] = a)
        /\ IF MustWait(i, w)
           THEN /\ wait_count' = wait_count + 1
                /\ changer' = [pc |-> "waiting", addr |-> a, weight |-> w, i |-> i]
                /\ UNCHANGED router
           ELSE /\ router' \in ChangeTable(router, i, a, w, now)
                /\ UNCHANGED <<wait_count, changer>>
        /\ UNCHANGED <<cnf, busy_count, admitted, slotVars, now>>

\* pthread_cond_wait() may return without a signal.
SpuriousWakeup ==
    /\ changer.pc = "waiting"
    /\ changer' = [changer EXCEPT !.pc = "woken"]
    /\ UNCHANGED <<cnf, router, busy_count, wait_count, admitted, slotVars, now>>

\* A faulty variant: it always goes back to sleep.
ChangeResume_Waits ==
    /\ changer.pc = "woken" /\ Unlocked
    /\ changer' = [changer EXCEPT !.pc = "waiting"]
    /\ UNCHANGED <<cnf, router, busy_count, wait_count, admitted, slotVars, now>>

\* The woken thread has the lock again: it waits on or changes the table.
ChangeResume ==
    /\ changer.pc = "woken" /\ Unlocked
    /\ IF busy_count > 0
       THEN /\ changer' = [changer EXCEPT !.pc = "waiting"]
            /\ UNCHANGED <<router, wait_count>>
       ELSE /\ changer' = NoChange
            /\ wait_count' = wait_count - 1
            /\ router' \in ChangeTable(router, changer.i, changer.addr,
                                       changer.weight, now)
    /\ UNCHANGED <<cnf, busy_count, admitted, slotVars, now>>

Tick ==
    /\ now < MaxTime
    /\ now' = now + 1
    /\ UNCHANGED <<cnf, router, busy_count, wait_count, changer, admitted, slotVars>>

Next ==
    \/ Admit
    \/ SocketFails
    \/ \E c \in Slots : ChooseAsync(c)
    \/ \E c \in Slots : ConnectBegin(c)
    \/ \E c \in Slots : ConnectOk(c)
    \/ \E c \in Slots : ConnectFail(c)
    \/ \E c \in Slots, failed \in BOOLEAN : Disconnect(c, failed)
    \/ \E c \in Slots : ChooseAgainBegin(c)
    \/ \E c \in Slots : ChooseAgainEnd(c)
    \/ \E a \in Addrs, w \in Weights : ChangeBegin(a, w)
    \/ SpuriousWakeup
    \/ ChangeResume
    \/ Tick

Spec == Init /\ [][Next]_vars

\* A connect() returns sooner or later, and a thread that can run gets the lock.
Fairness ==
    /\ \A c \in Slots : WF_vars(ConnectOk(c) \/ ConnectFail(c))
    /\ \A c \in Slots : WF_vars(ChooseAgainEnd(c))
    /\ WF_vars(ChangeResume)

FairSpec == Spec /\ Fairness

-----------------------------------------------------------------------------
(* Properties                                                              *)

\* Every variable has its type; top_dst is NULL or in bounds, and so is the
\* round-robin cursor, whatever was added, chosen and removed in between.
TypeOK ==
    /\ cnf \in CnfType
    /\ RouterFields(router)
    /\ busy_count \in Int /\ wait_count \in Int
    /\ changer \in ChangerType
    /\ admitted \in BOOLEAN
    /\ st \in [Slots -> SlotStates]
    /\ ptr \in [Slots -> Nat]
    /\ peer \in [Slots -> Addrs \cup {NoAddr}]
    /\ now \in Nat

Connecting == {c \in Slots : st[c] = "connecting"}

\* The connections that count against destination i.
Holders(i) == {c \in Slots : \/ st[c] = "connecting" /\ ptr[c] = i
                             \/ st[c] = "open" /\ peer[c] = router.dst[i].addr}

\* Each destination's count is the number of connections made to it and not yet
\* given back, and the router's own count is that of all of them: connects that
\* fail, fail over or end after their destination has gone leave no trace.
ConnsAccounted ==
    cnf.glbd =>
        /\ \A i \in 1..router.n_dst : router.dst[i].conns = Cardinality(Holders(i))
        /\ router.conns = Cardinality(UNION {Holders(i) : i \in 1..router.n_dst})

\* The usage by which "least connected" chooses is never older than the weight
\* and the count it is made from (router_dst_usage is called wherever one moves).
UsageFresh ==
    \A i \in 1..router.n_dst : router.dst[i].usage = router_dst_usage(router.dst[i])

\* With synchronous connects the unlocked check of glb_router_connect() keeps
\* the number of connections within max_conn.
MaxConnRespected == cnf.glbd /\ cnf.synchronous => router.conns <= cnf.max_conn

\* busy_count is the number of connects in progress, and wait_count that of
\* threads that wait for them in glb_router_change_dst().
BusyMatches ==
    /\ busy_count = Cardinality(Connecting)
    /\ wait_count = IF changer.pc = "idle" THEN 0 ELSE 1

\* No entry of the table moves, comes or goes while a connect() is in progress:
\* router_connect_dst() keeps using its dst pointer after it (line 264 of
\* glb_router.c: "cant remove/add destination while someone's connecting").
PointersHold ==
    [][Connecting # {} =>
          /\ router'.n_dst = router.n_dst
          /\ \A i \in 1..router.n_dst : router'.dst[i].addr = router.dst[i].addr]_vars

\* A thread is left asleep in glb_router_change_dst() only while a connect is in
\* progress that will signal it: no wakeup is lost.
NoLostWakeup == changer.pc = "waiting" => busy_count > 0

\* A pending change of the table is carried out, provided that from some time on
\* no new connect begins (each one delays it: busy_count has to reach 0).
ChangeServed ==
    <>[][\A c \in Slots : ~(st[c] = "idle" /\ st'[c] = "connecting")]_vars
        => [](changer.pc # "idle" => <>(changer.pc = "idle"))

\* The map never leads to a destination that is drained or that failed within
\* the retry interval (router_redo_map after every failure and every change).
MapExcludesFailed ==
    router_uses_map /\ ~cnf.top /\ ~cnf.extra =>
        \A i \in 1..router.n_dst : router.dst[i].map > 0 =>
            router_dst_is_good(router.dst[i], 0, now)

\* A destination that has been given up is looked at again: while no redo of the
\* map is due (map_failed = 0), the map has every destination that is available.
TargetComesBack ==
    router_uses_map /\ ~cnf.top /\ router.map_failed = 0 =>
        \A i \in 1..router.n_dst : router_dst_is_good(router.dst[i], 0, now) =>
            router.dst[i].map > 0

\* README, MAXIMUM CONCURRENT CONNECTIONS: no more connections than max_conn.
MaxConnKept == router.conns <= cnf.max_conn

\* assert (d->conns >= 0), lines 694 and 789 of glb_router.c.
ConnsNotNegative == \A i \in 1..router.n_dst : router.dst[i].conns >= 0
=============================================================================

-------------------------------- MODULE Wdog --------------------------------
(***************************************************************************)
(* The watchdog (glb_wdog.c): the list of watched destinations, the        *)
(* collection of what their backend threads found, the discovery of new    *)
(* destinations from what a ready one says of its cluster, and what the    *)
(* watchdog makes of it all in the router. Control commands reach it       *)
(* through glb_wdog_change_dst().                                          *)
(*                                                                         *)
(* Everything is done under wdog->lock and is one step here. The backend   *)
(* threads move as BackendSpec allows: a thread that exits, or publishes,  *)
(* between two critical sections of one collection has the effect of one   *)
(* that does so before or after it, since the collection looks at join     *)
(* once per destination and after that uses its own copy of the result.    *)
(***************************************************************************)
EXTENDS BackendCtx, Integers, Sequences, FiniteSetsExt

CONSTANTS
    Dsts,           \* addresses
    Initial,        \* cnf->dst, a sequence of addresses
    Weights,        \* the weights control commands give
    Speeds,         \* what latency can multiply a weight by: {1} unless cnf->lat_factor > 0
    Reports,        \* what a destination can say of the members of its cluster
    PollStates,     \* the states that polls find
    Discover,       \* cnf->discover
    MaxFail         \* WDOG_MAX_FAIL_COUNT

ASSUME WdogAssumption ==
    /\ Initial \in Seq(Dsts) /\ \A i, j \in DOMAIN Initial : Initial[i] = Initial[j] => i = j
    /\ Weights \subseteq Nat /\ Speeds \subseteq Nat \ {0}
    /\ Reports \subseteq Seq(Dsts)
    /\ PollStates \subseteq States
    /\ Discover \in BOOLEAN
    /\ MaxFail \in Nat \ {0}

VARIABLES
    phase,      \* "starting", "running", "quitting", "destroyed"
    list,       \* wdog->dst
    router,     \* the weight of each address in the router, NotRouted if absent
    dangling,   \* the addresses whose probe_ctx in the router has been freed
    named       \* history: the members that the last collection went through

vars == <<phase, list, router, dangling, named>>

NotRouted == -1

\* The weight the membership string gives to a member.
MembWeight == 1

-----------------------------------------------------------------------------
(* wdog_change_dst() on a list l                                           *)

Entry(d, w, explicit) ==
    [dst |-> d, setw |-> w, weight |-> NotRouted, explicit |-> explicit,
     fail |-> 0, ctx |-> NewCtx, others |-> <<>>]

\* The first of the entries at, 0 if there is none.
First(at) == IF at = {} THEN 0 ELSE Min(at)

Find(l, d) == First({i \in DOMAIN l : l[i].dst = d})

\* The list l with e as its entry i.
At(l, i, e) == [j \in DOMAIN l |-> IF j = i THEN e ELSE l[j]]

Quit(e) == [e EXCEPT !.ctx = Quitting(@)]

Modify(e, w, explicit) ==
    [e EXCEPT !.fail = 0,
              !.explicit = @ \/ explicit,
              !.setw = IF explicit \/ ~e.explicit THEN w ELSE @]

\* A faulty variant: a destination that is being referred to is left alone.
ChangeDst_KeepsFail(l, d, w, explicit) ==
    LET i == Find(l, d) IN
    CASE i = 0 /\ w < 0 -> {l}
      [] i = 0 /\ w >= 0 -> {l, Append(l, Entry(d, w, explicit))}
      [] i # 0 /\ w < 0 ->
            {IF explicit \/ ~l[i].explicit THEN At(l, i, Quit(l[i])) ELSE l}
      [] OTHER -> {At(l, i, [Modify(l[i], w, explicit) EXCEPT !.fail = l[i].fail])}

\* A faulty variant: a destination that is told to quit is not found any more.
ChangeDst_SkipsQuitting(l, d, w, explicit) ==
    LET i == First({j \in DOMAIN l : l[j].dst = d /\ ~l[j].ctx.quit}) IN
    CASE i = 0 /\ w < 0 -> {l}
      [] i = 0 /\ w >= 0 -> {l, Append(l, Entry(d, w, explicit))}
      [] i # 0 /\ w < 0 ->
            {IF explicit \/ ~l[i].explicit THEN At(l, i, Quit(l[i])) ELSE l}
      [] OTHER -> {At(l, i, Modify(l[i], w, explicit))}

\* A faulty variant: without the check for a command to remove what is not there.
ChangeDst_Unchecked(l, d, w, explicit) ==
    LET i == Find(l, d) IN
    CASE i = 0 -> {l, Append(l, Entry(d, w, explicit))}
      [] i # 0 /\ w < 0 ->
            {IF explicit \/ ~l[i].explicit THEN At(l, i, Quit(l[i])) ELSE l}
      [] OTHER -> {At(l, i, Modify(l[i], w, explicit))}

\* The lists that come of it: the backend thread of a new destination starts or
\* it does not. A destination that is removed stays until its thread has ended.
ChangeDst(l, d, w, explicit) ==
    LET i == Find(l, d) IN
    CASE i = 0 /\ w < 0 -> {l}
      [] i = 0 /\ w >= 0 -> {l, Append(l, Entry(d, w, explicit))}
      [] i # 0 /\ w < 0 ->
            {IF explicit \/ ~l[i].explicit THEN At(l, i, Quit(l[i])) ELSE l}
      [] OTHER -> {At(l, i, Modify(l[i], w, explicit))}

\* wdog_process_membership_change(): the same for every member in turn.
Membership(l, members) ==
    LET upto[k \in 0..Len(members)] ==
            IF k = 0 THEN {l}
            ELSE UNION {ChangeDst(m, members[k], MembWeight, FALSE) : m \in upto[k - 1]}
    IN upto[Len(members)]

-----------------------------------------------------------------------------
(* wdog_collect_results()                                                  *)

\* The watchdog does not look at a result it has taken again: its state is left
\* out here.
Taken(c) == [c EXCEPT !.result = NoResult]

\* wdog_copy_result(): the entry after its result was taken. The count of an
\* explicit destination, which remains one, and a count beyond the limit are of
\* no use and left out.
Copied(e) ==
    LET lost == e.ctx.result = [state |-> GLB_DST_NOTFOUND, ready |-> TRUE]
        fail == IF lost /\ ~e.explicit /\ e.fail <= MaxFail THEN e.fail + 1 ELSE e.fail
    IN [e EXCEPT !.fail = fail,
                 !.ctx = IF lost /\ fail > MaxFail
                         THEN Quitting(Taken(@)) ELSE Taken(@),
                 !.others = <<>>]

\* A faulty variant: a destination that was not heard from keeps its weight.
NewWeight_Keeps(e, speed) ==
    CASE ~e.ctx.result.ready -> e.weight
      [] e.ctx.result.state <= GLB_DST_NOTREADY -> NotRouted
      [] e.ctx.result.state = GLB_DST_AVOID -> 0
      [] OTHER -> e.setw * speed

\* A faulty variant: the result is marked as taken before it is looked at.
NewWeight_Taken(e, speed) == IF e.weight >= 0 THEN 0 ELSE e.weight

\* The weight that the result gives, wdog_result_weight() included: speed is that
\* of the destination in terms of the slowest one.
NewWeight(e, speed) ==
    CASE ~e.ctx.result.ready -> IF e.weight >= 0 THEN 0 ELSE e.weight
      [] e.ctx.result.state <= GLB_DST_NOTREADY -> NotRouted
      [] e.ctx.result.state = GLB_DST_AVOID -> 0
      [] OTHER -> e.setw * speed

\* Whether the router is told: not of a change of 10% or less.
Differs(new, old) ==
    new # old /\ (new <= 0 \/ 10 * (IF old > new THEN old - new ELSE new - old) > new)

\* A faulty variant: the loop ends before the first entry.
Swept_NotFirst(l) ==
    LET from[k \in 1..Len(l) + 1] ==
            IF k > Len(l) THEN l
            ELSE LET rest == from[k + 1] IN
                 IF l[k].ctx.join /\ k > 1
                 THEN [j \in 1..Len(rest) - 1 |-> IF j = k THEN rest[Len(rest)] ELSE rest[j]]
                 ELSE rest
    IN from[1]

\* The joined entries are taken out from the end of the list to its beginning,
\* the last entry taking the place of each.
Swept(l) ==
    LET from[k \in 1..Len(l) + 1] ==
            IF k > Len(l) THEN l
            ELSE LET rest == from[k + 1] IN
                 IF l[k].ctx.join
                 THEN [j \in 1..Len(rest) - 1 |-> IF j = k THEN rest[Len(rest)] ELSE rest[j]]
                 ELSE rest
    IN from[1]

\* The index of the entry whose members are gone through, 0 for none: the last
\* one that is ready and says something of its cluster.
MembSource ==
    LET sources == {i \in DOMAIN list :
                        /\ ~list[i].ctx.join
                        /\ list[i].ctx.result = [state |-> GLB_DST_READY, ready |-> TRUE]
                        /\ list[i].others # <<>>}
    IN IF Discover /\ sources # {} THEN Max(sources) ELSE 0

-----------------------------------------------------------------------------
(* Actions                                                                 *)

\* glb_wdog_create() has started the backend threads of the configuration.
Init ==
    /\ phase = "starting"
    /\ list = [i \in DOMAIN Initial |-> Entry(Initial[i], 1, TRUE)]
    /\ router = [d \in Dsts |-> NotRouted]
    /\ dangling = {}
    /\ named = {}

\* A faulty variant: the router forgets a destination that is not ready, and the
\* watchdog keeps its weight.
Settled_Forgets(new) ==
    [i \in DOMAIN list |->
        IF Differs(new[i], list[i].weight) /\ new[i] >= 0
        THEN [Copied(list[i]) EXCEPT !.weight = new[i]] ELSE Copied(list[i])]

\* The entries after they were copied and the router took their new weights.
Settled(new) ==
    [i \in DOMAIN list |->
        IF Differs(new[i], list[i].weight)
        THEN [Copied(list[i]) EXCEPT !.weight = new[i]] ELSE Copied(list[i])]

\* The entries with a change for the router.
Changed(new) == {i \in DOMAIN list : ~list[i].ctx.join /\ Differs(new[i], list[i].weight)}

\* glb_router_change_dst() for them: an address that comes gets the context of
\* its entry, one that is there keeps the context it came with. An address that
\* the watchdog frees is not taken out of the router.
TellRouter(new) ==
    LET gone == {list[i].dst : i \in {j \in DOMAIN list : list[j].ctx.join}} IN
    /\ router' = [d \in Dsts |->
            LET i == Find(list, d) IN IF i \in Changed(new) THEN new[i] ELSE router[d]]
    /\ dangling' = {d \in dangling \cup gone : router'[d] # NotRouted}

\* The end of wdog_collect_results(): the members that wdog->dst[memb_source] has
\* after the sweep. An index that is not in the list any more reads what was
\* left there: the members, or nothing.
Discovery(l) ==
    LET source == MembSource
        members == IF source = 0 THEN <<>> ELSE list[source].others
    IN \E m \in IF source > Len(l) THEN {members, <<>>} ELSE {members} :
            list' \in Membership(l, m) /\ named' = Range(m)

\* wdog_collect_results() in wdog_main_loop(). glb_wdog_create() waits until there
\* is a result, but only that many times.
CollectResults ==
    /\ phase \in {"starting", "running"}
    /\ phase' \in IF \E i \in DOMAIN list : ~list[i].ctx.join /\ list[i].ctx.result.ready
                  THEN {"running"} ELSE {phase, "running"}
    /\ \E speed \in [DOMAIN list -> Speeds] :
        LET new == [i \in DOMAIN list |-> NewWeight(list[i], speed[i])] IN
        /\ TellRouter(new)
        /\ Discovery(Swept(Settled(new)))

\* glb_wdog_change_dst(), called for a control command.
Command(d, w) ==
    /\ phase = "running"
    /\ list' \in ChangeDst(list, d, w, TRUE)
    /\ UNCHANGED <<phase, router, dangling, named>>

\* glb_wdog_destroy(): no more collections, and every thread is told to quit ...
Destroy ==
    /\ phase = "running"
    /\ phase' = "quitting"
    /\ list' = [i \in DOMAIN list |-> Quit(list[i])]
    /\ UNCHANGED <<router, dangling, named>>

\* ... and joined.
Destroyed ==
    /\ phase = "quitting"
    /\ \A i \in DOMAIN list : list[i].ctx.join
    /\ phase' = "destroyed"
    /\ list' = <<>>
    /\ dangling' = {d \in Dsts : router[d] # NotRouted}
    /\ UNCHANGED <<router, named>>

\* A backend thread has polled its destination (Publish of BackendSpec). The
\* members are those that the program printed.
Publish(i) ==
    /\ ~list[i].ctx.join
    /\ \E s \in PollStates, m \in Reports :
        list' = At(list, i, [list[i] EXCEPT
                    !.ctx = Published(@, [state |-> s, ready |-> TRUE]),
                    !.others = IF s = GLB_DST_NOTFOUND THEN <<>> ELSE m])
    /\ UNCHANGED <<phase, router, dangling, named>>

\* It ends (Exit of BackendSpec), told to or not.
Exit(i) ==
    /\ ~list[i].ctx.join
    /\ list' = At(list, i, [list[i] EXCEPT !.ctx = Exited(@), !.others = <<>>])
    /\ UNCHANGED <<phase, router, dangling, named>>

Next ==
    \/ CollectResults
    \/ \E d \in Dsts, w \in Weights \cup {-1} : Command(d, w)
    \/ Destroy \/ Destroyed
    \/ \E i \in DOMAIN list : Publish(i) \/ Exit(i)

Spec == Init /\ [][Next]_vars

\* The thread of d ends because it was told to.
Quits(d) == LET i == Find(list, d) IN i # 0 /\ list[i].ctx.quit /\ Exit(i)

\* The watchdog wakes up after every interval, and a backend keeps its promise
\* to respect quit. Nothing is assumed of how often it has results.
Fairness ==
    /\ WF_vars(CollectResults) /\ WF_vars(Destroyed)
    /\ \A d \in Dsts : WF_vars(Quits(d))

FairSpec == Spec /\ Fairness

-----------------------------------------------------------------------------
(* Properties                                                              *)

Entries ==
    [dst : Dsts, setw : Nat, weight : Nat \cup {NotRouted}, explicit : BOOLEAN,
     fail : 0..MaxFail + 1, ctx : Ctx, others : Reports \cup {<<>>}]

\* Every variable has its type: nothing but a weight that is not negative gets
\* into an entry of wdog->dst, and no count of failures beyond the limit.
TypeOK ==
    /\ phase \in {"starting", "running", "quitting", "destroyed"}
    /\ list \in Seq(Entries)
    /\ router \in [Dsts -> Nat \cup {NotRouted}]
    /\ dangling \subseteq Dsts
    /\ named \subseteq Dsts

\* However destinations are added, removed, added again while their thread still
\* has to end, discovered and swept with the last entry taking the place of each
\* joined one, no address is watched by two entries of wdog->dst.
WatchedOnce ==
    \A i, j \in DOMAIN list : list[i].dst = list[j].dst => i = j

\* The weight the watchdog notes for a destination is the one the router has, so
\* that what wdog_collect_results() leaves out as no change is none. An address
\* that was freed while it was routed is the exception: it comes back as one
\* that is not in the router.
RouterFollows ==
    \A i \in DOMAIN list :
        \/ list[i].weight = router[list[i].dst]
        \/ list[i].weight = NotRouted /\ list[i].dst \in dangling

Watched(d) == \E i \in DOMAIN list : list[i].dst = d

Removing(d) == \E i \in DOMAIN list : list[i].dst = d /\ list[i].ctx.quit

\* The watchdog lets go only of what nobody wants any more. It drops an entry
\* only when its thread has ended; and without a command it schedules none for
\* removal that was added explicitly ("never remove"), and no discovered one
\* that a ready destination named in the collection before (the comment on why
\* the members are gone through every time).
WantedKept ==
    [][\A d \in Dsts : \A i \in DOMAIN list : list[i].dst = d =>
        /\ Watched(d)' \/ list[i].ctx.join
        /\ Removing(d)' =>
            \/ list[i].ctx.quit \/ Destroy \/ Command(d, -1)
            \/ ~list[i].explicit /\ d \notin named]_vars

\* A destination that was told to go leaves the list, and the watchdog that is
\* destroyed gets rid of all of them.
RemovedLeaves ==
    /\ \A d \in Dsts : Removing(d) ~> ~Removing(d)
    /\ phase = "quitting" ~> phase = "destroyed"

Silent(d) ==
    \E i \in DOMAIN list : list[i].dst = d /\ ~list[i].ctx.result.ready

\* A destination whose backend thread is not heard from any more (the program
\* hangs) is put on hold: it gets no new connections from some time on.
SilentHeld ==
    \A d \in Dsts :
        <>[](Silent(d) /\ d \notin dangling /\ phase = "running") => <>[](router[d] <= 0)

Sound(d) ==
    \E i \in DOMAIN list :
        /\ list[i].dst = d /\ list[i].setw > 0
        /\ ~list[i].ctx.join
        /\ list[i].ctx.result.ready => list[i].ctx.result.state = GLB_DST_READY

\* A watched destination that is found ready again and again is given to the
\* router each time it had been put on hold.
ReadyRouted ==
    \A d \in Dsts :
        <>[](Sound(d) /\ phase = "running") /\ []<>(Sound(d) /\ ~Silent(d))
            => []<>(router[d] > 0)

\* README.md: "Negative weight means delete the server completely". A destination
\* that was told to quit and has left the watchdog's list has left the router.
DeletedIsUnrouted ==
    [][\A d \in Dsts :
        Removing(d) /\ ~Watched(d)' /\ phase' = "running" => router'[d] = NotRouted]_vars

\* assert (d->result.others): the entry that memb_source was taken from is where
\* it was when its members are gone through.
MembSourceInList == MembSource <= Len(Swept(list))
=============================================================================

----------------------------- MODULE RouterMap -----------------------------
(***************************************************************************)
(* The map of Router, for any number of destinations, connections and      *)
(* weights: it has no destination that is bad, and those that are good     *)
(* come back into it.                                                      *)
(***************************************************************************)
EXTENDS RouterProofs

-----------------------------------------------------------------------------
(* No bad destination in the map                                           *)

\* Without --top and extra probes there is no top destination, every weight is
\* heavy enough, and the map leads to good destinations only.
MapGood(r, t) ==
    /\ r.top_dst = 0 /\ r.min_weight = 0
    /\ \A i \in 1..r.n_dst : r.dst[i].map > 0 => router_dst_is_good(r.dst[i], 0, t)

\* The configurations that MapExcludesFailed is about.
MapOnly == router_uses_map /\ ~cnf.top /\ ~cnf.extra

\* Whatever the entries had before, router_redo_map() sorts out the bad ones.
LEMMA RedoMapGood ==
    ASSUME NEW r, RouterFields(r), NEW t \in Nat, r.top_dst = 0, r.min_weight = 0
    PROVE  MapGood(router_redo_map(r, t), t)
  <1> DEFINE d == [i \in 1..r.n_dst |->
                    [r.dst[i] EXCEPT !.map = IF router_dst_is_good(r.dst[i], r.min_weight, t)
                                             THEN r.dst[i].weight ELSE 0]]
             q == [r EXCEPT !.dst = d]
  <1>1. ASSUME NEW i \in 1..r.n_dst, d[i].map > 0
        PROVE  router_dst_is_good(d[i], 0, t)
    <2>1. r.dst[i] \in DstType
      BY EntryTypes
    <2>2. /\ d[i].weight = r.dst[i].weight /\ d[i].failed = r.dst[i].failed
          /\ d[i].map = IF router_dst_is_good(r.dst[i], r.min_weight, t)
                        THEN r.dst[i].weight ELSE 0
      BY <2>1 DEF DstType
    <2> HIDE DEF d
    <2>3. router_dst_is_good(r.dst[i], 0, t)
      BY <1>1, <2>2
    <2> QED BY <2>2, <2>3 DEF router_dst_is_good, router_dst_is_good_base
  <1>2. router_redo_map(r, t) = q
    BY DEF router_redo_map
  <1> HIDE DEF d
  <1>3. q.n_dst = r.n_dst /\ q.dst = d /\ q.top_dst = 0 /\ q.min_weight = 0
    BY Zenon DEF RouterFields, RouterNames
  <1> HIDE DEF q
  <1> QED BY Zenon, <1>1, <1>2, <1>3 DEF MapGood

\* q has the context of r, and destinations with the same weight, mark and share.
SameMap(q, r) ==
    /\ q.top_dst = r.top_dst /\ q.min_weight = r.min_weight /\ q.n_dst = r.n_dst
    /\ \A i \in 1..r.n_dst : /\ q.dst[i].weight = r.dst[i].weight
                             /\ q.dst[i].failed = r.dst[i].failed
                             /\ q.dst[i].map = r.dst[i].map

\* What does not touch the map keeps it good.
LEMMA SameMapGood ==
    ASSUME NEW q, NEW r, NEW t \in Nat, MapGood(r, t), SameMap(q, r)
    PROVE  MapGood(q, t)
  BY DEF MapGood, SameMap, router_dst_is_good, router_dst_is_good_base

\* Without a top destination router_update_ctx() changes nothing.
LEMMA UpdateCtxNoTop ==
    ASSUME NEW r, RouterFields(r), NEW t \in Nat, r.top_dst = 0
    PROVE  /\ router_update_ctx(r, t).top_dst = 0 /\ router_update_ctx(r, t).min_weight = 0
           /\ r.min_weight = 0 => SameMap(router_update_ctx(r, t), r)
  <1>1. router_update_ctx(r, t) = [r EXCEPT !.min_weight = 0]
    BY DEF router_update_ctx, router_top_dst_is_good
  <1> QED BY Zenon, <1>1 DEF RouterFields, RouterNames, SameMap

\* A count touches neither the context nor the map.
LEMMA CountConnSameMap ==
    ASSUME NEW r, RouterFields(r), NEW i \in 1..r.n_dst, NEW k \in Int
    PROVE  SameMap(CountConn(r, i, k), r)
  <1>1. CASE ~cnf.glbd
    BY <1>1 DEF CountConn, SameMap
  <1>2. CASE cnf.glbd
    <2> DEFINE x == r.dst[i]
               d == [x EXCEPT !.conns = @ + k]
               e == [d EXCEPT !.usage = router_dst_usage(d)]
               n == r.conns + k
               q == [r EXCEPT !.conns = n, !.dst[i] = e]
    <2>1. x \in DstType
      BY EntryTypes
    <2>2. CountConn(r, i, k) = q
      BY <1>2 DEF CountConn
    <2>3. e.weight = x.weight /\ e.failed = x.failed /\ e.map = x.map
      BY Zenon, <2>1 DEF DstType
    <2> HIDE DEF e, n
    <2>4. /\ q.n_dst = r.n_dst /\ q.top_dst = r.top_dst /\ q.min_weight = r.min_weight
          /\ q.dst[i] = e /\ \A j \in 1..r.n_dst : j # i => q.dst[j] = r.dst[j]
      BY Zenon DEF RouterFields, RouterNames
    <2> HIDE DEF q
    <2> QED BY Zenon, <2>2, <2>3, <2>4 DEF SameMap
  <1> QED BY <1>1, <1>2

\* Probes that do not fail mark nothing.
LEMMA NoProbeSameMap ==
    ASSUME NEW r, RouterFields(r), NEW t \in Nat
    PROVE  SameMap(ProbeFailed(r, {}, t), r)
  <1>1. ProbeFailed(r, {}, t) = [r EXCEPT !.dst = [i \in 1..r.n_dst |-> r.dst[i]]]
    BY DEF ProbeFailed
  <1> QED BY Zenon, <1>1 DEF RouterFields, RouterNames, SameMap

\* router_choose_dst_hint() redoes the map, or uses it as it is.
LEMMA HintGood ==
    ASSUME NEW r, RouterFields(r), NEW t \in Nat, MapGood(r, t), NEW h,
           NEW p \in router_choose_dst_hint(r, t, {}, h)
    PROVE  MapGood(p.router, t)
  <1> DEFINE m == router_redo_map(r, t)
             z == [m EXCEPT !.map_failed = 0]
             q == IF r.n_dst > 0 /\ r.map_failed # 0 /\ t - r.map_failed > Retry
                  THEN z ELSE r
             reach == {i \in 1..r.n_dst : HintReaches(q, h, i)}
  <1>1. \E i : p = Chosen(ProbeFailed(q, {}, t), i)
    <2>1. CASE reach = {}
      <3>1. reach \ {} = {}
        BY <2>1
      <3> QED BY Zenon, <2>1, <3>1 DEF router_choose_dst_hint
    <2>2. CASE reach # {}
      <3>1. reach \ {} = reach
        OBVIOUS
      <3>2. PICK i \in First(reach) : p = Chosen(ProbeFailed(q, {j \in reach : j < i}, t), i)
        BY Zenon, <2>2, <3>1 DEF router_choose_dst_hint
      <3>3. reach \subseteq Int
        OBVIOUS
      <3> HIDE DEF reach
      <3>4. i \in reach /\ \A j \in reach : i <= j
        BY DEF First
      <3>5. \A j \in reach : ~(j < i)
        BY <3>3, <3>4
      <3>6. {j \in reach : j < i} = {}
        BY Zenon, <3>5
      <3> QED BY Zenon, <3>2, <3>6
    <2> QED BY <2>1, <2>2
  <1>2. RouterFields(m) /\ MapGood(m, t)
    BY RedoMapKeeps, RedoMapGood DEF MapGood
  <1>3. z = [m EXCEPT !.map_failed = 0] /\ (q = z \/ q = r)
    OBVIOUS
  <1> HIDE DEF m, z, q, reach
  <1>4. RouterFields(z) /\ SameMap(z, m)
    BY Zenon, <1>2, <1>3, ContextKeeps, EntryTypes DEF RouterFields, RouterNames, SameMap
  <1>5. RouterFields(q) /\ MapGood(q, t)
    BY <1>2, <1>3, <1>4, SameMapGood
  <1>6. MapGood(ProbeFailed(q, {}, t), t)
    BY <1>5, NoProbeSameMap, SameMapGood
  <1> QED BY <1>1, <1>6, ChosenFields

\* A choice with a map keeps the map good.
LEMMA ChooseGood ==
    ASSUME NEW r, RouterFields(r), NEW t \in Nat, MapGood(r, t), MapOnly, NEW c,
           NEW p \in router_choose_dst(r, t, c)
    PROVE  MapGood(p.router, t)
  <1> DEFINE u == router_update_ctx(r, t)
  <1>1. RouterFields(u) /\ MapGood(u, t)
    BY Zenon, UpdateCtxKeeps, UpdateCtxNoTop, SameMapGood DEF MapGood
  <1>2. PICK y \in PolicyChoices(u, t, c) :
            p = IF y.i = 0 THEN y ELSE Chosen(CountConn(y.router, y.i, 1), y.i)
    BY DEF router_choose_dst, ContextForChoice, MapOnly
  <1> HIDE DEF u
  <1>3. y.i \in 0..u.n_dst /\ RouterFields(y.router) /\ y.router.n_dst = u.n_dst
    <2>1. PlainChoice(y, u)
      BY Zenon, <1>1, PolicyKeeps
    <2> QED BY Zenon, <2>1 DEF PlainChoice, SameTable
  <1>4. MapGood(y.router, t)
    <2>1. /\ FailingProbes(u) = {{}}
          /\ cnf.policy # "least" /\ cnf.policy # "round" /\ cnf.policy # "single"
      BY DEF FailingProbes, MapOnly, router_uses_map
    <2>2. y \in UNION {router_choose_dst_hint(u, t, {}, h) : h \in Hints(c)}
      BY <2>1 DEF PolicyChoices
    <2> QED BY <1>1, <2>2, HintGood
  <1>5. CASE y.i = 0
    BY <1>2, <1>4, <1>5
  <1>6. CASE y.i # 0
    <2>1. y.i \in 1..y.router.n_dst
      BY <1>1, <1>3, <1>6, EntryTypes
    <2>2. MapGood(CountConn(y.router, y.i, 1), t)
      BY <1>3, <1>4, <2>1, CountConnSameMap, SameMapGood
    <2> QED BY <1>2, <1>6, <2>2, ChosenFields
  <1> QED BY <1>5, <1>6

\* A failure of a good destination redoes the map; a bad one has no share of it.
LEMMA DstFailedGood ==
    ASSUME NEW r, RouterFields(r), NEW i \in 1..r.n_dst, NEW t \in Nat, MapGood(r, t),
           MapOnly, NEW q \in router_dst_failed(r, i, t)
    PROVE  MapGood(q, t)
  <1> DEFINE x == r.dst[i]
             e == [x EXCEPT !.failed = t]
             f == [r EXCEPT !.dst[i] = e]
             m == router_redo_map(f, t)
  <1>1. x \in DstType
    BY EntryTypes
  <1>2. [r EXCEPT !.dst[i].failed = t] = f
    OBVIOUS
  <1>3. i # r.top_dst
    BY DEF MapGood
  <1>4. \/ ~router_dst_is_good(x, 0, t) /\ q = f
        \/ q = [m EXCEPT !.map_failed = t]
    BY <1>2, <1>3 DEF router_dst_failed, MapGood, MapOnly
  <1>5. /\ e \in DstType /\ e.weight = x.weight /\ e.map = x.map
        /\ e.addr = x.addr /\ e.conns = x.conns /\ e.usage = x.usage
    BY <1>1 DEF DstType
  <1> HIDE DEF e
  <1>6. /\ RouterFields(f) /\ f.n_dst = r.n_dst /\ f.top_dst = 0 /\ f.min_weight = 0
        /\ f.dst[i] = e /\ \A j \in 1..r.n_dst : j # i => f.dst[j] = r.dst[j]
    BY Zenon, <1>5 DEF RouterFields, RouterNames, MapGood
  <1> HIDE DEF f, m
  <1>7. CASE ~router_dst_is_good(x, 0, t) /\ q = f
    <2>1. ~(e.map > 0)
      BY <1>5, <1>7 DEF MapGood, x
    <2> QED BY <1>6, <1>7, <2>1 DEF MapGood
  <1>8. CASE q = [m EXCEPT !.map_failed = t]
    <2>1. RouterFields(m) /\ MapGood(m, t)
      BY <1>6, RedoMapKeeps, RedoMapGood DEF m
    <2>2. SameMap(q, m)
      BY Zenon, <1>8, <2>1 DEF RouterFields, RouterNames, SameMap
    <2> QED BY <2>1, <2>2, SameMapGood
  <1> QED BY <1>4, <1>7, <1>8

\* So does a disconnect.
LEMMA DisconnectGood ==
    ASSUME NEW r, RouterFields(r), NEW a, NEW failed \in BOOLEAN, NEW t \in Nat,
           MapGood(r, t), MapOnly, NEW q \in router_disconnect(r, a, failed, t)
    PROVE  MapGood(q, t)
  <1> DEFINE i == Lookup(r, a)
             d == CountConn(r, i, -1)
  <1>1. CASE i = 0
    BY <1>1 DEF router_disconnect
  <1>2. CASE i # 0
    <2>1. i \in 1..r.n_dst
      BY Zenon, <1>2, LookupFinds, EntryTypes, Position
    <2>2. q = d \/ q \in router_dst_failed(d, i, t)
      BY <1>2 DEF router_disconnect
    <2> HIDE DEF i
    <2>3. RouterFields(d) /\ d.n_dst = r.n_dst
      <3>1. -1 \in Int
        OBVIOUS
      <3>2. RouterFields(d) /\ ConnsMoved(d, r, i, -1)
        BY Zenon, <2>1, <3>1, CountConnMoves
      <3> QED BY Zenon, <3>2 DEF ConnsMoved
    <2>4. MapGood(d, t)
      BY <2>1, CountConnSameMap, SameMapGood
    <2> HIDE DEF d
    <2> QED BY <2>1, <2>2, <2>3, <2>4, DstFailedGood
  <1> QED BY <1>1, <1>2

\* A change of the table redoes the map, or there is nothing to change.
LEMMA ChangeTableGood ==
    ASSUME NEW r, RouterFields(r), NEW i \in 0..r.n_dst, NEW a \in Addrs,
           NEW w \in Nat \cup {-1}, NEW t \in Nat, i = 0 => w \in Nat,
           MapGood(r, t), MapOnly, NEW q \in ChangeTable(r, i, a, w, t)
    PROVE  MapGood(q, t)
  <1> DEFINE e == IF i = 0 THEN AddDst(r, a, w)
                  ELSE IF w < 0 THEN RemoveDst(r, i)
                  ELSE ReweighDst(r, i, w)
             u == router_update_ctx(e, t)
  <1>1. RouterFields(e) /\ e.top_dst = 0
    <2>1. CASE i = 0
      <3>1. RouterFields(AddDst(r, a, w))
        BY <2>1, AddDstAdds
      <3>2. AddDst(r, a, w).top_dst = 0
        BY Zenon DEF AddDst, RouterFields, RouterNames
      <3> QED BY <2>1, <3>1, <3>2
    <2>2. CASE i # 0 /\ w < 0
      <3>1. i \in 1..r.n_dst
        BY Zenon, <2>2, EntryTypes, Position
      <3>2. RouterFields(RemoveDst(r, i))
        BY <3>1, RemoveDstRemoves
      <3>3. RemoveDst(r, i).top_dst = 0
        BY Zenon DEF RemoveDst, RouterFields, RouterNames
      <3> QED BY <2>2, <3>2, <3>3
    <2>3. CASE i # 0 /\ w >= 0
      <3>1. i \in 1..r.n_dst /\ w \in Nat /\ ~(w < 0)
        <4>1. i \in 1..r.n_dst
          BY Zenon, <2>3, EntryTypes, Position
        <4>2. w \in Nat /\ ~(w < 0)
          BY <2>3
        <4> QED BY Zenon, <4>1, <4>2
      <3>2. RouterFields(ReweighDst(r, i, w))
        BY <3>1, ReweighDstReweighs
      <3>3. ReweighDst(r, i, w).top_dst = 0
        BY Zenon DEF ReweighDst, RouterFields, RouterNames, MapGood
      <3> QED BY Zenon, <2>3, <3>1, <3>2, <3>3
    <2> QED BY <2>1, <2>2, <2>3
  <1>2. q = r \/ q = router_redo_map(u, t)
    BY DEF ChangeTable, MapOnly
  <1> HIDE DEF e
  <1>3. RouterFields(u) /\ u.top_dst = 0 /\ u.min_weight = 0
    BY <1>1, UpdateCtxKeeps, UpdateCtxNoTop
  <1> HIDE DEF u
  <1> QED BY <1>2, <1>3, RedoMapGood

\* The invariant behind MapExcludesFailed.
MapInv == IndInv /\ (MapOnly => MapGood(router, now))

\* No step leads the map to a destination that is not good.
LEMMA NextMap == MapInv /\ [Next]_vars => MapInv'
  <1> SUFFICES ASSUME MapInv, [Next]_vars, MapOnly'
               PROVE  MapGood(router, now)'
    BY NextOK, StutterOK DEF MapInv, StepOK
  <1>1. /\ cnf' = cnf
    BY Zenon DEF Next, vars, slotVars, Admit, SocketFails, ChooseAsync, ConnectBegin, ConnectOk,
           ConnectFail, Disconnect, ChooseAgainBegin, ChooseAgainEnd, ChangeBegin,
           SpuriousWakeup, ChangeResume, Tick
  <1>2. /\ MapOnly /\ RouterFields(router) /\ now \in Nat /\ MapGood(router, now)
    BY <1>1 DEF MapOnly, router_uses_map, MapInv, IndInv, TypeOK
  <1>3. CASE router' = router /\ now' = now
    BY <1>2, <1>3
  <1>4. CASE Tick
    <2>1. router' = router /\ now' = now + 1
      BY <1>4 DEF Tick
    <2>2. ASSUME NEW i \in 1..router.n_dst, router_dst_is_good(router.dst[i], 0, now)
          PROVE  router_dst_is_good(router.dst[i], 0, now')
      <3> DEFINE d == router.dst[i]
      <3>1. d.failed \in Nat
        BY Zenon, <1>2, EntryTypes, DstFields
      <3>2. Retry \in Nat
        BY Zenon, RouterAssumption
      <3>3. d.weight > 0 /\ d.weight >= 0 /\ now - d.failed > Retry
        BY Zenon, <2>2 DEF router_dst_is_good, router_dst_is_good_base
      <3>4. now' - d.failed > Retry
        BY Zenon, <1>2, <2>1, <3>1, <3>2, <3>3, LongAgo
      <3> QED BY Zenon, <3>3, <3>4 DEF router_dst_is_good, router_dst_is_good_base
    <2> QED BY Zenon, <1>2, <2>1, <2>2 DEF MapGood
  <1>5. ASSUME NEW c \in Slots, ChooseAsync(c) \/ ConnectBegin(c) \/ ChooseAgainEnd(c)
        PROVE  MapGood(router, now)'
    <2>1. now' = now /\ \E p \in router_choose_dst(router, now, c) : router' = p.router
      BY <1>5 DEF ChooseAsync, ConnectBegin, ChooseAgainEnd
    <2> QED BY <1>2, <2>1, ChooseGood
  <1>6. ASSUME NEW c \in Slots, ConnectFail(c)
        PROVE  MapGood(router, now)'
    <2> DEFINE d == CountConn(router, ptr[c], -1)
    <2>1. /\ now' = now
          /\ \E f \in router_dst_failed(d, ptr[c], now) :
                \E p \in router_choose_dst(f, now, c) : router' = p.router
      BY Zenon, <1>6 DEF ConnectFail
    <2>2. ptr[c] \in 1..router.n_dst
      BY Zenon, <1>6 DEF ConnectFail, MapInv, IndInv, PointersInTable
    <2>3. RouterFields(d) /\ ptr[c] \in 1..d.n_dst
      <3>1. -1 \in Int
        OBVIOUS
      <3>2. RouterFields(d) /\ ConnsMoved(d, router, ptr[c], -1)
        BY Zenon, <1>2, <2>2, <3>1, CountConnMoves
      <3>3. d.n_dst = router.n_dst
        BY Zenon, <3>2 DEF ConnsMoved
      <3> QED BY Zenon, <2>2, <3>2, <3>3
    <2>4. MapGood(d, now)
      BY <1>2, <2>2, CountConnSameMap, SameMapGood
    <2> HIDE DEF d
    <2>5. \A f \in router_dst_failed(d, ptr[c], now) : RouterFields(f) /\ MapGood(f, now)
      BY <1>2, <2>3, <2>4, DstFailedKeeps, DstFailedGood
    <2> QED BY <1>2, <2>1, <2>5, ChooseGood
  <1>7. ASSUME NEW c \in Slots, NEW failed \in BOOLEAN,
               Disconnect(c, failed) \/ ChooseAgainBegin(c)
        PROVE  MapGood(router, now)'
    <2>1. /\ now' = now
          /\ \/ router' \in router_disconnect(router, peer[c], failed, now)
             \/ router' \in router_disconnect(router, peer[c], TRUE, now)
      BY Zenon, <1>7 DEF Disconnect, ChooseAgainBegin
    <2> QED BY Zenon, <1>2, <2>1, DisconnectGood
  <1>8. ASSUME NEW a \in Addrs, NEW w \in Weights, ChangeBegin(a, w)
        PROVE  MapGood(router, now)'
    <2> DEFINE i == Lookup(router, a)
    <2>1. /\ now' = now /\ (w >= 0 \/ i # 0)
          /\ router' = router \/ router' \in ChangeTable(router, i, a, w, now)
      BY <1>8 DEF ChangeBegin, Sane
    <2>2. i \in 0..router.n_dst
      BY <1>2, LookupFinds
    <2>3. w \in Nat \cup {-1} /\ (i = 0 => w \in Nat)
      BY <2>1, RouterAssumption
    <2> HIDE DEF i
    <2> QED BY <1>2, <2>1, <2>2, <2>3, ChangeTableGood
  <1>9. CASE ChangeResume
    <2>1. /\ now' = now /\ changer.pc # "idle" /\ changer.weight \in Nat \cup {-1}
          /\ \/ router' = router
             \/ router' \in ChangeTable(router, changer.i, changer.addr, changer.weight, now)
      BY <1>9 DEF ChangeResume, MapInv, IndInv, TypeOK, ChangerType
    <2>2. /\ changer.addr \in Addrs /\ changer.i \in 0..router.n_dst
          /\ changer.i = 0 => changer.weight \in Nat
      BY <2>1 DEF MapInv, IndInv, ChangerKnows
    <2> QED BY <1>2, <2>1, <2>2, ChangeTableGood
  <1>10. CASE UNCHANGED vars
    BY <1>3, <1>10 DEF vars
  <1>11. ASSUME NEW c \in Slots, ConnectOk(c) PROVE MapGood(router, now)'
    BY <1>3, <1>11 DEF ConnectOk
  <1>12. CASE Admit \/ SocketFails \/ SpuriousWakeup
    BY <1>3, <1>12 DEF Admit, SocketFails, SpuriousWakeup
  <1> QED BY Zenon, <1>4, <1>5, <1>6, <1>7, <1>8, <1>9, <1>10, <1>11, <1>12 DEF Next

\* With neither --top nor extra probes, a destination that is drained or failed
\* within the retry interval has no share of the map that router_redo_map() makes.
THEOREM MapNeverBad == Spec => []MapExcludesFailed
  <1>1. Init => MapInv
    <2> SUFFICES ASSUME Init PROVE MapGood(router, now)
      BY InitIndInv DEF MapInv
    <2>1. router.n_dst = 0 /\ router.top_dst = 0 /\ router.min_weight = 0
      BY DEF Init
    <2>2. 1..0 = {}
      OBVIOUS
    <2> QED BY Zenon, <2>1, <2>2 DEF MapGood
  <1>2. MapInv => MapExcludesFailed
    BY Zenon DEF MapInv, MapGood, MapOnly, MapExcludesFailed
  <1> QED BY <1>1, <1>2, NextMap, PTL DEF Spec

-----------------------------------------------------------------------------
(* The way back into the map                                               *)

\* What is asked of the configuration for a target to be taken back: where the
\* router hashes clients, it does so for one listener with synchronous connects;
\* no client's hash is 0, and nothing is drained.
Steady ==
    /\ \A k \in Configs : k.policy \in {"random", "source"} /\ ~k.top =>
           k.policy = "source" /\ k.synchronous /\ k.glbd /\ ~k.extra
    /\ \A c \in Slots : HintOf[c] # 0
    /\ 0 \notin Weights

\* No mark is younger than map_failed and, if that is 0, every mark is old.
Marked(r, t) ==
    \A i \in 1..r.n_dst :
        /\ r.dst[i].weight > 0 /\ r.dst[i].failed <= t
        /\ IF r.map_failed = 0 THEN router_dst_is_good_base(r.dst[i], t)
           ELSE r.dst[i].failed <= r.map_failed

\* Then the map has all destinations, or a redo of it is due.
Due(r, t) ==
    /\ Marked(r, t)
    /\ r.map_failed = 0 => \A i \in 1..r.n_dst : r.dst[i].map > 0

\* One listener connects, to a destination that was good when it was chosen and has
\* not been marked since.
Listener ==
    /\ admitted => Connecting = {}
    /\ \A c, d \in Connecting : c = d
    /\ \A c \in Connecting : router_dst_is_good_base(router.dst[ptr[c]], now)

TargetInv ==
    /\ MapInv /\ cnf \in Configs
    /\ MapOnly => /\ Due(router, now) /\ now > Retry /\ Listener
                  /\ changer.pc # "idle" => changer.weight # 0

\* q has the destinations of r with their weights and marks.
SameMarks(q, r) ==
    /\ q.n_dst = r.n_dst
    /\ \A i \in 1..r.n_dst :
          q.dst[i].weight = r.dst[i].weight /\ q.dst[i].failed = r.dst[i].failed

\* What touches neither the map nor map_failed leaves it as it is.
LEMMA SameMapDue ==
    ASSUME NEW q, NEW r, NEW t, Due(r, t), SameMap(q, r), q.map_failed = r.map_failed
    PROVE  Due(q, t) /\ SameMarks(q, r)
  <1>1. SameMarks(q, r)
    BY Zenon DEF SameMap, SameMarks
  <1>2. Marked(q, t)
    BY DEF Due, Marked, SameMap, router_dst_is_good_base
  <1>3. q.map_failed = 0 => \A i \in 1..q.n_dst : q.dst[i].map > 0
    BY DEF Due, SameMap
  <1> QED BY Zenon, <1>1, <1>2, <1>3 DEF Due

\* router_redo_map() takes every destination that is good.
LEMMA RedoMapTakes ==
    ASSUME NEW r, RouterFields(r), NEW t \in Nat, r.min_weight = 0
    PROVE  LET m == router_redo_map(r, t)
           IN  /\ SameMarks(m, r) /\ m.map_failed = r.map_failed
               /\ \A i \in 1..r.n_dst :
                     r.dst[i].weight > 0 /\ router_dst_is_good_base(r.dst[i], t)
                         => m.dst[i].map > 0
  <1> DEFINE d == [i \in 1..r.n_dst |->
                    [r.dst[i] EXCEPT !.map = IF router_dst_is_good(r.dst[i], r.min_weight, t)
                                             THEN r.dst[i].weight ELSE 0]]
             m == router_redo_map(r, t)
  <1>1. ASSUME NEW i \in 1..r.n_dst
        PROVE  /\ d[i].weight = r.dst[i].weight /\ d[i].failed = r.dst[i].failed
               /\ r.dst[i].weight > 0 /\ router_dst_is_good_base(r.dst[i], t) => d[i].map > 0
    <2>1. r.dst[i] \in DstType /\ r.dst[i].weight \in Nat
      BY EntryTypes, DstFields
    <2>2. /\ d[i].weight = r.dst[i].weight /\ d[i].failed = r.dst[i].failed
          /\ d[i].map = IF router_dst_is_good(r.dst[i], 0, t) THEN r.dst[i].weight ELSE 0
      BY <2>1 DEF DstType
    <2>3. r.dst[i].weight > 0 /\ router_dst_is_good_base(r.dst[i], t)
              => router_dst_is_good(r.dst[i], 0, t)
      BY <2>1 DEF router_dst_is_good
    <2> HIDE DEF d
    <2> QED BY <2>1, <2>2, <2>3
  <1>2. m = [r EXCEPT !.dst = d]
    BY DEF router_redo_map
  <1> HIDE DEF d
  <1>3. m.n_dst = r.n_dst /\ m.dst = d /\ m.map_failed = r.map_failed
    BY Zenon, <1>2 DEF RouterFields, RouterNames
  <1> HIDE DEF m
  <1>4. SameMarks(m, r)
    BY Zenon, <1>1, <1>3 DEF SameMarks
  <1> QED BY <1>1, <1>3, <1>4 DEF m

\* When the marks are old, it takes all of them.
LEMMA RedoMapDue ==
    ASSUME NEW r, RouterFields(r), NEW t \in Nat, r.min_weight = 0, Marked(r, t)
    PROVE  Due(router_redo_map(r, t), t)
  <1> DEFINE m == router_redo_map(r, t)
  <1>1. /\ SameMarks(m, r) /\ m.map_failed = r.map_failed
        /\ \A i \in 1..r.n_dst :
              r.dst[i].weight > 0 /\ router_dst_is_good_base(r.dst[i], t) => m.dst[i].map > 0
    BY RedoMapTakes
  <1> HIDE DEF m
  <1>2. Marked(m, t)
    BY <1>1 DEF Marked, SameMarks, router_dst_is_good_base
  <1>3. m.map_failed = 0 => \A i \in 1..m.n_dst : m.dst[i].map > 0
    BY <1>1 DEF Marked, SameMarks
  <1> QED BY <1>2, <1>3 DEF Due, m

\* The units of weight up to an entry can be counted.
LEMMA MapSumType ==
    ASSUME NEW r, RouterFields(r), NEW k \in 0..r.n_dst
    PROVE  MapSum(r, k) \in Nat
  <1> DEFINE U(j) == {j} \X (1..r.dst[j].map)
             C == {U(j) : j \in 1..k}
  <1>1. ASSUME NEW j \in 1..k PROVE IsFiniteSet(U(j))
    <2>1. r.dst[j].map \in Nat
      BY EntryTypes, DstFields
    <2>2. IsFiniteSet(1..r.dst[j].map)
      <3>1. \A m \in Nat : IsFiniteSet(1..m)
        BY FS_Interval
      <3> QED BY Zenon, <2>1, <3>1
    <2>3. IsFiniteSet({j})
      BY Zenon, FS_Singleton
    <2> QED BY Zenon, <2>2, <2>3, FS_Product
  <1>2. IsFiniteSet(1..k)
    BY EntryTypes, FS_Interval
  <1> HIDE DEF U
  <1>3. IsFiniteSet(C)
    <2>1. [j \in 1..k |-> U(j)] \in Surjection(1..k, C)
      BY Zenon DEF Surjection
    <2>2. PICK f : f \in Surjection(1..k, C)
      BY Zenon, <2>1
    <2> HIDE DEF C
    <2> QED BY <1>2, <2>2, FS_Surjection
  <1> QED BY Zenon, <1>1, <1>3, FS_UNION, FS_CardinalityType DEF MapSum, U

\* An entry without a share has no unit.
LEMMA MapSumSame ==
    ASSUME NEW r, NEW i \in Nat, i > 0, r.dst[i].map = 0
    PROVE  MapSum(r, i) = MapSum(r, i - 1)
  <1> DEFINE U(j) == {j} \X (1..r.dst[j].map)
  <1>1. \A j \in 1..i : j = i \/ j \in 1..(i - 1)
    OBVIOUS
  <1>2. \A j \in 1..(i - 1) : j \in 1..i
    OBVIOUS
  <1>3. U(i) = {}
    <2>1. 1..0 = {}
      OBVIOUS
    <2> QED BY <2>1
  <1> HIDE DEF U
  <1>4. UNION {U(j) : j \in 1..i} = UNION {U(j) : j \in 1..(i - 1)}
    <2>1. \A z : (\E j \in 1..i : z \in U(j)) <=> \E j \in 1..(i - 1) : z \in U(j)
      BY Zenon, <1>1, <1>2, <1>3
    <2> QED BY <2>1
  <1> QED BY Zenon, <1>4 DEF MapSum, U

\* There is no unit before the first entry.
LEMMA MapSumNone == \A r : MapSum(r, 0) = 0
  <1> SUFFICES ASSUME NEW r PROVE MapSum(r, 0) = 0
    OBVIOUS
  <1>1. 1..0 = {}
    OBVIOUS
  <1>2. UNION {{j} \X (1..r.dst[j].map) : j \in 1..0} = {}
    BY Zenon, <1>1
  <1> QED BY Zenon, <1>2, FS_EmptySet DEF MapSum

\* A hash other than 0 leads to a destination that has a share of the map.
LEMMA HintHits ==
    ASSUME NEW r, RouterFields(r), NEW h \in Nat, h # 0, NEW i \in 1..r.n_dst,
           HintReaches(r, h, i), \A j \in 1..r.n_dst : HintReaches(r, h, j) => i <= j
    PROVE  r.dst[i].map > 0
  <1> DEFINE n == r.n_dst
             total == MapSum(r, n)
  <1>1. n \in Nat /\ r.dst[i].map \in Nat /\ total \in Nat
    BY EntryTypes, DstFields, MapSumType
  <1>2. total # 0 /\ h * total <= MapSum(r, i) * HintMax
    BY DEF HintReaches
  <1> SUFFICES ASSUME r.dst[i].map = 0 PROVE FALSE
    BY <1>1
  <1>3. MapSum(r, i) = MapSum(r, i - 1)
    BY <1>1, MapSumSame
  <1>4. CASE i = 1
    <2>1. MapSum(r, i) = 0
      BY <1>3, <1>4, MapSumNone
    <2>2. h * total <= 0
      BY <1>2, <2>1, RouterAssumption
    <2> HIDE DEF total
    <2> QED BY <1>1, <1>2, <2>2
  <1>5. CASE i # 1
    <2>1. i - 1 \in 1..n /\ ~(i <= i - 1)
      BY <1>1, <1>5
    <2>2. HintReaches(r, h, i - 1)
      BY <1>2, <1>3 DEF HintReaches
    <2> QED BY <2>1, <2>2
  <1> QED BY <1>4, <1>5

\* router_choose_dst_hint() with such a hash: the choice has a share of the map.
LEMMA HintDue ==
    ASSUME NEW r, RouterFields(r), NEW t \in Nat, MapGood(r, t), Due(r, t),
           NEW h \in Nat, h # 0, NEW p \in router_choose_dst_hint(r, t, {}, h)
    PROVE  /\ Due(p.router, t) /\ SameMarks(p.router, r)
           /\ p.i # 0 => p.i \in 1..r.n_dst /\ p.router.dst[p.i].map > 0
  <1> DEFINE m == router_redo_map(r, t)
             z == [m EXCEPT !.map_failed = 0]
             redo == r.n_dst > 0 /\ r.map_failed # 0 /\ t - r.map_failed > Retry
             q == IF redo THEN z ELSE r
             reach == {i \in 1..r.n_dst : HintReaches(q, h, i)}
             o == ProbeFailed(q, {}, t)
  <1>1. \/ p = Chosen(o, 0)
        \/ \E i \in reach : p = Chosen(o, i) /\ \A j \in reach : i <= j
    <2>1. CASE reach = {}
      <3>1. reach \ {} = {}
        BY <2>1
      <3> QED BY Zenon, <2>1, <3>1 DEF router_choose_dst_hint
    <2>2. CASE reach # {}
      <3>1. reach \ {} = reach
        OBVIOUS
      <3>2. PICK i \in First(reach) : p = Chosen(ProbeFailed(q, {j \in reach : j < i}, t), i)
        BY Zenon, <2>2, <3>1 DEF router_choose_dst_hint
      <3>3. reach \subseteq Int
        OBVIOUS
      <3> HIDE DEF reach
      <3>4. i \in reach /\ \A j \in reach : i <= j
        BY DEF First
      <3>5. \A j \in reach : ~(j < i)
        BY <3>3, <3>4
      <3>6. {j \in reach : j < i} = {}
        BY Zenon, <3>5
      <3> QED BY Zenon, <3>2, <3>4, <3>6
    <2> QED BY <2>1, <2>2
  <1>2. RouterFields(q) /\ Due(q, t) /\ SameMarks(q, r)
    <2>1. CASE ~redo
      BY <2>1 DEF SameMarks
    <2>2. CASE redo
      <3>1. RouterFields(m) /\ Marked(r, t) /\ r.min_weight = 0
        BY RedoMapKeeps DEF MapGood, Due
      <3>2. /\ SameMarks(m, r)
            /\ \A i \in 1..r.n_dst : router_dst_is_good_base(r.dst[i], t) => m.dst[i].map > 0
        BY <3>1, RedoMapTakes DEF Marked
      <3>3. ASSUME NEW i \in 1..r.n_dst PROVE router_dst_is_good_base(r.dst[i], t)
        <4>1. r.dst[i].failed \in Nat /\ r.map_failed \in Nat /\ Retry \in Nat
          BY Zenon, EntryTypes, DstFields, RouterAssumption DEF RouterFields
        <4>2. r.dst[i].failed <= r.map_failed /\ t - r.map_failed > Retry
          BY <2>2, <3>1 DEF Marked
        <4> QED BY <4>1, <4>2 DEF router_dst_is_good_base
      <3> HIDE DEF m
      <3>4. /\ RouterFields(z) /\ z.n_dst = m.n_dst /\ z.dst = m.dst /\ z.map_failed = 0
        BY Zenon, <3>1, ContextKeeps, EntryTypes DEF RouterFields, RouterNames
      <3> HIDE DEF z
      <3>5. SameMarks(z, r) /\ z.n_dst = r.n_dst
        BY Zenon, <3>2, <3>4 DEF SameMarks
      <3>6. Marked(z, t)
        BY <3>1, <3>3, <3>4, <3>5 DEF Marked, SameMarks, router_dst_is_good_base
      <3>7. Due(z, t)
        BY <3>2, <3>3, <3>4, <3>5, <3>6 DEF Due
      <3> QED BY <2>2, <3>4, <3>5, <3>7
    <2> QED BY <2>1, <2>2
  <1> HIDE DEF q
  <1>3. SameMap(o, q) /\ o.map_failed = q.map_failed
    <2>1. ProbeFailed(q, {}, t) = [q EXCEPT !.dst = [i \in 1..q.n_dst |-> q.dst[i]]]
      BY DEF ProbeFailed
    <2> QED BY Zenon, <1>2, <2>1, NoProbeSameMap DEF RouterFields, RouterNames
  <1>4. Due(o, t) /\ SameMarks(o, r)
    <2>1. Due(o, t) /\ SameMarks(o, q)
      BY <1>2, <1>3, SameMapDue
    <2> QED BY Zenon, <1>2, <2>1 DEF SameMarks
  <1>5. ASSUME NEW i \in reach, \A j \in reach : i <= j
        PROVE  i \in 1..r.n_dst /\ o.dst[i].map > 0
    <2>1. q.n_dst = r.n_dst /\ i \in 1..r.n_dst
      BY <1>2 DEF SameMarks
    <2>2. q.dst[i].map > 0
      BY <1>2, <1>5, <2>1, HintHits
    <2> QED BY <1>3, <2>1, <2>2 DEF SameMap
  <1> HIDE DEF o, reach
  <1>6. CASE p = Chosen(o, 0)
    BY <1>4, <1>6, ChosenFields
  <1>7. CASE \E i \in reach : p = Chosen(o, i) /\ \A j \in reach : i <= j
    <2>1. PICK i \in reach : p = Chosen(o, i) /\ \A j \in reach : i <= j
      BY Zenon, <1>7
    <2>2. i \in 1..r.n_dst /\ o.dst[i].map > 0
      BY Zenon, <1>5, <2>1
    <2> QED BY <1>4, <2>1, <2>2, ChosenFields
  <1> QED BY <1>1, <1>6, <1>7

\* Nor does a count change anything of that.
LEMMA CountConnDue ==
    ASSUME NEW r, RouterFields(r), NEW i \in 1..r.n_dst, NEW k \in Int, NEW t, Due(r, t)
    PROVE  LET q == CountConn(r, i, k)
           IN  Due(q, t) /\ SameMarks(q, r) /\ SameMap(q, r)
  <1> DEFINE q == CountConn(r, i, k)
             d == [r.dst[i] EXCEPT !.conns = @ + k]
             e == [d EXCEPT !.usage = router_dst_usage(d)]
             n == r.conns + k
  <1>1. q = r \/ q = [r EXCEPT !.conns = n, !.dst[i] = e]
    BY DEF CountConn
  <1> HIDE DEF e, n
  <1>2. q.map_failed = r.map_failed
    <2> HIDE DEF q
    <2> QED BY Zenon, <1>1 DEF RouterFields, RouterNames
  <1>3. SameMap(q, r)
    BY CountConnSameMap
  <1> HIDE DEF q
  <1>4. Due(q, t) /\ SameMarks(q, r)
    BY <1>2, <1>3, SameMapDue
  <1> QED BY <1>3, <1>4 DEF q

\* Steady choices: whatever is chosen is good.
LEMMA ChooseDue ==
    ASSUME NEW r, RouterFields(r), NEW t \in Nat, MapGood(r, t), Due(r, t), MapOnly,
           cnf.policy = "source", NEW c \in Slots, HintOf[c] # 0,
           NEW p \in router_choose_dst(r, t, c)
    PROVE  /\ Due(p.router, t) /\ SameMarks(p.router, r)
           /\ p.i # 0 => /\ p.i \in 1..r.n_dst
                         /\ router_dst_is_good_base(p.router.dst[p.i], t)
  <1> DEFINE u == router_update_ctx(r, t)
  <1>1. RouterFields(u) /\ MapGood(u, t) /\ SameMap(u, r)
    BY Zenon, UpdateCtxKeeps, UpdateCtxNoTop, SameMapGood DEF MapGood
  <1>2. u.map_failed = r.map_failed
    BY Zenon DEF router_update_ctx, RouterFields, RouterNames
  <1>3. Due(u, t) /\ SameMarks(u, r)
    BY <1>1, <1>2, SameMapDue
  <1>4. PICK y \in PolicyChoices(u, t, c) :
            p = IF y.i = 0 THEN y ELSE Chosen(CountConn(y.router, y.i, 1), y.i)
    BY DEF router_choose_dst, ContextForChoice, MapOnly
  <1> HIDE DEF u
  <1>5. RouterFields(y.router) /\ y.router.n_dst = u.n_dst
    <2>1. PlainChoice(y, u)
      BY Zenon, <1>1, PolicyKeeps
    <2> QED BY Zenon, <2>1 DEF PlainChoice, SameTable
  <1>6. /\ Due(y.router, t) /\ SameMarks(y.router, u)
        /\ y.i # 0 => y.i \in 1..u.n_dst /\ y.router.dst[y.i].map > 0
    <2>1. FailingProbes(u) = {{}} /\ Hints(c) = {HintOf[c]}
      BY DEF FailingProbes, MapOnly, Hints
    <2>2. y \in router_choose_dst_hint(u, t, {}, HintOf[c])
      BY <2>1 DEF PolicyChoices
    <2>3. HintOf[c] \in Nat
      BY RouterAssumption
    <2> QED BY <1>1, <1>3, <2>2, <2>3, HintDue
  <1>7. CASE y.i = 0
    BY <1>3, <1>4, <1>6, <1>7 DEF SameMarks
  <1>8. CASE y.i # 0
    <2> DEFINE q == CountConn(y.router, y.i, 1)
    <2>1. y.i \in 1..y.router.n_dst /\ y.router.dst[y.i].map > 0
      BY Zenon, <1>5, <1>6, <1>8
    <2>2. Due(q, t) /\ SameMarks(q, y.router) /\ SameMap(q, y.router)
      <3>1. 1 \in Int
        OBVIOUS
      <3> QED BY Zenon, <1>5, <1>6, <2>1, <3>1, CountConnDue
    <2>3. p = Chosen(q, y.i)
      BY <1>4, <1>8
    <2> HIDE DEF q
    <2>5. SameMarks(q, r) /\ y.i \in 1..r.n_dst
      BY Zenon, <1>3, <1>5, <1>6, <2>1, <2>2 DEF SameMarks
    <2>6. MapGood(p.router, t)
      BY ChooseGood
    <2>7. p.router = q /\ p.i = y.i
      BY <2>3, ChosenFields
    <2>8. router_dst_is_good_base(q.dst[y.i], t)
      BY <2>1, <2>2, <2>5, <2>6, <2>7 DEF MapGood, SameMap, SameMarks, router_dst_is_good
    <2> QED BY <2>2, <2>5, <2>7, <2>8
  <1> QED BY <1>7, <1>8

\* A connect fails: the destination was good, and so the map is redone, and marked to
\* be redone again.
LEMMA DstFailedDue ==
    ASSUME NEW r, RouterFields(r), NEW i \in 1..r.n_dst, NEW t \in Nat, MapGood(r, t),
           Due(r, t), MapOnly, t # 0, router_dst_is_good_base(r.dst[i], t),
           NEW q \in router_dst_failed(r, i, t)
    PROVE  Due(q, t)
  <1> DEFINE x == r.dst[i]
             e == [x EXCEPT !.failed = t]
             f == [r EXCEPT !.dst[i] = e]
             m == router_redo_map(f, t)
  <1>1. x \in DstType /\ x.weight \in Nat
    BY EntryTypes, DstFields
  <1>2. [r EXCEPT !.dst[i].failed = t] = f
    OBVIOUS
  <1>3. i # r.top_dst
    BY DEF MapGood
  <1>4. router_dst_is_good(x, 0, t)
    <2>1. x.weight > 0
      BY Zenon DEF Due, Marked
    <2> HIDE DEF x
    <2>2. x.weight > 0 => router_dst_is_good(x, 0, t)
      BY <1>1 DEF router_dst_is_good, x
    <2> QED BY <2>1, <2>2
  <1>5. q = [m EXCEPT !.map_failed = t]
    BY <1>2, <1>3, <1>4 DEF router_dst_failed, MapGood, MapOnly
  <1>6. e \in DstType /\ e.weight = x.weight /\ e.failed = t
    BY <1>1 DEF DstType
  <1> HIDE DEF e
  <1>7. /\ RouterFields(f) /\ f.n_dst = r.n_dst /\ f.min_weight = 0
        /\ f.dst[i] = e /\ \A j \in 1..r.n_dst : j # i => f.dst[j] = r.dst[j]
    BY Zenon, <1>6 DEF RouterFields, RouterNames, MapGood
  <1> HIDE DEF f
  <1>8. RouterFields(m) /\ SameMarks(m, f)
    BY <1>7, RedoMapKeeps, RedoMapTakes
  <1> HIDE DEF m
  <1>9. q.n_dst = m.n_dst /\ q.dst = m.dst /\ q.map_failed = t
    BY Zenon, <1>5, <1>8 DEF RouterFields, RouterNames
  <1>10. ASSUME NEW j \in 1..r.n_dst
         PROVE  f.dst[j].weight > 0 /\ f.dst[j].failed <= t
    <2>0. r.dst[j].weight > 0 /\ r.dst[j].failed <= t
      BY Zenon DEF Due, Marked
    <2>1. CASE j = i
      <3>1. f.dst[j].weight = x.weight /\ f.dst[j].failed = t
        BY Zenon, <1>6, <1>7, <2>1
      <3> QED BY <2>0, <2>1, <3>1
    <2>2. CASE j # i
      BY Zenon, <1>7, <2>0, <2>2
    <2> QED BY <2>1, <2>2
  <1>11. q.n_dst = r.n_dst /\ \A j \in 1..r.n_dst : q.dst[j].weight > 0 /\ q.dst[j].failed <= t
    <2>1. q.n_dst = r.n_dst
      BY Zenon, <1>7, <1>8, <1>9 DEF SameMarks
    <2>2. \A j \in 1..r.n_dst : q.dst[j].weight = f.dst[j].weight /\ q.dst[j].failed = f.dst[j].failed
      BY Zenon, <1>7, <1>8, <1>9 DEF SameMarks
    <2> QED BY Zenon, <1>10, <2>1, <2>2
  <1> QED BY <1>9, <1>11 DEF Due, Marked

\* An addition comes unmarked,
LEMMA AddDstMarked ==
    ASSUME NEW r, RouterFields(r), NEW a \in Addrs, NEW w \in Nat, w # 0, NEW t \in Nat,
           t > Retry, Marked(r, t)
    PROVE  Marked(AddDst(r, a, w), t)
  <1> DEFINE e == AddDst(r, a, w)
             n == r.n_dst
             d == [j \in 1..(n + 1) |-> IF j = n + 1 THEN NewDst(a, w) ELSE r.dst[j]]
  <1>1. n \in Nat /\ r.map_failed \in Nat /\ Retry \in Nat
    BY RouterAssumption DEF RouterFields
  <1>2. e.n_dst = n + 1 /\ e.dst = d /\ e.map_failed = r.map_failed
    <2> HIDE DEF d
    <2>1. e = [r EXCEPT !.n_dst = n + 1, !.top_dst = 0, !.dst = d]
      BY DEF AddDst, d
    <2> HIDE DEF e, n
    <2> QED BY Zenon, <2>1 DEF RouterFields, RouterNames
  <1>3. ASSUME NEW j \in 1..(n + 1)
        PROVE  /\ d[j].weight > 0 /\ d[j].failed <= t
               /\ IF r.map_failed = 0 THEN router_dst_is_good_base(d[j], t)
                  ELSE d[j].failed <= r.map_failed
    <2>1. CASE j = n + 1
      <3>1. d[j].weight = w /\ d[j].failed = 0
        BY <2>1 DEF NewDst
      <3> HIDE DEF d
      <3> QED BY <1>1, <3>1 DEF router_dst_is_good_base
    <2>2. CASE j # n + 1
      <3>1. d[j] = r.dst[j] /\ j \in 1..n
        <4>1. j \in 1..n
          BY <1>1, <2>2
        <4> QED BY Zenon, <2>2, <4>1
      <3> QED BY Zenon, <3>1 DEF Marked
    <2> QED BY <2>1, <2>2
  <1> HIDE DEF d, e
  <1>4. \A j \in 1..e.n_dst :
            /\ e.dst[j].weight > 0 /\ e.dst[j].failed <= t
            /\ IF e.map_failed = 0 THEN router_dst_is_good_base(e.dst[j], t)
               ELSE e.dst[j].failed <= e.map_failed
    BY <1>2, <1>3
  <1> QED BY Zenon, <1>4 DEF Marked, e

\* a removal leaves the others,
LEMMA RemoveDstMarked ==
    ASSUME NEW r, RouterFields(r), NEW i \in 1..r.n_dst, NEW t \in Nat, Marked(r, t)
    PROVE  Marked(RemoveDst(r, i), t)
  <1> DEFINE e == RemoveDst(r, i)
             n == r.n_dst - 1
             d == [j \in 1..n |-> IF j = i THEN r.dst[r.n_dst] ELSE r.dst[j]]
             k == r.conns - r.dst[i].conns
             x == IF n > 0 THEN r.rrb_next % n ELSE 0
  <1>1. r.n_dst \in Nat
    BY DEF RouterFields
  <1>2. e.n_dst = n /\ e.dst = d /\ e.map_failed = r.map_failed
    <2> HIDE DEF d, k, x
    <2>1. e = [r EXCEPT !.n_dst = n, !.top_dst = 0, !.conns = k, !.rrb_next = x, !.dst = d]
      BY DEF RemoveDst, d, k, x
    <2> HIDE DEF e, n
    <2> QED BY Zenon, <2>1 DEF RouterFields, RouterNames
  <1>3. \A j \in 1..n : \E l \in 1..r.n_dst : d[j] = r.dst[l]
    <2>1. \A j \in 1..n : j \in 1..r.n_dst
      BY <1>1
    <2>2. r.n_dst \in 1..r.n_dst
      BY <1>1
    <2> HIDE DEF n
    <2> QED BY <2>1, <2>2
  <1> HIDE DEF d, e, n
  <1> QED BY <1>2, <1>3 DEF Marked, e

\* and a change of weight leaves the marks.
LEMMA ReweighDstMarked ==
    ASSUME NEW r, RouterFields(r), NEW i \in 1..r.n_dst, NEW w \in Nat, w # 0,
           NEW t \in Nat, Marked(r, t)
    PROVE  LET e == ReweighDst(r, i, w)
           IN  /\ Marked(e, t) /\ e.n_dst = r.n_dst
               /\ \A j \in 1..r.n_dst : e.dst[j].failed = r.dst[j].failed
  <1> DEFINE x == r.dst[i]
             d == [x EXCEPT !.weight = w]
             y == [d EXCEPT !.usage = router_dst_usage(d)]
             e == ReweighDst(r, i, w)
  <1>1. x \in DstType
    BY EntryTypes
  <1>2. y.weight = w /\ y.failed = x.failed
    BY Zenon, <1>1 DEF DstType
  <1>3. e = [r EXCEPT !.dst[i] = y]
    BY DEF ReweighDst
  <1> HIDE DEF y, e
  <1>4. /\ e.n_dst = r.n_dst /\ e.map_failed = r.map_failed
        /\ e.dst[i] = y /\ \A j \in 1..r.n_dst : j # i => e.dst[j] = r.dst[j]
    BY Zenon, <1>3 DEF RouterFields, RouterNames
  <1>5. \A j \in 1..r.n_dst : e.dst[j].failed = r.dst[j].failed /\ e.dst[j].weight > 0
    <2>1. e.dst[i].failed = r.dst[i].failed /\ e.dst[i].weight > 0
      BY <1>2, <1>4
    <2> QED BY Zenon, <1>4, <2>1 DEF Marked
  <1>6. Marked(e, t)
    BY <1>4, <1>5 DEF Marked, router_dst_is_good_base
  <1> QED BY <1>4, <1>5, <1>6 DEF e

\* A change of the table: whatever is left and may be used is in the map.
LEMMA ChangeTableDue ==
    ASSUME NEW r, RouterFields(r), NEW i \in 0..r.n_dst, NEW a \in Addrs,
           NEW w \in Nat \cup {-1}, w # 0, NEW t \in Nat, t > Retry, i = 0 => w \in Nat,
           MapGood(r, t), Due(r, t), MapOnly, NEW q \in ChangeTable(r, i, a, w, t)
    PROVE  /\ Due(q, t)
           /\ i # 0 /\ w >= 0 =>
                 /\ q.n_dst = r.n_dst
                 /\ \A j \in 1..r.n_dst : q.dst[j].failed = r.dst[j].failed
  <1> DEFINE e == IF i = 0 THEN AddDst(r, a, w)
                  ELSE IF w < 0 THEN RemoveDst(r, i)
                  ELSE ReweighDst(r, i, w)
             u == router_update_ctx(e, t)
             m == router_redo_map(u, t)
  <1>0. Marked(r, t)
    BY DEF Due
  <1>1. /\ RouterFields(e) /\ e.top_dst = 0 /\ Marked(e, t)
        /\ i # 0 /\ w >= 0 =>
              /\ e.n_dst = r.n_dst
              /\ \A j \in 1..r.n_dst : e.dst[j].failed = r.dst[j].failed
    <2>1. CASE i = 0
      <3>1. RouterFields(AddDst(r, a, w)) /\ Marked(AddDst(r, a, w), t)
        BY <1>0, <2>1, AddDstAdds, AddDstMarked
      <3>2. AddDst(r, a, w).top_dst = 0
        BY Zenon DEF AddDst, RouterFields, RouterNames
      <3>3. e = AddDst(r, a, w)
        BY Zenon, <2>1
      <3> HIDE DEF e
      <3> QED BY Zenon, <2>1, <3>1, <3>2, <3>3
    <2>2. CASE i # 0 /\ w < 0
      <3>1. i \in 1..r.n_dst
        BY Zenon, <2>2, EntryTypes, Position
      <3>2. RouterFields(RemoveDst(r, i)) /\ Marked(RemoveDst(r, i), t)
        BY <1>0, <3>1, RemoveDstRemoves, RemoveDstMarked
      <3>3. RemoveDst(r, i).top_dst = 0
        BY Zenon DEF RemoveDst, RouterFields, RouterNames
      <3>4. e = RemoveDst(r, i)
        BY Zenon, <2>2
      <3>5. ~(w >= 0)
        BY <2>2
      <3> HIDE DEF e
      <3> QED BY Zenon, <3>2, <3>3, <3>4, <3>5
    <2>3. CASE i # 0 /\ w >= 0
      <3>1. i \in 1..r.n_dst /\ w \in Nat /\ ~(w < 0)
        <4>1. i \in 1..r.n_dst
          BY Zenon, <2>3, EntryTypes, Position
        <4>2. w \in Nat /\ ~(w < 0)
          BY <2>3
        <4> QED BY Zenon, <4>1, <4>2
      <3>2. /\ RouterFields(ReweighDst(r, i, w)) /\ Marked(ReweighDst(r, i, w), t)
            /\ ReweighDst(r, i, w).n_dst = r.n_dst
            /\ \A j \in 1..r.n_dst : ReweighDst(r, i, w).dst[j].failed = r.dst[j].failed
        BY <1>0, <3>1, ReweighDstReweighs, ReweighDstMarked
      <3>3. ReweighDst(r, i, w).top_dst = 0
        BY Zenon DEF ReweighDst, RouterFields, RouterNames, MapGood
      <3>4. e = ReweighDst(r, i, w)
        BY <2>3, <3>1
      <3> HIDE DEF e
      <3> QED BY Zenon, <3>2, <3>3, <3>4
    <2>4. i = 0 \/ (i # 0 /\ w < 0) \/ (i # 0 /\ w >= 0)
      <3>1. w < 0 \/ w >= 0
        OBVIOUS
      <3> QED BY Zenon, <3>1
    <2> HIDE DEF e
    <2> QED BY Zenon, <2>1, <2>2, <2>3, <2>4
  <1>2. q = r \/ q = m
    BY DEF ChangeTable, MapOnly
  <1> HIDE DEF e
  <1>3. RouterFields(u) /\ u.min_weight = 0 /\ SameTable(u, e)
    BY <1>1, UpdateCtxKeeps, UpdateCtxNoTop
  <1>4. u.dst = e.dst /\ u.n_dst = e.n_dst /\ u.map_failed = e.map_failed
    BY Zenon, <1>1 DEF router_update_ctx, RouterFields, RouterNames
  <1> HIDE DEF u
  <1>5. Marked(u, t)
    BY Zenon, <1>1, <1>4 DEF Marked
  <1>6. Due(m, t) /\ SameMarks(m, u)
    BY <1>3, <1>5, RedoMapDue, RedoMapTakes
  <1> HIDE DEF m
  <1>7. CASE q = r
    BY <1>7
  <1>8. CASE q = m
    BY <1>1, <1>4, <1>6, <1>8 DEF SameMarks
  <1> QED BY <1>2, <1>7, <1>8

\* What the invariant says of a steady configuration.
LEMMA TargetFacts ==
    ASSUME Steady, TargetInv, MapOnly
    PROVE  /\ IndInv /\ TypeOK /\ RouterFields(router) /\ now \in Nat /\ Retry \in Nat
           /\ MapGood(router, now) /\ Due(router, now) /\ now > Retry /\ now # 0 /\ Listener
           /\ changer.pc # "idle" => changer.weight # 0
           /\ cnf.policy = "source" /\ cnf.synchronous /\ cnf.glbd
  <1>1. /\ IndInv /\ TypeOK /\ RouterFields(router) /\ now \in Nat
        /\ MapGood(router, now) /\ Due(router, now) /\ now > Retry /\ Listener
        /\ changer.pc # "idle" => changer.weight # 0
    BY Zenon DEF TargetInv, MapInv, IndInv, TypeOK
  <1>2. Retry \in Nat
    BY RouterAssumption
  <1>3. cnf.policy = "source" /\ cnf.synchronous /\ cnf.glbd
    BY Zenon DEF TargetInv, MapOnly, router_uses_map, Steady
  <1>4. now # 0
    BY <1>1, <1>2
  <1> QED BY Zenon, <1>1, <1>2, <1>3, <1>4

\* Nobody begins to connect, and the marks stay.
LEMMA ListenerKept ==
    ASSUME IndInv, Listener, now' = now \/ now' = now + 1,
           \A j \in 1..router.n_dst : router'.dst[j].failed = router.dst[j].failed,
           Connecting' \subseteq Connecting, \A c \in Connecting' : ptr'[c] = ptr[c],
           admitted' => Connecting' = {}
    PROVE  Listener'
  <1>1. ASSUME NEW c \in Connecting'
        PROVE  router_dst_is_good_base(router'.dst[ptr'[c]], now')
    <2> DEFINE i == ptr[c]
               f == router.dst[i].failed
    <2>1. i \in 1..router.n_dst /\ c \in Connecting
      BY DEF IndInv, PointersInTable, Connecting
    <2>2. f \in Nat /\ now \in Nat /\ Retry \in Nat
      BY <2>1, EntryTypes, DstFields, RouterAssumption DEF IndInv, TypeOK
    <2>3. now - f > Retry
      BY <2>1 DEF Listener, router_dst_is_good_base
    <2>4. router'.dst[ptr'[c]].failed = f
      BY <2>1
    <2> HIDE DEF f
    <2>5. now' - f > Retry
      BY <2>2, <2>3
    <2> QED BY <2>4, <2>5 DEF router_dst_is_good_base
  <1>2. \A c, d \in Connecting' : c = d
    BY DEF Listener
  <1> QED BY Zenon, <1>1, <1>2 DEF Listener

\* A connect by slot c, the only one there is, goes to a good destination or to none.
LEMMA ListenerChooses ==
    ASSUME IndInv, NEW c \in Slots, Connecting \subseteq {c}, ~admitted', now' = now,
           NEW i \in Nat,
           \/ i = 0 /\ UNCHANGED slotVars /\ Connecting = {}
           \/ i = 0 /\ Become(c, "idle", 0, NoAddr)
           \/ /\ i # 0 /\ Become(c, "connecting", i, NoAddr)
              /\ router_dst_is_good_base(router'.dst[i], now)
    PROVE  Listener'
  <1>1. TypeOK /\ "idle" \in SlotStates /\ "connecting" \in SlotStates /\ 0 \in Nat
    BY DEF IndInv, SlotStates
  <1>2. CASE UNCHANGED slotVars /\ Connecting = {}
    <2>1. Connecting' = {}
      BY <1>2 DEF slotVars, Connecting
    <2> QED BY <2>1 DEF Listener
  <1>3. CASE Become(c, "idle", 0, NoAddr)
    <2>1. st'[c] = "idle" /\ \A d \in Slots : d # c => st'[d] = st[d]
      <3>1. NoAddr \in Addrs \cup {NoAddr}
        BY Zenon
      <3> QED BY Zenon, <1>1, <1>3, <3>1, BecomeSlot
    <2>2. Connecting' = {}
      BY <2>1 DEF Connecting
    <2> QED BY <2>2 DEF Listener
  <1>4. CASE /\ i # 0 /\ Become(c, "connecting", i, NoAddr)
             /\ router_dst_is_good_base(router'.dst[i], now)
    <2>1. ptr'[c] = i /\ \A d \in Slots : d # c => st'[d] = st[d]
      <3>1. st \in [Slots -> SlotStates] /\ ptr \in [Slots -> Nat]
        BY Zenon, <1>1 DEF TypeOK
      <3>2. st' = [st EXCEPT ![c] = "connecting"] /\ ptr' = [ptr EXCEPT ![c] = i]
        BY Zenon, <1>4 DEF Become
      <3> QED BY Zenon, <3>1, <3>2
    <2>2. \A d \in Connecting' : d = c
      BY <2>1 DEF Connecting
    <2> QED BY <1>4, <2>1, <2>2 DEF Listener
  <1> QED BY <1>2, <1>3, <1>4

\* The listener begins to connect.
LEMMA ConnectBeginDue ==
    ASSUME Steady, TargetInv, MapOnly, NEW c \in Slots, ConnectBegin(c)
    PROVE  Due(router', now') /\ Listener'
  <1>1. /\ IndInv /\ RouterFields(router) /\ now \in Nat
        /\ MapGood(router, now) /\ Due(router, now) /\ Listener
        /\ cnf.policy = "source" /\ cnf.glbd /\ HintOf[c] # 0
    BY Zenon, TargetFacts DEF Steady
  <1>2. PICK p \in router_choose_dst(router, now, c) :
            /\ router' = p.router
            /\ IF p.i = 0 THEN UNCHANGED slotVars
               ELSE Become(c, "connecting", p.i, NoAddr)
    BY DEF ConnectBegin
  <1>3. /\ Due(p.router, now)
        /\ p.i # 0 => /\ p.i \in 1..router.n_dst
                      /\ router_dst_is_good_base(p.router.dst[p.i], now)
    BY Zenon, <1>1, ChooseDue
  <1>4. ~admitted' /\ now' = now /\ Connecting = {}
    BY <1>1 DEF ConnectBegin, Listener
  <1>5. p.i \in Nat
    <2>1. p.i = 0 \/ p.i \in 1..router.n_dst
      BY Zenon, <1>3
    <2> QED BY <2>1
  <1>6. Listener'
    BY <1>1, <1>2, <1>3, <1>4, <1>5, ListenerChooses
  <1> QED BY <1>2, <1>3, <1>4, <1>6

\* Its connect fails, and it chooses again.
LEMMA ConnectFailDue ==
    ASSUME Steady, TargetInv, MapOnly, NEW c \in Slots, ConnectFail(c)
    PROVE  Due(router', now') /\ Listener'
  <1>1. /\ IndInv /\ RouterFields(router) /\ now \in Nat /\ now # 0
        /\ MapGood(router, now) /\ Due(router, now) /\ Listener
        /\ cnf.policy = "source" /\ HintOf[c] # 0
    BY Zenon, TargetFacts DEF Steady
  <1> DEFINE i == ptr[c]
             d == CountConn(router, i, -1)
  <1>2. PICK f \in router_dst_failed(d, i, now) :
            \E p \in router_choose_dst(f, now, c) :
               /\ router' = p.router
               /\ IF p.i = 0 THEN Become(c, "idle", 0, NoAddr)
                  ELSE Become(c, "connecting", p.i, NoAddr)
    BY Zenon DEF ConnectFail
  <1>3. PICK p \in router_choose_dst(f, now, c) :
               /\ router' = p.router
               /\ IF p.i = 0 THEN Become(c, "idle", 0, NoAddr)
                  ELSE Become(c, "connecting", p.i, NoAddr)
    BY <1>2
  <1>4. c \in Connecting /\ i \in 1..router.n_dst
    BY <1>1 DEF ConnectFail, Connecting, IndInv, PointersInTable
  <1>5. router_dst_is_good_base(router.dst[i], now)
    BY <1>1, <1>4 DEF Listener
  <1>6. -1 \in Int
    OBVIOUS
  <1>7. RouterFields(d) /\ ConnsMoved(d, router, i, -1) /\ Due(d, now) /\ SameMarks(d, router)
    BY Zenon, <1>1, <1>4, <1>6, CountConnMoves, CountConnDue
  <1>8. MapGood(d, now)
    BY <1>1, <1>4, <1>6, CountConnSameMap, SameMapGood
  <1>9. i \in 1..d.n_dst /\ router_dst_is_good_base(d.dst[i], now)
    BY Zenon, <1>4, <1>5, <1>7 DEF SameMarks, router_dst_is_good_base
  <1> HIDE DEF d
  <1>10. RouterFields(f) /\ MapGood(f, now) /\ Due(f, now) /\ f.n_dst \in Nat
    BY Zenon, <1>1, <1>7, <1>8, <1>9, DstFailedKeeps, DstFailedGood, DstFailedDue, EntryTypes
  <1>11. /\ Due(p.router, now)
         /\ p.i # 0 => /\ p.i \in 1..f.n_dst
                       /\ router_dst_is_good_base(p.router.dst[p.i], now)
    BY Zenon, <1>1, <1>10, ChooseDue
  <1>12. p.i \in Nat
    <2>1. p.i = 0 \/ p.i \in 1..f.n_dst
      BY Zenon, <1>11
    <2> QED BY <2>1
  <1>13. ~admitted' /\ now' = now /\ Connecting \subseteq {c}
    BY <1>1, <1>4 DEF ConnectFail, Listener
  <1> HIDE DEF i
  <1>14. Listener'
    BY <1>1, <1>3, <1>11, <1>12, <1>13, ListenerChooses
  <1> QED BY <1>3, <1>11, <1>13, <1>14

\* Other slots than the one that connects come and go.
LEMMA SlotDue ==
    ASSUME Steady, TargetInv, MapOnly, NEW c \in Slots,
           ConnectOk(c) \/ (\E failed \in BOOLEAN : Disconnect(c, failed))
               \/ ChooseAgainEnd(c)
    PROVE  Due(router', now') /\ Listener'
  <1>1. /\ IndInv /\ TypeOK /\ RouterFields(router) /\ now \in Nat
        /\ MapGood(router, now) /\ Due(router, now) /\ Listener
        /\ cnf.policy = "source" /\ cnf.synchronous /\ HintOf[c] # 0
    BY Zenon, TargetFacts DEF Steady
  <1>2. now' = now /\ admitted' = admitted
    BY DEF ConnectOk, Disconnect, ChooseAgainEnd
  <1>3. \E s \in {"idle", "open"} : \E a : Become(c, s, 0, a)
    BY DEF ConnectOk, Disconnect, ChooseAgainEnd
  <1>4. st'[c] # "connecting" /\ \A d \in Slots : d # c => st'[d] = st[d] /\ ptr'[d] = ptr[d]
    BY <1>1, <1>3 DEF Become, TypeOK
  <1>5. Connecting' \subseteq Connecting /\ \A d \in Connecting' : ptr'[d] = ptr[d]
    BY <1>4 DEF Connecting
  <1>6. admitted' => Connecting' = {}
    BY <1>1, <1>2, <1>5 DEF Listener
  <1>7. Due(router', now) /\ SameMarks(router', router)
    <2>1. CASE ConnectOk(c)
      <3>1. router' = router
        BY <2>1 DEF ConnectOk
      <3> QED BY <1>1, <3>1 DEF SameMarks
    <2>2. CASE ChooseAgainEnd(c)
      <3>1. PICK p \in router_choose_dst(router, now, c) : router' = p.router
        BY <2>2 DEF ChooseAgainEnd
      <3> QED BY Zenon, <1>1, <3>1, ChooseDue
    <2>3. ASSUME NEW failed \in BOOLEAN, Disconnect(c, failed)
          PROVE  Due(router', now) /\ SameMarks(router', router)
      <3> DEFINE i == Lookup(router, peer[c])
      <3>1. router' = router \/ (i # 0 /\ router' = CountConn(router, i, -1))
        BY Zenon, <1>1, <2>3 DEF Disconnect, router_disconnect
      <3>2. CASE router' = router
        BY <1>1, <3>2 DEF SameMarks
      <3>3. CASE i # 0 /\ router' = CountConn(router, i, -1)
        <4>1. i \in 1..router.n_dst
          BY Zenon, <1>1, <3>3, LookupFinds, EntryTypes, Position
        <4>2. -1 \in Int
          OBVIOUS
        <4> HIDE DEF i
        <4> QED BY Zenon, <1>1, <3>3, <4>1, <4>2, CountConnDue
      <3> QED BY <3>1, <3>2, <3>3
    <2> QED BY <2>1, <2>2, <2>3
  <1>8. Listener'
    <2>1. \A j \in 1..router.n_dst : router'.dst[j].failed = router.dst[j].failed
      BY Zenon, <1>7 DEF SameMarks
    <2> QED BY <1>1, <1>2, <1>5, <1>6, <2>1, ListenerKept
  <1> QED BY <1>2, <1>7, <1>8

\* The table changes, while nobody connects or only in a weight.
LEMMA TableDue ==
    ASSUME Steady, TargetInv, MapOnly, NEW i \in 0..router.n_dst, NEW a \in Addrs,
           NEW w \in Nat \cup {-1}, w # 0, i = 0 => w \in Nat,
           router' \in ChangeTable(router, i, a, w, now),
           busy_count = 0 \/ (i # 0 /\ w >= 0),
           UNCHANGED <<admitted, slotVars, now>>
    PROVE  Due(router', now') /\ Listener'
  <1>1. /\ IndInv /\ RouterFields(router) /\ now \in Nat /\ now > Retry
        /\ MapGood(router, now) /\ Due(router, now) /\ Listener
    BY Zenon, TargetFacts
  <1>2. /\ Due(router', now)
        /\ i # 0 /\ w >= 0 =>
              \A j \in 1..router.n_dst : router'.dst[j].failed = router.dst[j].failed
    BY <1>1, ChangeTableDue
  <1>3. now' = now /\ admitted' = admitted /\ Connecting' = Connecting /\ ptr' = ptr
    BY DEF slotVars, Connecting
  <1>4. CASE busy_count = 0
    <2>1. Connecting = {}
      BY Zenon, <1>1, <1>4, SlotSets DEF IndInv, BusyMatches, Connecting
    <2> QED BY <1>2, <1>3, <2>1 DEF Listener
  <1>5. CASE i # 0 /\ w >= 0
    <2>1. \A j \in 1..router.n_dst : router'.dst[j].failed = router.dst[j].failed
      BY <1>2, <1>5
    <2>2. admitted' => Connecting' = {}
      <3>1. admitted => Connecting = {}
        BY Zenon, <1>1 DEF Listener
      <3>2. admitted' => admitted
        BY <1>3
      <3> QED BY Zenon, <1>3, <3>1, <3>2
    <2>3. Listener'
      BY <1>1, <1>3, <2>1, <2>2, ListenerKept
    <2> QED BY <1>2, <1>3, <2>3
  <1> QED BY <1>4, <1>5

\* glb_router_change_dst(), at once or after it has waited.
LEMMA ChangeDue ==
    ASSUME Steady, TargetInv, MapOnly,
           ChangeResume \/ (\E a \in Addrs, w \in Weights : ChangeBegin(a, w))
    PROVE  Due(router', now') /\ Listener'
  <1>1. /\ IndInv /\ TypeOK /\ RouterFields(router) /\ Due(router, now) /\ Listener
        /\ changer.pc # "idle" => changer.weight # 0
    BY Zenon, TargetFacts
  <1>2. UNCHANGED <<busy_count, admitted, slotVars, now>>
    BY DEF ChangeResume, ChangeBegin
  <1>3. CASE router' = router
    <2>1. admitted' = admitted /\ now' = now /\ Connecting' = Connecting /\ ptr' = ptr
      BY <1>2 DEF slotVars, Connecting
    <2> QED BY <1>1, <1>3, <2>1 DEF Listener
  <1>4. busy_count \in Nat
    BY <1>1, SlotSets DEF IndInv, BusyMatches, Connecting
  <1>5. ASSUME NEW a \in Addrs, NEW w \in Weights, ChangeBegin(a, w), router' # router
        PROVE  Due(router', now') /\ Listener'
    <2> DEFINE i == Lookup(router, a)
    <2>1. /\ ~MustWait(i, w) /\ (w >= 0 \/ i # 0)
          /\ router' \in ChangeTable(router, i, a, w, now)
      BY Zenon, <1>5 DEF ChangeBegin, Sane
    <2>2. i \in 0..router.n_dst
      BY <1>1, LookupFinds
    <2>3. w \in Nat \cup {-1} /\ w # 0 /\ (i = 0 => w \in Nat)
      BY <2>1, RouterAssumption DEF Steady
    <2> HIDE DEF i
    <2>4. busy_count = 0 \/ (i # 0 /\ w >= 0)
      BY <1>4, <2>1, <2>3 DEF MustWait
    <2> QED BY <1>2, <2>1, <2>2, <2>3, <2>4, TableDue
  <1>6. ASSUME ChangeResume, router' # router
        PROVE  Due(router', now') /\ Listener'
    <2>1. /\ changer.pc # "idle" /\ changer.weight \in Nat \cup {-1}
          /\ router' \in ChangeTable(router, changer.i, changer.addr, changer.weight, now)
          /\ ~(busy_count > 0)
      BY <1>1, <1>6 DEF ChangeResume, TypeOK, ChangerType
    <2>2. /\ changer.addr \in Addrs /\ changer.i \in 0..router.n_dst
          /\ changer.i = 0 => changer.weight \in Nat
      BY <1>1, <2>1 DEF IndInv, ChangerKnows
    <2>3. busy_count = 0
      BY <1>4, <2>1
    <2> QED BY <1>1, <1>2, <2>1, <2>2, <2>3, TableDue
  <1> QED BY <1>3, <1>5, <1>6

\* Steps that do not touch the router.
LEMMA QuietDue ==
    ASSUME Steady, TargetInv, MapOnly,
           Admit \/ SocketFails \/ SpuriousWakeup \/ Tick \/ UNCHANGED vars
    PROVE  Due(router', now') /\ Listener'
  <1>1. /\ IndInv /\ RouterFields(router) /\ Due(router, now) /\ Listener
        /\ now \in Nat /\ Retry \in Nat
    BY Zenon, TargetFacts
  <1>2. /\ router' = router /\ (now' = now \/ now' = now + 1) /\ UNCHANGED slotVars
        /\ admitted' = admitted \/ admitted' = FALSE \/ \A c \in Slots : st[c] # "connecting"
    BY DEF Admit, SocketFails, SpuriousWakeup, Tick, vars
  <1>3. Connecting' = Connecting /\ ptr' = ptr
    BY <1>2 DEF slotVars, Connecting
  <1>4. Due(router, now')
    <2>1. ASSUME NEW i \in 1..router.n_dst
          PROVE  /\ router.dst[i].failed <= now'
                 /\ router_dst_is_good_base(router.dst[i], now)
                        => router_dst_is_good_base(router.dst[i], now')
      <3>1. router.dst[i].failed \in Nat /\ router.dst[i].failed <= now
        BY <1>1, EntryTypes, DstFields DEF Due, Marked
      <3> QED BY <1>1, <1>2, <3>1 DEF router_dst_is_good_base
    <2>2. Marked(router, now')
      BY <1>1, <2>1 DEF Due, Marked
    <2> QED BY <1>1, <2>2 DEF Due
  <1>5. Listener'
    <2>1. admitted' => Connecting' = {}
      BY Zenon, <1>1, <1>2, <1>3 DEF Listener, Connecting
    <2> QED BY <1>1, <1>2, <1>3, <2>1, ListenerKept
  <1> QED BY <1>2, <1>4, <1>5

\* Every step keeps the invariant.
LEMMA NextTarget == Steady /\ TargetInv /\ [Next]_vars => TargetInv'
  <1> SUFFICES ASSUME Steady, TargetInv, [Next]_vars PROVE TargetInv'
    OBVIOUS
  <1>1. cnf' = cnf
    BY Zenon DEF Next, vars, slotVars, Admit, SocketFails, ChooseAsync, ConnectBegin, ConnectOk,
           ConnectFail, Disconnect, ChooseAgainBegin, ChooseAgainEnd, ChangeBegin,
           SpuriousWakeup, ChangeResume, Tick
  <1>2. MapInv' /\ cnf' \in Configs
    BY <1>1, NextMap DEF TargetInv
  <1>3. SUFFICES ASSUME MapOnly
                 PROVE  /\ Due(router', now') /\ now' > Retry /\ Listener'
                        /\ changer'.pc # "idle" => changer'.weight # 0
    BY <1>1, <1>2 DEF TargetInv, MapOnly, router_uses_map
  <1>4. /\ now \in Nat /\ Retry \in Nat /\ now > Retry /\ cnf.synchronous /\ TypeOK
        /\ changer.pc # "idle" => changer.weight # 0
    BY Zenon, <1>3, TargetFacts
  <1>5. now' > Retry
    <2>1. now' = now \/ now' = now + 1
      BY Zenon DEF Next, vars, slotVars, Admit, SocketFails, ChooseAsync, ConnectBegin, ConnectOk,
             ConnectFail, Disconnect, ChooseAgainBegin, ChooseAgainEnd, ChangeBegin,
             SpuriousWakeup, ChangeResume, Tick
    <2> QED BY <1>4, <2>1
  <1>6. changer'.pc # "idle" => changer'.weight # 0
    <2>1. \/ changer' = changer \/ changer' = NoChange
          \/ changer' = [changer EXCEPT !.pc = "woken"] /\ changer.pc = "waiting"
          \/ changer' = [changer EXCEPT !.pc = "waiting"] /\ changer.pc = "woken"
          \/ \E a \in Addrs, w \in Weights :
                changer' = [pc |-> "waiting", addr |-> a, weight |-> w, i |-> Lookup(router, a)]
      BY Zenon DEF Next, vars, slotVars, Admit, SocketFails, ChooseAsync, ConnectBegin, ConnectOk,
             ConnectFail, Disconnect, ChooseAgainBegin, ChooseAgainEnd, ChangeBegin,
             SpuriousWakeup, ChangeResume, Tick, SignalFree
    <2> QED BY <1>4, <2>1 DEF NoChange, TypeOK, ChangerType, Steady
  <1>7. Due(router', now') /\ Listener'
    <2>1. ASSUME NEW c \in Slots, ConnectBegin(c) PROVE Due(router', now') /\ Listener'
      BY <1>3, <2>1, ConnectBeginDue
    <2>2. ASSUME NEW c \in Slots, ConnectFail(c) PROVE Due(router', now') /\ Listener'
      BY <1>3, <2>2, ConnectFailDue
    <2>3. ASSUME NEW c \in Slots,
                 ConnectOk(c) \/ (\E failed \in BOOLEAN : Disconnect(c, failed))
                     \/ ChooseAgainEnd(c)
          PROVE  Due(router', now') /\ Listener'
      BY Zenon, <1>3, <2>3, SlotDue
    <2>4. CASE ChangeResume \/ (\E a \in Addrs, w \in Weights : ChangeBegin(a, w))
      BY Zenon, <1>3, <2>4, ChangeDue
    <2>5. CASE Admit \/ SocketFails \/ SpuriousWakeup \/ Tick \/ UNCHANGED vars
      BY Zenon, <1>3, <2>5, QuietDue
    <2>6. \A c \in Slots : ~ChooseAsync(c) /\ ~ChooseAgainBegin(c)
      BY <1>4 DEF ChooseAsync, ChooseAgainBegin
    <2> QED BY Zenon, <2>1, <2>2, <2>3, <2>4, <2>5, <2>6 DEF Next
  <1> QED BY Zenon, <1>5, <1>6, <1>7

\* A destination that has been given up comes back: where clients are hashed for one
\* listener with synchronous connects, while router_choose_dst_hint() sees no need to
\* redo the map (map_failed is 0), the map has every destination that is available.
THEOREM TargetReturns == Steady => (Spec => []TargetComesBack)
  <1>1. Init => TargetInv
    <2> SUFFICES ASSUME Init PROVE TargetInv
      OBVIOUS
    <2>1. MapInv
      <3>1. router.n_dst = 0 /\ router.top_dst = 0 /\ router.min_weight = 0
        BY DEF Init
      <3>2. 1..0 = {}
        OBVIOUS
      <3>3. MapGood(router, now)
        BY Zenon, <3>1, <3>2 DEF MapGood
      <3> QED BY <3>3, InitIndInv DEF MapInv
    <2>2. Due(router, now)
      <3>1. router.n_dst = 0 /\ 1..0 = {}
        BY DEF Init
      <3> QED BY Zenon, <3>1 DEF Due, Marked
    <2>3. now > Retry
      BY RouterAssumption DEF Init
    <2>4. Connecting = {} /\ changer.pc = "idle" /\ cnf \in Configs
      BY DEF Init, Connecting, NoChange
    <2> QED BY Zenon, <2>1, <2>2, <2>3, <2>4 DEF TargetInv, Listener
  <1>2. Steady /\ TargetInv => TargetComesBack
    BY DEF TargetInv, Steady, MapOnly, router_uses_map, Due, TargetComesBack
  <1> SUFFICES ASSUME Steady PROVE Spec => []TargetComesBack
    OBVIOUS
  <1>3. TargetInv /\ [Next]_vars => TargetInv'
    BY NextTarget
  <1>4. TargetInv => TargetComesBack
    BY <1>2
  <1> QED BY <1>1, <1>3, <1>4, PTL DEF Spec
=============================================================================

---------------------------- MODULE RouterProofs ----------------------------
(***************************************************************************)
(* Invariants of Router, for any number of destinations, connections,      *)
(* weights and configurations.                                             *)
(***************************************************************************)
EXTENDS Router, FiniteSetTheorems, TLAPS

-----------------------------------------------------------------------------
(* What the operators on the table keep                                    *)

\* q has the destinations of r with their weights, counts and usages.
SameTable(q, r) ==
    /\ q.n_dst = r.n_dst /\ q.conns = r.conns
    /\ \A i \in 1..r.n_dst :
          /\ q.dst[i].addr = r.dst[i].addr
          /\ q.dst[i].weight = r.dst[i].weight
          /\ q.dst[i].conns = r.dst[i].conns
          /\ q.dst[i].usage = r.dst[i].usage

\* The entries of a table are destinations, and its length is a number.
LEMMA EntryTypes ==
    ASSUME NEW r, RouterFields(r)
    PROVE  /\ r.n_dst \in Nat /\ 0 \in 0..r.n_dst
           /\ \A i \in 1..r.n_dst : i \in 0..r.n_dst /\ r.dst[i] \in DstType
  <1>1. r.n_dst \in Nat /\ r.dst \in [1..r.n_dst -> DstType]
    BY Zenon DEF RouterFields
  <1> QED BY <1>1

\* A position of a table, or 0 for none.
LEMMA Position ==
    \A n \in Nat : \A i \in 0..n : i \in Nat /\ (i # 0 => i \in 1..n)
  OBVIOUS

\* The last position of a table that is not empty,
LEMMA LastPosition ==
    \A n \in Nat : \A i \in 1..n : n \in 1..n /\ 0 \notin 1..n /\ i # 0
  OBVIOUS

\* and those before it.
LEMMA EarlierPositions ==
    \A n \in Nat : /\ \A i \in 1..(n - 1) : i \in 1..n /\ i # n
                  /\ \A i \in 1..n : i # n => i \in 1..(n - 1)
  OBVIOUS

\* What is long ago stays so.
LEMMA LongAgo == \A x, y, z \in Nat : x - y > z => (x + 1) - y > z
  OBVIOUS

\* What the fields of a destination are.
LEMMA DstFields ==
    ASSUME NEW d \in DstType
    PROVE  /\ d.addr \in Addrs /\ d.weight \in Nat /\ d.failed \in Nat
           /\ d.conns \in Int /\ d.map \in Nat
           /\ d.usage \in [weight : Nat, conns : Int]
  BY DEF DstType

\* Steps that keep the table may follow each other.
LEMMA SameTableTransitive ==
    ASSUME NEW p, NEW q, NEW r, SameTable(p, q), SameTable(q, r)
    PROVE  SameTable(p, r)
  BY DEF SameTable

\* Only the fields of the decision context change.
LEMMA ContextKeeps ==
    ASSUME NEW r, RouterFields(r), NEW i \in 0..r.n_dst, NEW n \in Nat, NEW q,
           \/ q = [r EXCEPT !.min_weight = n]
           \/ q = [r EXCEPT !.top_failed = n]
           \/ q = [r EXCEPT !.map_failed = n]
           \/ q = [r EXCEPT !.rrb_next = n] /\ n < r.n_dst
           \/ q = [r EXCEPT !.top_dst = i, !.min_weight = n]
    PROVE  RouterFields(q) /\ SameTable(q, r)
  <1>1. CASE q = [r EXCEPT !.min_weight = n]
    BY <1>1 DEF RouterFields, RouterNames, SameTable
  <1>2. CASE q = [r EXCEPT !.top_failed = n]
    BY SMTT(30), <1>2 DEF RouterFields, RouterNames, SameTable
  <1>3. CASE q = [r EXCEPT !.map_failed = n]
    BY SMTT(30), <1>3 DEF RouterFields, RouterNames, SameTable
  <1>4. CASE q = [r EXCEPT !.rrb_next = n] /\ n < r.n_dst
    BY Zenon, <1>4 DEF RouterFields, RouterNames, SameTable
  <1>5. CASE q = [r EXCEPT !.top_dst = i, !.min_weight = n]
    BY Zenon, <1>5 DEF RouterFields, RouterNames, SameTable
  <1> QED BY <1>1, <1>2, <1>3, <1>4, <1>5

\* Only the table changes, in other fields than those SameTable() is about.
LEMMA TableKeeps ==
    ASSUME NEW r, RouterFields(r), NEW d \in [1..r.n_dst -> DstType],
           \A i \in 1..r.n_dst :
              /\ d[i].addr = r.dst[i].addr
              /\ d[i].weight = r.dst[i].weight
              /\ d[i].conns = r.dst[i].conns
              /\ d[i].usage = r.dst[i].usage,
           NEW q, q = [r EXCEPT !.dst = d]
    PROVE  RouterFields(q) /\ SameTable(q, r)
  BY Zenon DEF RouterFields, RouterNames, SameTable

\* router_update_ctx() writes ctx.min_weight and nothing else.
LEMMA UpdateCtxKeeps ==
    ASSUME NEW r, RouterFields(r), NEW t \in Nat
    PROVE  /\ RouterFields(router_update_ctx(r, t))
           /\ SameTable(router_update_ctx(r, t), r)
  <1> DEFINE w == IF router_top_dst_is_good(r, t) THEN r.dst[r.top_dst].weight ELSE 0
  <1>1. router_top_dst_is_good(r, t) => r.top_dst \in 1..r.n_dst
    BY DEF router_top_dst_is_good, RouterFields
  <1>2. w \in Nat
    BY <1>1, EntryTypes, DstFields
  <1>3. router_update_ctx(r, t) = [r EXCEPT !.min_weight = w]
    BY SMTT(30) DEF router_update_ctx
  <1> HIDE DEF w
  <1> QED BY Zenon, <1>2, <1>3, EntryTypes, ContextKeeps

\* router_redo_top() finds an entry of the table, and moves none.
LEMMA RedoTopKeeps ==
    ASSUME NEW r, RouterFields(r), NEW t \in Nat, NEW x \in router_redo_top(r, t)
    PROVE  RouterFields(x) /\ SameTable(x, r)
  <1>1. CASE x = r
    BY SMTT(30), <1>1 DEF SameTable
  <1>2. CASE \E i \in 1..r.n_dst : x = [r EXCEPT !.top_dst = i, !.min_weight = r.dst[i].weight]
    <2>1. PICK i \in 1..r.n_dst : x = [r EXCEPT !.top_dst = i, !.min_weight = r.dst[i].weight]
      BY Zenon, <1>2
    <2>2. r.dst[i] \in DstType /\ i \in 0..r.n_dst
      BY EntryTypes
    <2>3. r.dst[i].weight \in Nat
      BY <2>2, DstFields
    <2> QED BY Zenon, <2>1, <2>2, <2>3, ContextKeeps
  <1> QED BY Zenon, <1>1, <1>2 DEF router_redo_top

\* router_redo_map() writes the map of the entries and nothing else.
LEMMA RedoMapKeeps ==
    ASSUME NEW r, RouterFields(r), NEW t \in Nat
    PROVE  /\ RouterFields(router_redo_map(r, t))
           /\ SameTable(router_redo_map(r, t), r)
  <1> DEFINE d == [i \in 1..r.n_dst |->
                    [r.dst[i] EXCEPT !.map = IF router_dst_is_good(r.dst[i], r.min_weight, t)
                                             THEN r.dst[i].weight ELSE 0]]
  <1>1. ASSUME NEW i \in 1..r.n_dst
        PROVE  /\ d[i] \in DstType
               /\ d[i].addr = r.dst[i].addr /\ d[i].weight = r.dst[i].weight
               /\ d[i].conns = r.dst[i].conns /\ d[i].usage = r.dst[i].usage
    <2>1. r.dst[i] \in DstType
      BY EntryTypes
    <2> QED BY Zenon, <2>1 DEF DstType
  <1>2. d \in [1..r.n_dst -> DstType]
    BY Zenon, <1>1
  <1>3. router_redo_map(r, t) = [r EXCEPT !.dst = d]
    BY DEF router_redo_map
  <1> HIDE DEF d
  <1> QED BY Zenon, <1>1, <1>2, <1>3, TableKeeps

\* A failed extra probe marks destinations and nothing else.
LEMMA ProbeFailedKeeps ==
    ASSUME NEW r, RouterFields(r), NEW S, NEW t \in Nat
    PROVE  /\ RouterFields(ProbeFailed(r, S, t))
           /\ SameTable(ProbeFailed(r, S, t), r)
  <1> DEFINE d == [i \in 1..r.n_dst |->
                    IF i \in S THEN [r.dst[i] EXCEPT !.failed = t] ELSE r.dst[i]]
  <1>1. ASSUME NEW i \in 1..r.n_dst
        PROVE  /\ d[i] \in DstType
               /\ d[i].addr = r.dst[i].addr /\ d[i].weight = r.dst[i].weight
               /\ d[i].conns = r.dst[i].conns /\ d[i].usage = r.dst[i].usage
    <2>1. r.dst[i] \in DstType
      BY EntryTypes
    <2> QED BY SMTT(30), <2>1 DEF DstType
  <1>2. d \in [1..r.n_dst -> DstType]
    BY Zenon, <1>1
  <1>3. ProbeFailed(r, S, t) = [r EXCEPT !.dst = d]
    BY DEF ProbeFailed
  <1> HIDE DEF d
  <1> QED BY Zenon, <1>1, <1>2, <1>3, TableKeeps
\* q is r with k more connections on destination i, its usage recomputed.
ConnsMoved(q, r, i, k) ==
    /\ q.n_dst = r.n_dst
    /\ q.conns = IF cnf.glbd THEN r.conns + k ELSE r.conns
    /\ \A j \in 1..r.n_dst :
          /\ q.dst[j].addr = r.dst[j].addr
          /\ q.dst[j].weight = r.dst[j].weight
          /\ IF cnf.glbd /\ j = i
             THEN /\ q.dst[j].conns = r.dst[j].conns + k
                  /\ q.dst[j].usage = router_dst_usage(q.dst[j])
             ELSE /\ q.dst[j].conns = r.dst[j].conns
                  /\ q.dst[j].usage = r.dst[j].usage

\* glbd counts a connection at one destination and at the router alike.
LEMMA CountConnMoves ==
    ASSUME NEW r, RouterFields(r), NEW i \in 1..r.n_dst, NEW k \in Int
    PROVE  RouterFields(CountConn(r, i, k)) /\ ConnsMoved(CountConn(r, i, k), r, i, k)
  <1>1. CASE ~cnf.glbd
    BY <1>1 DEF CountConn, ConnsMoved
  <1>2. CASE cnf.glbd
    <2> DEFINE x == r.dst[i]
               d == [x EXCEPT !.conns = @ + k]
               e == [d EXCEPT !.usage = router_dst_usage(d)]
               n == r.conns + k
               q == [r EXCEPT !.conns = n, !.dst[i] = e]
    <2>1. x \in DstType
      BY EntryTypes
    <2>2. n \in Int
      BY DEF RouterFields
    <2>3. CountConn(r, i, k) = q
      BY <1>2 DEF CountConn
    <2>d. d = [x EXCEPT !.conns = @ + k]
      OBVIOUS
    <2>e. e = [d EXCEPT !.usage = router_dst_usage(d)]
      OBVIOUS
    <2>q. q = [r EXCEPT !.conns = n, !.dst[i] = e]
      OBVIOUS
    <2> HIDE DEF x, d, e, n, q
    <2>4. /\ e \in DstType /\ e.addr = x.addr /\ e.weight = x.weight
          /\ e.conns = x.conns + k /\ e.usage = router_dst_usage(e)
      <3>1. d \in DstType /\ d.addr = x.addr /\ d.weight = x.weight /\ d.conns = x.conns + k
        BY <2>1, <2>d DEF DstType
      <3>2. router_dst_usage(d) \in [weight : Nat, conns : Int]
        BY <3>1 DEF DstType, router_dst_usage
      <3>3. /\ e \in DstType /\ e.addr = d.addr /\ e.weight = d.weight
            /\ e.conns = d.conns /\ e.usage = router_dst_usage(d)
        BY <2>e, <3>1, <3>2 DEF DstType
      <3> QED BY <3>1, <3>3 DEF router_dst_usage
    <2>5. /\ RouterFields(q)
          /\ q.conns = n /\ q.n_dst = r.n_dst /\ q.dst[i] = e
          /\ \A j \in 1..r.n_dst : j # i => q.dst[j] = r.dst[j]
      BY Zenon, <2>2, <2>4, <2>q DEF RouterFields, RouterNames
    <2>6. ConnsMoved(q, r, i, k)
      BY <1>2, <2>4, <2>5 DEF ConnsMoved, x, n
    <2> QED BY <2>3, <2>5, <2>6
  <1> QED BY <1>1, <1>2

\* A count after a step that keeps the table.
LEMMA MovedAfterSame ==
    ASSUME NEW p, NEW q, NEW r, NEW i, NEW k, SameTable(q, r), ConnsMoved(p, q, i, k)
    PROVE  ConnsMoved(p, r, i, k)
  BY DEF SameTable, ConnsMoved

\* A step that keeps the table after a count.
LEMMA SameAfterMoved ==
    ASSUME NEW p, NEW q, NEW r, NEW i, NEW k, ConnsMoved(q, r, i, k), SameTable(p, q)
    PROVE  ConnsMoved(p, r, i, k)
  BY DEF SameTable, ConnsMoved, router_dst_usage

-----------------------------------------------------------------------------
(* A choice                                                                *)

\* p is a choice made from r that has counted nothing yet.
PlainChoice(p, r) ==
    /\ p.i \in 0..r.n_dst
    /\ RouterFields(p.router) /\ SameTable(p.router, r)

\* The two parts of a choice.
LEMMA ChosenFields ==
    ASSUME NEW q, NEW i
    PROVE  Chosen(q, i).router = q /\ Chosen(q, i).i = i
  BY DEF Chosen

\* To do nothing keeps the table.
LEMMA SameTableReflexive ==
    ASSUME NEW r
    PROVE  SameTable(r, r)
  BY DEF SameTable

\* router_choose_dst_least() chooses an entry, and moves none.
LEMMA LeastKeeps ==
    ASSUME NEW r, RouterFields(r), NEW t \in Nat, NEW bad,
           NEW p \in router_choose_dst_least(r, t, bad)
    PROVE  PlainChoice(p, r)
  <1>1. \/ p = Chosen(r, 0)
        \/ \E i \in 1..r.n_dst : \/ p = Chosen(r, i)
                                 \/ p = Chosen(ProbeFailed(r, {i}, t), 0)
    BY Zenon DEF router_choose_dst_least
  <1>2. CASE p = Chosen(r, 0)
    BY <1>2, ChosenFields, SameTableReflexive, EntryTypes DEF PlainChoice
  <1>3. ASSUME NEW i \in 1..r.n_dst, p = Chosen(r, i)
        PROVE  PlainChoice(p, r)
    BY <1>3, ChosenFields, SameTableReflexive, EntryTypes DEF PlainChoice
  <1>4. ASSUME NEW i \in 1..r.n_dst, p = Chosen(ProbeFailed(r, {i}, t), 0)
        PROVE  PlainChoice(p, r)
    BY <1>4, ChosenFields, ProbeFailedKeeps, EntryTypes DEF PlainChoice
  <1> QED BY Zenon, <1>1, <1>2, <1>3, <1>4

\* router_choose_dst_single() chooses an entry, and moves none.
LEMMA SingleKeeps ==
    ASSUME NEW r, RouterFields(r), NEW t \in Nat,
           NEW p \in router_choose_dst_single(r, t)
    PROVE  PlainChoice(p, r)
  <1>1. p = Chosen(r, 0) \/ p = Chosen(r, r.top_dst)
    BY DEF router_choose_dst_single
  <1>2. r.top_dst \in 0..r.n_dst
    BY DEF RouterFields
  <1> QED BY <1>1, <1>2, ChosenFields, SameTableReflexive, EntryTypes DEF PlainChoice

\* router_choose_dst_round() chooses an entry, and moves none.
LEMMA RoundKeeps ==
    ASSUME NEW r, RouterFields(r), NEW t \in Nat, NEW bad,
           NEW p \in router_choose_dst_round(r, t, bad)
    PROVE  PlainChoice(p, r)
  <1> DEFINE at(k) == ((r.rrb_next + k) % r.n_dst) + 1
  <1>1. \/ \E S : p = Chosen(ProbeFailed(r, S, t), 0)
        \/ \E S : \E k \in 0..(r.n_dst - 1) :
              p = Chosen([ProbeFailed(r, S, t) EXCEPT !.rrb_next = at(k) % r.n_dst], at(k))
    BY Zenon DEF router_choose_dst_round, First
  <1>2. CASE \E S : p = Chosen(ProbeFailed(r, S, t), 0)
    BY <1>2, ChosenFields, ProbeFailedKeeps, EntryTypes DEF PlainChoice
  <1>3. CASE \E S : \E k \in 0..(r.n_dst - 1) :
              p = Chosen([ProbeFailed(r, S, t) EXCEPT !.rrb_next = at(k) % r.n_dst], at(k))
    <2> PICK S : \E k \in 0..(r.n_dst - 1) :
              p = Chosen([ProbeFailed(r, S, t) EXCEPT !.rrb_next = at(k) % r.n_dst], at(k))
      BY <1>3
    <2>1. PICK k \in 0..(r.n_dst - 1) :
              p = Chosen([ProbeFailed(r, S, t) EXCEPT !.rrb_next = at(k) % r.n_dst], at(k))
      OBVIOUS
    <2> DEFINE f == ProbeFailed(r, S, t)
    <2>2. r.n_dst \in Nat /\ r.n_dst > 0 /\ r.rrb_next \in Nat
      BY DEF RouterFields
    <2>3. at(k) \in 1..r.n_dst
      BY <2>2
    <2>4. at(k) % r.n_dst \in Nat /\ at(k) % r.n_dst < r.n_dst
      BY <2>2, <2>3
    <2>5. RouterFields(f) /\ SameTable(f, r)
      BY ProbeFailedKeeps
    <2> HIDE DEF f, at
    <2>6. 0 \in 0..f.n_dst /\ f.n_dst = r.n_dst
      BY SMTT(30), <2>5, EntryTypes DEF SameTable
    <2>7. /\ RouterFields([f EXCEPT !.rrb_next = at(k) % r.n_dst])
          /\ SameTable([f EXCEPT !.rrb_next = at(k) % r.n_dst], f)
      BY Zenon, <2>4, <2>5, <2>6, ContextKeeps
    <2>8. SameTable([f EXCEPT !.rrb_next = at(k) % r.n_dst], r)
      BY <2>5, <2>7, SameTableTransitive
    <2> QED BY <2>1, <2>2, <2>3, <2>7, <2>8, ChosenFields DEF PlainChoice, f
  <1> QED BY Zenon, <1>1, <1>2, <1>3

\* router_choose_dst_hint() chooses an entry, and moves none.
LEMMA HintKeeps ==
    ASSUME NEW r, RouterFields(r), NEW t \in Nat, NEW bad, NEW h,
           NEW p \in router_choose_dst_hint(r, t, bad, h)
    PROVE  PlainChoice(p, r)
  <1> DEFINE m == router_redo_map(r, t)
             z == [m EXCEPT !.map_failed = 0]
             q == IF r.n_dst > 0 /\ r.map_failed # 0 /\ t - r.map_failed > Retry
                  THEN z ELSE r
  <1>1. \E S : \E i \in 0..r.n_dst : p = Chosen(ProbeFailed(q, S, t), i)
    <2>1. \/ \E S : p = Chosen(ProbeFailed(q, S, t), 0)
          \/ \E S : \E i \in 1..r.n_dst : p = Chosen(ProbeFailed(q, S, t), i)
      BY Zenon DEF router_choose_dst_hint, First
    <2> HIDE DEF q
    <2> QED BY <2>1, EntryTypes
  <1>2. RouterFields(m) /\ SameTable(m, r)
    BY RedoMapKeeps
  <1>3. z = [m EXCEPT !.map_failed = 0]
    OBVIOUS
  <1>4. q = z \/ q = r
    OBVIOUS
  <1> HIDE DEF m, z, q
  <1>5. RouterFields(z) /\ SameTable(z, m)
    BY Zenon, <1>2, <1>3, EntryTypes, ContextKeeps
  <1>6. RouterFields(q) /\ SameTable(q, r)
    BY <1>2, <1>4, <1>5, SameTableTransitive, SameTableReflexive
  <1>7. PICK S : \E i \in 0..r.n_dst : p = Chosen(ProbeFailed(q, S, t), i)
    BY <1>1
  <1>8. RouterFields(ProbeFailed(q, S, t)) /\ SameTable(ProbeFailed(q, S, t), r)
    BY <1>6, ProbeFailedKeeps, SameTableTransitive
  <1> QED BY <1>7, <1>8, ChosenFields DEF PlainChoice

\* Whatever the policy, the choice is an entry, and none is moved.
LEMMA PolicyKeeps ==
    ASSUME NEW r, RouterFields(r), NEW t \in Nat, NEW c,
           NEW p \in PolicyChoices(r, t, c)
    PROVE  PlainChoice(p, r)
  <1>1. PICK bad \in FailingProbes(r) :
            p \in CASE cnf.policy = "least" -> IF cnf.glbd THEN router_choose_dst_least(r, t, bad)
                                               ELSE {Chosen(r, 0)}
                    [] cnf.policy = "round" -> router_choose_dst_round(r, t, bad)
                    [] cnf.policy = "single" -> router_choose_dst_single(r, t)
                    [] OTHER -> UNION {router_choose_dst_hint(r, t, bad, h) : h \in Hints(c)}
    BY DEF PolicyChoices
  <1>2. \/ p \in router_choose_dst_least(r, t, bad)
        \/ p = Chosen(r, 0)
        \/ p \in router_choose_dst_round(r, t, bad)
        \/ p \in router_choose_dst_single(r, t)
        \/ \E h \in Hints(c) : p \in router_choose_dst_hint(r, t, bad, h)
    BY <1>1
  <1>3. CASE p = Chosen(r, 0)
    BY <1>3, ChosenFields, SameTableReflexive, EntryTypes DEF PlainChoice
  <1> QED BY <1>2, <1>3, LeastKeeps, RoundKeeps, SingleKeeps, HintKeeps

\* Renewing the context before a choice moves no entry.
LEMMA ContextForChoiceKeeps ==
    ASSUME NEW r, RouterFields(r), NEW t \in Nat, NEW x \in ContextForChoice(r, t)
    PROVE  RouterFields(x) /\ SameTable(x, r)
  <1> DEFINE u == router_update_ctx(r, t)
  <1>1. RouterFields(u) /\ SameTable(u, r)
    BY UpdateCtxKeeps
  <1>2. x = u \/ \E y \in router_redo_top(u, t) : x = [y EXCEPT !.top_failed = 0]
    BY DEF ContextForChoice
  <1> HIDE DEF u
  <1>3. ASSUME NEW y \in router_redo_top(u, t), x = [y EXCEPT !.top_failed = 0]
        PROVE  RouterFields(x) /\ SameTable(x, r)
    <2>1. RouterFields(y) /\ SameTable(y, u)
      BY SMTT(30), <1>1, RedoTopKeeps
    <2>2. RouterFields(x) /\ SameTable(x, y)
      BY Zenon, <1>3, <2>1, EntryTypes, ContextKeeps
    <2> QED BY <1>1, <2>1, <2>2, SameTableTransitive
  <1> QED BY <1>1, <1>2, <1>3

\* p is a choice made from r, and counted.
CountedChoice(p, r) ==
    /\ p.i \in 0..r.n_dst
    /\ RouterFields(p.router)
    /\ IF p.i = 0 THEN SameTable(p.router, r) ELSE ConnsMoved(p.router, r, p.i, 1)

\* router_choose_dst() counts one connection at what it chose, none without.
LEMMA ChooseCounts ==
    ASSUME NEW r, RouterFields(r), NEW t \in Nat, NEW c,
           NEW p \in router_choose_dst(r, t, c)
    PROVE  CountedChoice(p, r)
  <1>1. PICK x \in ContextForChoice(r, t) : \E y \in PolicyChoices(x, t, c) :
            p = IF y.i = 0 THEN y ELSE Chosen(CountConn(y.router, y.i, 1), y.i)
    BY DEF router_choose_dst
  <1>2. PICK y \in PolicyChoices(x, t, c) :
            p = IF y.i = 0 THEN y ELSE Chosen(CountConn(y.router, y.i, 1), y.i)
    BY <1>1
  <1>3. RouterFields(x) /\ SameTable(x, r)
    BY ContextForChoiceKeeps
  <1>4. y.i \in 0..x.n_dst /\ RouterFields(y.router) /\ SameTable(y.router, x)
    BY <1>3, PolicyKeeps DEF PlainChoice
  <1>5. SameTable(y.router, r) /\ y.i \in 0..r.n_dst /\ y.router.n_dst = r.n_dst
    BY <1>3, <1>4, SameTableTransitive DEF SameTable
  <1>6. CASE y.i = 0
    BY <1>2, <1>4, <1>5, <1>6 DEF CountedChoice
  <1>7. CASE y.i # 0
    <2>1. p.i = y.i /\ p.router = CountConn(y.router, y.i, 1)
      BY <1>2, <1>7, ChosenFields
    <2>2. y.i \in 1..y.router.n_dst
      BY <1>3, <1>5, <1>7, EntryTypes
    <2>3. RouterFields(p.router) /\ ConnsMoved(p.router, y.router, y.i, 1)
      BY <1>4, <2>1, <2>2, CountConnMoves
    <2> QED BY <1>5, <1>7, <2>1, <2>3, MovedAfterSame DEF CountedChoice
  <1> QED BY <1>6, <1>7

-----------------------------------------------------------------------------
(* A failure and a disconnect                                              *)

\* router_dst_failed() moves no entry and counts nothing.
LEMMA DstFailedKeeps ==
    ASSUME NEW r, RouterFields(r), NEW i \in 1..r.n_dst, NEW t \in Nat,
           NEW q \in router_dst_failed(r, i, t)
    PROVE  RouterFields(q) /\ SameTable(q, r)
  <1> DEFINE x == r.dst[i]
             e == [x EXCEPT !.failed = t]
             f == [r EXCEPT !.dst[i] = e]
             g == [f EXCEPT !.min_weight = 0]
  <1>1. f = [r EXCEPT !.dst[i] = e] /\ e = [x EXCEPT !.failed = t] /\ x \in DstType
    BY EntryTypes
  <1>2. g = [f EXCEPT !.min_weight = 0]
    OBVIOUS
  <1>3. [r EXCEPT !.dst[i].failed = t] = f
    OBVIOUS
  <1>4. \E y : /\ \/ y = f
                  \/ \E z \in router_redo_top(g, t) : y = [z EXCEPT !.top_failed = t]
               /\ \/ q = y
                  \/ q = [router_redo_map(y, t) EXCEPT !.map_failed = t]
    BY <1>3 DEF router_dst_failed
  <1> HIDE DEF e, f, g
  <1>5. /\ e \in DstType /\ e.addr = x.addr /\ e.weight = x.weight
        /\ e.conns = x.conns /\ e.usage = x.usage
    BY <1>1 DEF DstType
  <1>6. RouterFields(f) /\ SameTable(f, r)
    BY Zenon, <1>1, <1>5 DEF RouterFields, RouterNames, SameTable
  <1>7. RouterFields(g) /\ SameTable(g, r)
    BY Zenon, <1>2, <1>6, EntryTypes, ContextKeeps, SameTableTransitive
  <1>8. PICK y : /\ \/ y = f
                    \/ \E z \in router_redo_top(g, t) : y = [z EXCEPT !.top_failed = t]
                 /\ \/ q = y
                    \/ q = [router_redo_map(y, t) EXCEPT !.map_failed = t]
    BY <1>4
  <1>9. RouterFields(y) /\ SameTable(y, r)
    <2>1. ASSUME NEW z \in router_redo_top(g, t), y = [z EXCEPT !.top_failed = t]
          PROVE  RouterFields(y) /\ SameTable(y, r)
      <3>1. RouterFields(z) /\ SameTable(z, g)
        BY SMTT(30), <1>7, RedoTopKeeps
      <3>2. RouterFields(y) /\ SameTable(y, z)
        BY Zenon, <2>1, <3>1, EntryTypes, ContextKeeps
      <3> QED BY <1>7, <3>1, <3>2, SameTableTransitive
    <2> QED BY <1>6, <1>8, <2>1
  <1>10. ASSUME q = [router_redo_map(y, t) EXCEPT !.map_failed = t]
         PROVE  RouterFields(q) /\ SameTable(q, r)
    <2> DEFINE m == router_redo_map(y, t)
    <2>1. RouterFields(m) /\ SameTable(m, y)
      BY <1>9, RedoMapKeeps
    <2>2. q = [m EXCEPT !.map_failed = t]
      BY SMTT(30), <1>10
    <2> HIDE DEF m
    <2>3. RouterFields(q) /\ SameTable(q, m)
      BY Zenon, <2>1, <2>2, EntryTypes, ContextKeeps
    <2> QED BY <1>9, <2>1, <2>3, SameTableTransitive
  <1> QED BY <1>8, <1>9, <1>10

\* The search by address finds the entry if there is one.
LEMMA LookupFinds ==
    ASSUME NEW r, RouterFields(r), NEW a
    PROVE  /\ Lookup(r, a) \in 0..r.n_dst
           /\ Lookup(r, a) # 0 => r.dst[Lookup(r, a)].addr = a
           /\ Lookup(r, a) = 0 => \A i \in 1..r.n_dst : r.dst[i].addr # a
  <1> DEFINE found == {i \in 1..r.n_dst : r.dst[i].addr = a}
  <1>1. CASE found = {}
    BY <1>1, EntryTypes DEF Lookup
  <1>2. CASE found # {}
    <2>1. (CHOOSE i \in found : TRUE) \in found
      BY <1>2
    <2>2. Lookup(r, a) = CHOOSE i \in found : TRUE
      BY <1>2 DEF Lookup
    <2>3. Lookup(r, a) \in 1..r.n_dst /\ r.dst[Lookup(r, a)].addr = a
      BY <2>1, <2>2
    <2> QED BY <2>3, EntryTypes
  <1> QED BY <1>1, <1>2

\* router_disconnect() gives one connection back, if the destination is there.
LEMMA DisconnectMoves ==
    ASSUME NEW r, RouterFields(r), NEW a, NEW failed \in BOOLEAN, NEW t \in Nat,
           NEW q \in router_disconnect(r, a, failed, t)
    PROVE  /\ RouterFields(q)
           /\ IF Lookup(r, a) = 0 THEN q = r
              ELSE ConnsMoved(q, r, Lookup(r, a), -1)
  <1> DEFINE i == Lookup(r, a)
             d == CountConn(r, i, -1)
  <1>1. CASE i = 0
    BY <1>1 DEF router_disconnect
  <1>2. CASE i # 0
    <2>1. i \in 1..r.n_dst
      BY <1>2, LookupFinds, EntryTypes
    <2>2. q = d \/ q \in router_dst_failed(d, i, t)
      BY <1>2 DEF router_disconnect
    <2> HIDE DEF i
    <2>3. RouterFields(d) /\ ConnsMoved(d, r, i, -1)
      BY <2>1, CountConnMoves
    <2>4. i \in 1..d.n_dst
      BY <2>1, <2>3 DEF ConnsMoved
    <2> HIDE DEF d
    <2>5. q \in router_dst_failed(d, i, t) => RouterFields(q) /\ ConnsMoved(q, r, i, -1)
      BY <2>3, <2>4, DstFailedKeeps, SameAfterMoved
    <2> QED BY <1>2, <2>2, <2>3, <2>5 DEF i
  <1> QED BY <1>1, <1>2

-----------------------------------------------------------------------------
(* A change of the table                                                   *)

\* A new entry is a destination.
LEMMA NewDstType ==
    ASSUME NEW a \in Addrs, NEW w \in Nat
    PROVE  NewDst(a, w) \in DstType
  BY DEF NewDst, DstType

\* q is r with the new entry at the end.
Added(q, r, a, w) ==
    /\ q.n_dst = r.n_dst + 1 /\ q.conns = r.conns
    /\ q.dst[r.n_dst + 1] = NewDst(a, w)
    /\ \A j \in 1..r.n_dst : q.dst[j] = r.dst[j]

\* An addition puts one entry behind the others.
LEMMA AddDstAdds ==
    ASSUME NEW r, RouterFields(r), NEW a \in Addrs, NEW w \in Nat
    PROVE  RouterFields(AddDst(r, a, w)) /\ Added(AddDst(r, a, w), r, a, w)
  <1> DEFINE n == r.n_dst + 1
             d == [j \in 1..n |-> IF j = n THEN NewDst(a, w) ELSE r.dst[j]]
             q == [r EXCEPT !.n_dst = n, !.top_dst = 0, !.dst = d]
  <1>1. AddDst(r, a, w) = q
    BY DEF AddDst
  <1>2. n \in Nat /\ r.n_dst \in Nat /\ n = r.n_dst + 1 /\ 0 \in 0..n
    BY EntryTypes
  <1>3. d \in [1..n -> DstType]
    BY NewDstType, EntryTypes, <1>2
  <1>4. d[n] = NewDst(a, w) /\ \A j \in 1..r.n_dst : d[j] = r.dst[j]
    BY <1>2
  <1> HIDE DEF n, d
  <1>5. /\ q.n_dst = n /\ q.top_dst = 0 /\ q.dst = d /\ q.conns = r.conns
        /\ q.min_weight = r.min_weight /\ q.top_failed = r.top_failed
        /\ q.map_failed = r.map_failed /\ q.rrb_next = r.rrb_next
        /\ q = [f \in RouterNames |-> q[f]]
    BY Zenon DEF RouterFields, RouterNames
  <1> HIDE DEF q
  <1>r. /\ r.min_weight \in Nat /\ r.top_failed \in Nat /\ r.map_failed \in Nat
        /\ r.conns \in Int /\ r.rrb_next \in Nat /\ (r.rrb_next < n \/ r.rrb_next = 0)
    BY <1>2 DEF RouterFields
  <1>6. RouterFields(q)
    BY Zenon, <1>2, <1>3, <1>5, <1>r DEF RouterFields
  <1> QED BY <1>1, <1>2, <1>4, <1>5, <1>6 DEF Added

\* q is r without entry i, whose place the last entry has taken.
Removed(q, r, i) ==
    /\ q.n_dst = r.n_dst - 1 /\ q.conns = r.conns - r.dst[i].conns
    /\ \A j \in 1..(r.n_dst - 1) : q.dst[j] = IF j = i THEN r.dst[r.n_dst] ELSE r.dst[j]

\* A removal moves the last entry into the gap.
LEMMA RemoveDstRemoves ==
    ASSUME NEW r, RouterFields(r), NEW i \in 1..r.n_dst
    PROVE  RouterFields(RemoveDst(r, i)) /\ Removed(RemoveDst(r, i), r, i)
  <1> DEFINE n == r.n_dst - 1
             d == [j \in 1..n |-> IF j = i THEN r.dst[r.n_dst] ELSE r.dst[j]]
             k == r.conns - r.dst[i].conns
             b == IF n > 0 THEN r.rrb_next % n ELSE 0
             q == [r EXCEPT !.n_dst = n, !.top_dst = 0, !.conns = k,
                            !.rrb_next = b, !.dst = d]
  <1>1. RemoveDst(r, i) = q
    BY DEF RemoveDst
  <1>2. /\ n \in Nat /\ n = r.n_dst - 1 /\ 0 \in 0..n
        /\ r.n_dst \in 1..r.n_dst /\ \A j \in 1..n : j \in 1..r.n_dst
    BY EntryTypes
  <1>3. d \in [1..n -> DstType]
    BY <1>2, EntryTypes
  <1>4. k = r.conns - r.dst[i].conns /\ k \in Int
    <2>1. r.conns \in Int
      BY DEF RouterFields
    <2>2. r.dst[i].conns \in Int
      BY EntryTypes, DstFields
    <2> QED BY <2>1, <2>2
  <1>5. b \in Nat /\ (b < n \/ b = 0)
    <2>1. r.rrb_next \in Nat
      BY DEF RouterFields
    <2> QED BY <1>2, <2>1
  <1>6. \A j \in 1..n : d[j] = IF j = i THEN r.dst[r.n_dst] ELSE r.dst[j]
    OBVIOUS
  <1> HIDE DEF n, d, k, b
  <1>7. /\ q.n_dst = n /\ q.top_dst = 0 /\ q.dst = d /\ q.conns = k
        /\ q.min_weight = r.min_weight /\ q.top_failed = r.top_failed
        /\ q.map_failed = r.map_failed /\ q.rrb_next = b
        /\ q = [f \in RouterNames |-> q[f]]
    BY Zenon DEF RouterFields, RouterNames
  <1> HIDE DEF q
  <1>8. r.min_weight \in Nat /\ r.top_failed \in Nat /\ r.map_failed \in Nat
    BY DEF RouterFields
  <1>9. RouterFields(q)
    BY Zenon, <1>2, <1>3, <1>4, <1>5, <1>7, <1>8 DEF RouterFields
  <1> QED BY <1>1, <1>2, <1>4, <1>6, <1>7, <1>9 DEF Removed

\* q is r with another weight, and the usage that follows, for entry i.
Reweighed(q, r, i) ==
    /\ q.n_dst = r.n_dst /\ q.conns = r.conns
    /\ \A j \in 1..r.n_dst :
          /\ q.dst[j].addr = r.dst[j].addr /\ q.dst[j].conns = r.dst[j].conns
          /\ IF j = i THEN q.dst[j].usage = router_dst_usage(q.dst[j])
             ELSE /\ q.dst[j].weight = r.dst[j].weight
                  /\ q.dst[j].usage = r.dst[j].usage

\* A change of weight keeps the addresses and the counts.
LEMMA ReweighDstReweighs ==
    ASSUME NEW r, RouterFields(r), NEW i \in 1..r.n_dst, NEW w \in Nat
    PROVE  RouterFields(ReweighDst(r, i, w)) /\ Reweighed(ReweighDst(r, i, w), r, i)
  <1> DEFINE x == r.dst[i]
             d == [x EXCEPT !.weight = w]
             e == [d EXCEPT !.usage = router_dst_usage(d)]
             q == [r EXCEPT !.dst[i] = e]
  <1>1. x \in DstType
    BY EntryTypes
  <1>2. ReweighDst(r, i, w) = q
    BY DEF ReweighDst
  <1>d. d = [x EXCEPT !.weight = w]
    OBVIOUS
  <1>e. e = [d EXCEPT !.usage = router_dst_usage(d)]
    OBVIOUS
  <1>q. q = [r EXCEPT !.dst[i] = e]
    OBVIOUS
  <1> HIDE DEF x, d, e, q
  <1>3. d \in DstType /\ d.addr = x.addr /\ d.conns = x.conns
    BY <1>1, <1>d DEF DstType
  <1>4. router_dst_usage(d) \in [weight : Nat, conns : Int]
    BY <1>3 DEF DstType, router_dst_usage
  <1>5. /\ e \in DstType /\ e.addr = x.addr /\ e.conns = x.conns
        /\ e.weight = d.weight /\ e.conns = d.conns /\ e.usage = router_dst_usage(d)
    BY <1>3, <1>4, <1>e DEF DstType
  <1>6. e.usage = router_dst_usage(e)
    BY <1>5 DEF router_dst_usage
  <1>7. /\ RouterFields(q)
        /\ q.conns = r.conns /\ q.n_dst = r.n_dst /\ q.dst[i] = e
        /\ \A j \in 1..r.n_dst : j # i => q.dst[j] = r.dst[j]
    BY Zenon, <1>5, <1>q DEF RouterFields, RouterNames
  <1> QED BY Zenon, <1>2, <1>5, <1>6, <1>7 DEF Reweighed, x

\* glb_router_change_dst() adds, removes or reweighs and then only touches the
\* context and the map.
LEMMA ChangeTableChanges ==
    ASSUME NEW r, RouterFields(r), NEW i \in 0..r.n_dst, NEW a \in Addrs,
           NEW w \in Nat \cup {-1}, NEW t \in Nat, i = 0 => w \in Nat,
           NEW q \in ChangeTable(r, i, a, w, t)
    PROVE  /\ RouterFields(q)
           /\ \/ q = r
              \/ \E e : /\ SameTable(q, e)
                        /\ \/ i = 0 /\ Added(e, r, a, w)
                           \/ i # 0 /\ w < 0 /\ Removed(e, r, i)
                           \/ i # 0 /\ w >= 0 /\ Reweighed(e, r, i)
  <1> DEFINE e == IF i = 0 THEN AddDst(r, a, w)
                  ELSE IF w < 0 THEN RemoveDst(r, i)
                  ELSE ReweighDst(r, i, w)
             u == router_update_ctx(e, t)
  <1>1. /\ RouterFields(e)
        /\ \/ i = 0 /\ Added(e, r, a, w)
           \/ i # 0 /\ w < 0 /\ Removed(e, r, i)
           \/ i # 0 /\ w >= 0 /\ Reweighed(e, r, i)
    <2>1. CASE i = 0
      BY <2>1, AddDstAdds
    <2>2. CASE i # 0 /\ w < 0
      <3>1. i \in 1..r.n_dst
        BY <2>2, EntryTypes
      <3> QED BY <2>2, <3>1, RemoveDstRemoves
    <2>3. CASE i # 0 /\ w >= 0
      <3>1. i \in 1..r.n_dst /\ w \in Nat /\ ~(w < 0)
        BY <2>3, EntryTypes
      <3> QED BY <2>3, <3>1, ReweighDstReweighs
    <2> QED BY <2>1, <2>2, <2>3
  <1>2. \/ q = r
        \/ \E x : /\ x = u \/ x \in router_redo_top(u, t)
                  /\ q = x \/ q = router_redo_map(x, t)
    BY DEF ChangeTable
  <1> HIDE DEF e
  <1>3. RouterFields(u) /\ SameTable(u, e)
    BY <1>1, UpdateCtxKeeps
  <1> HIDE DEF u
  <1>4. ASSUME NEW x, x = u \/ x \in router_redo_top(u, t),
               q = x \/ q = router_redo_map(x, t)
        PROVE  RouterFields(q) /\ SameTable(q, e)
    <2>1. RouterFields(x) /\ SameTable(x, e)
      BY <1>3, <1>4, RedoTopKeeps, SameTableTransitive
    <2> QED BY <1>4, <2>1, RedoMapKeeps, SameTableTransitive
  <1> QED BY <1>1, <1>2, <1>4

-----------------------------------------------------------------------------
(* The inductive invariant                                                 *)

\* A connecting slot points to an entry.
PointersInTable ==
    \A c \in Slots : st[c] = "connecting" => ptr[c] \in 1..router.n_dst

\* An open slot knows its destination's address.
PeersKnown == \A c \in Slots : st[c] = "open" => peer[c] \in Addrs

\* While it waits, what glb_router_change_dst() found stays true.
ChangerKnows ==
    changer.pc # "idle" =>
        /\ changer.addr \in Addrs /\ changer.i \in 0..router.n_dst
        /\ changer.i = 0 => /\ changer.weight \in Nat
                            /\ \A j \in 1..router.n_dst : router.dst[j].addr # changer.addr
        /\ changer.i # 0 => router.dst[changer.i].addr = changer.addr

IndInv == /\ TypeOK /\ BusyMatches /\ NoLostWakeup
          /\ PointersInTable /\ PeersKnown /\ ChangerKnows

\* q has the destinations of r, in the same places.
SameAddresses(q, r) ==
    q.n_dst = r.n_dst /\ \A i \in 1..r.n_dst : q.dst[i].addr = r.dst[i].addr

\* Of the effects of the operations only additions and removals move entries.
LEMMA KeepsAddresses ==
    ASSUME NEW q, NEW r
    PROVE  /\ q = r => SameAddresses(q, r)
           /\ SameTable(q, r) => SameAddresses(q, r)
           /\ \A i, k : ConnsMoved(q, r, i, k) => SameAddresses(q, r)
           /\ \A i : Reweighed(q, r, i) => SameAddresses(q, r)
  BY DEF SameAddresses, SameTable, ConnsMoved, Reweighed

\* Steps that move no entry may follow each other.
LEMMA SameAddressesTransitive ==
    ASSUME NEW p, NEW q, NEW r, SameAddresses(p, q), SameAddresses(q, r)
    PROVE  SameAddresses(p, r)
  BY DEF SameAddresses

-----------------------------------------------------------------------------
(* Steps of one slot                                                       *)

\* What Become does to the slots.
LEMMA BecomeSlot ==
    ASSUME TypeOK, NEW c \in Slots, NEW s \in SlotStates, NEW i \in Nat,
           NEW a \in Addrs \cup {NoAddr}, Become(c, s, i, a)
    PROVE  /\ st' \in [Slots -> SlotStates] /\ ptr' \in [Slots -> Nat]
           /\ peer' \in [Slots -> Addrs \cup {NoAddr}]
           /\ st'[c] = s /\ ptr'[c] = i /\ peer'[c] = a
           /\ \A d \in Slots : d # c =>
                 st'[d] = st[d] /\ ptr'[d] = ptr[d] /\ peer'[d] = peer[d]
  BY DEF TypeOK, Become

\* A set of slots is finite.
LEMMA SlotSets ==
    ASSUME NEW S, S \subseteq Slots
    PROVE  /\ IsFiniteSet(S) /\ Cardinality(S) \in Nat
           /\ Cardinality(S) = 0 <=> S = {}
  <1>1. IsFiniteSet(Slots)
    BY RouterAssumption
  <1>2. IsFiniteSet(S)
    BY <1>1, FS_Subset
  <1> QED BY <1>2, FS_CardinalityType, FS_EmptySet

\* Connects in progress are counted one by one.
LEMMA ConnectingChanges ==
    ASSUME TypeOK, NEW c \in Slots, NEW s \in SlotStates, NEW i \in Nat,
           NEW a \in Addrs \cup {NoAddr}, Become(c, s, i, a)
    PROVE  Cardinality(Connecting') = Cardinality(Connecting)
              + (IF s = "connecting" THEN 1 ELSE 0)
              - (IF st[c] = "connecting" THEN 1 ELSE 0)
  <1>1. \A d \in Slots : d # c => (d \in Connecting' <=> d \in Connecting)
    BY BecomeSlot DEF Connecting
  <1>2. /\ c \in Connecting' <=> s = "connecting"
        /\ c \in Connecting <=> st[c] = "connecting"
    BY BecomeSlot DEF Connecting
  <1>3. Connecting \subseteq Slots /\ Connecting' \subseteq Slots
    BY DEF Connecting
  <1>4. CASE s = "connecting" /\ st[c] # "connecting"
    <2>1. Connecting' = Connecting \cup {c} /\ c \notin Connecting
      BY <1>1, <1>2, <1>3, <1>4
    <2>2. Cardinality(Connecting \cup {c}) = Cardinality(Connecting) + 1
      BY <1>3, <2>1, SlotSets, FS_AddElement
    <2> QED BY <1>4, <1>3, <2>1, <2>2, SlotSets
  <1>5. CASE s # "connecting" /\ st[c] = "connecting"
    <2>1. Connecting' = Connecting \ {c} /\ c \in Connecting
      BY <1>1, <1>2, <1>3, <1>5
    <2>2. Cardinality(Connecting \ {c}) = Cardinality(Connecting) - 1
      BY <1>3, <2>1, SlotSets, FS_RemoveElement
    <2> QED BY <1>5, <1>3, <2>1, <2>2, SlotSets
  <1>6. CASE (s = "connecting") <=> (st[c] = "connecting")
    <2>1. Connecting' = Connecting
      BY <1>1, <1>2, <1>3, <1>6
    <2> QED BY <1>3, <1>6, <2>1, SlotSets
  <1> QED BY <1>4, <1>5, <1>6

\* A step in which one slot changes its state.
LEMMA SlotStep ==
    ASSUME IndInv, NEW c \in Slots, NEW s \in SlotStates, NEW i \in Nat,
           NEW a \in Addrs \cup {NoAddr}, Become(c, s, i, a),
           s = "connecting" => i \in 1..router.n_dst,
           s = "open" => a \in Addrs,
           RouterFields(router'), SameAddresses(router', router),
           busy_count' = busy_count + (IF s = "connecting" THEN 1 ELSE 0)
                                    - (IF st[c] = "connecting" THEN 1 ELSE 0),
           SignalFree \/ (changer' = changer /\ busy_count' >= busy_count),
           cnf' = cnf, wait_count' = wait_count, admitted' \in BOOLEAN, now' = now
    PROVE  IndInv'
  <1> USE DEF IndInv
  <1>1. \/ changer' = changer
        \/ changer' = [changer EXCEPT !.pc = "woken"] /\ changer.pc = "waiting"
    BY Zenon DEF SignalFree
  <1>2. /\ changer' \in ChangerType /\ changer'.addr = changer.addr
        /\ changer'.i = changer.i /\ changer'.weight = changer.weight
        /\ (changer'.pc = "idle") <=> (changer.pc = "idle")
    <2>1. changer \in ChangerType
      BY DEF TypeOK
    <2>2. CASE changer' = changer
      BY <2>1, <2>2
    <2>3. CASE changer' = [changer EXCEPT !.pc = "woken"] /\ changer.pc = "waiting"
      BY <2>1, <2>3 DEF ChangerType
    <2> QED BY <1>1, <2>2, <2>3
  <1>3. busy_count' \in Int
    BY DEF TypeOK
  <1>4. TypeOK'
    BY <1>2, <1>3, BecomeSlot DEF TypeOK
  <1>5. BusyMatches'
    BY <1>2, ConnectingChanges DEF BusyMatches
  <1>6. NoLostWakeup'
    <2>1. CASE changer' = changer /\ busy_count' >= busy_count
      BY <2>1, <1>3 DEF NoLostWakeup, TypeOK
    <2>2. CASE SignalFree
      <3>1. Cardinality(Connecting') \in Nat
        BY SlotSets DEF Connecting
      <3>2. busy_count' \in Nat
        BY <1>5, <3>1 DEF BusyMatches
      <3>3. changer.pc = "waiting" => wait_count > 0
        BY DEF BusyMatches
      <3> QED BY <2>2, <3>2, <3>3, <1>1 DEF SignalFree, NoLostWakeup, TypeOK, ChangerType
    <2> QED BY <2>1, <2>2
  <1>7. PointersInTable'
    BY BecomeSlot DEF PointersInTable, SameAddresses
  <1>8. PeersKnown'
    BY BecomeSlot DEF PeersKnown
  <1>9. ChangerKnows'
    BY <1>2 DEF ChangerKnows, SameAddresses
  <1> QED BY <1>4, <1>5, <1>6, <1>7, <1>8, <1>9

\* A step in which no slot changes and nothing is connected or changed.
LEMMA QuietStep ==
    ASSUME IndInv, UNCHANGED <<cnf, busy_count, wait_count, st, ptr, peer>>,
           RouterFields(router'), SameAddresses(router', router),
           \/ changer' = changer
           \/ changer' = [changer EXCEPT !.pc = "woken"] /\ changer.pc = "waiting",
           admitted' \in BOOLEAN, now' \in Nat
    PROVE  IndInv'
  <1> USE DEF IndInv
  <1>1. /\ changer' \in ChangerType /\ changer'.addr = changer.addr
        /\ changer'.i = changer.i /\ changer'.weight = changer.weight
        /\ (changer'.pc = "idle") <=> (changer.pc = "idle")
        /\ changer'.pc = "waiting" => changer.pc = "waiting"
    <2>1. changer \in ChangerType
      BY DEF TypeOK
    <2>2. CASE changer' = changer
      BY <2>1, <2>2
    <2>3. CASE changer' = [changer EXCEPT !.pc = "woken"] /\ changer.pc = "waiting"
      BY <2>1, <2>3 DEF ChangerType
    <2> QED BY <2>2, <2>3
  <1>2. TypeOK'
    BY <1>1 DEF TypeOK
  <1>3. BusyMatches'
    BY <1>1 DEF BusyMatches, Connecting
  <1>4. NoLostWakeup'
    BY <1>1 DEF NoLostWakeup
  <1>5. PointersInTable' /\ PeersKnown'
    BY DEF PointersInTable, PeersKnown, SameAddresses
  <1>6. ChangerKnows'
    BY <1>1 DEF ChangerKnows, SameAddresses
  <1> QED BY <1>2, <1>3, <1>4, <1>5, <1>6

\* A step that carries out a change, which ends it.
LEMMA TableStep ==
    ASSUME IndInv, UNCHANGED <<cnf, busy_count, admitted, st, ptr, peer, now>>,
           NEW i \in 0..router.n_dst, NEW a \in Addrs, NEW w \in Nat \cup {-1},
           i = 0 => w \in Nat, i = 0 \/ w < 0 => busy_count = 0,
           router' \in ChangeTable(router, i, a, w, now),
           changer'.pc = "idle", changer' \in ChangerType, wait_count' = 0
    PROVE  IndInv' /\ (SameAddresses(router', router) \/ Connecting = {})
  <1> USE DEF IndInv
  <1>1. /\ RouterFields(router')
        /\ \/ router' = router
           \/ \E e : /\ SameTable(router', e)
                     /\ \/ i = 0 /\ Added(e, router, a, w)
                        \/ i # 0 /\ w < 0 /\ Removed(e, router, i)
                        \/ i # 0 /\ w >= 0 /\ Reweighed(e, router, i)
    BY ChangeTableChanges DEF TypeOK
  <1>2. SameAddresses(router', router) \/ busy_count = 0
    <2>1. ASSUME NEW e, SameTable(router', e), Reweighed(e, router, i)
          PROVE  SameAddresses(router', router)
      <3>1. SameAddresses(router', e)
        BY <2>1, KeepsAddresses
      <3>2. SameAddresses(e, router)
        BY <2>1, KeepsAddresses
      <3> QED BY <3>1, <3>2, SameAddressesTransitive
    <2>2. router' = router => SameAddresses(router', router)
      BY KeepsAddresses
    <2> QED BY <1>1, <2>1, <2>2
  <1>3. busy_count = 0 => Connecting = {}
    <2>1. Connecting \subseteq Slots
      BY DEF Connecting
    <2> QED BY Zenon, <2>1, SlotSets DEF BusyMatches
  <1>4. TypeOK'
    BY <1>1 DEF TypeOK
  <1>5. BusyMatches' /\ NoLostWakeup' /\ PeersKnown' /\ ChangerKnows'
    BY DEF BusyMatches, Connecting, NoLostWakeup, PeersKnown, ChangerKnows
  <1>6. PointersInTable'
    BY <1>2, <1>3 DEF PointersInTable, SameAddresses, Connecting
  <1> QED BY <1>2, <1>3, <1>4, <1>5, <1>6

-----------------------------------------------------------------------------
(* The steps of Next                                                       *)

\* glb_router_create() leaves an empty table that nobody uses.
LEMMA InitIndInv == Init => IndInv
  <1> SUFFICES ASSUME Init PROVE IndInv
    OBVIOUS
  <1> USE RouterAssumption DEF Init
  <1>1. RouterFields(router)
    <2>1. [i \in 1..0 |-> NewDst(NoAddr, 0)] \in [1..0 -> DstType]
      OBVIOUS
    <2> QED BY <2>1 DEF RouterFields, RouterNames
  <1>2. TypeOK
    <2>1. cnf \in CnfType /\ now \in Nat
      OBVIOUS
    <2>2. changer \in ChangerType
      BY DEF ChangerType, NoChange
    <2>3. /\ st \in [Slots -> SlotStates] /\ ptr \in [Slots -> Nat]
          /\ peer \in [Slots -> Addrs \cup {NoAddr}]
      BY DEF SlotStates
    <2>4. admitted \in BOOLEAN
      BY Zenon
    <2>5. busy_count \in Int /\ wait_count \in Int
      OBVIOUS
    <2> QED BY <1>1, <2>1, <2>2, <2>3, <2>4, <2>5, Zenon DEF TypeOK
  <1>3. Connecting = {}
    BY DEF Connecting
  <1>4. BusyMatches
    BY <1>3, FS_EmptySet DEF BusyMatches, NoChange
  <1> QED BY <1>2, <1>4
      DEF IndInv, NoLostWakeup, PointersInTable, PeersKnown, ChangerKnows, NoChange

\* A choice that found a destination, and one that did not.
LEMMA ChoiceAddresses ==
    ASSUME NEW r, RouterFields(r), NEW t \in Nat, NEW c, NEW p \in router_choose_dst(r, t, c)
    PROVE  /\ RouterFields(p.router) /\ SameAddresses(p.router, r)
           /\ p.i \in 0..r.n_dst /\ p.i \in Nat
           /\ p.i # 0 => p.i \in 1..r.n_dst /\ p.router.dst[p.i].addr \in Addrs
  <1>1. CountedChoice(p, r)
    BY ChooseCounts
  <1>2. RouterFields(p.router) /\ SameAddresses(p.router, r) /\ p.i \in 0..r.n_dst
    BY <1>1, KeepsAddresses DEF CountedChoice
  <1>3. p.i \in Nat /\ (p.i # 0 => p.i \in 1..r.n_dst /\ p.i \in 1..p.router.n_dst)
    BY <1>2, EntryTypes DEF SameAddresses
  <1> QED BY <1>2, <1>3, EntryTypes, DstFields

\* A disconnect moves no entry.
LEMMA DisconnectAddresses ==
    ASSUME NEW r, RouterFields(r), NEW a, NEW failed \in BOOLEAN, NEW t \in Nat,
           NEW q \in router_disconnect(r, a, failed, t)
    PROVE  RouterFields(q) /\ SameAddresses(q, r)
  BY DisconnectMoves, KeepsAddresses

\* What a step does to the table: its entries stay where they are, or nobody is
\* connecting.
StepOK == IndInv' /\ (SameAddresses(router', router) \/ Connecting = {})

\* The check of max_conn, a wakeup and the clock.
LEMMA AdmitOK == IndInv /\ (Admit \/ SocketFails \/ SpuriousWakeup \/ Tick) => StepOK
  <1> SUFFICES ASSUME IndInv, Admit \/ SocketFails \/ SpuriousWakeup \/ Tick
               PROVE  IndInv' /\ SameAddresses(router', router)
    BY DEF StepOK
  <1>1. router' = router /\ UNCHANGED <<cnf, busy_count, wait_count, st, ptr, peer>>
    BY DEF Admit, SocketFails, SpuriousWakeup, Tick, slotVars
  <1>2. admitted' \in BOOLEAN
    BY Zenon DEF Admit, SocketFails, SpuriousWakeup, Tick, IndInv, TypeOK
  <1>5. now' \in Nat
    BY DEF Admit, SocketFails, SpuriousWakeup, Tick, IndInv, TypeOK
  <1>3. \/ changer' = changer
        \/ changer' = [changer EXCEPT !.pc = "woken"] /\ changer.pc = "waiting"
    BY Zenon DEF Admit, SocketFails, SpuriousWakeup, Tick
  <1>4. RouterFields(router') /\ SameAddresses(router', router)
    BY <1>1, KeepsAddresses DEF IndInv, TypeOK
  <1> QED BY <1>1, <1>2, <1>3, <1>4, <1>5, QuietStep

\* glb_router_choose_dst() takes no part in busy_count.
LEMMA ChooseAsyncOK == \A c \in Slots : IndInv /\ ChooseAsync(c) => StepOK
  <1> SUFFICES ASSUME NEW c \in Slots, IndInv, ChooseAsync(c)
               PROVE  IndInv' /\ SameAddresses(router', router)
    BY DEF StepOK
  <1>1. PICK p \in router_choose_dst(router, now, c) :
          /\ router' = p.router
          /\ IF p.i = 0 THEN UNCHANGED slotVars
             ELSE Become(c, "open", 0, p.router.dst[p.i].addr)
    BY DEF ChooseAsync
  <1>2. /\ RouterFields(router') /\ SameAddresses(router', router)
        /\ p.i # 0 => p.router.dst[p.i].addr \in Addrs
    BY <1>1, ChoiceAddresses DEF IndInv, TypeOK
  <1>3. /\ UNCHANGED <<cnf, busy_count, wait_count, changer, now>>
        /\ admitted' \in BOOLEAN /\ now' \in Nat /\ st[c] = "idle"
    BY Zenon DEF ChooseAsync, IndInv, TypeOK
  <1>4. CASE p.i = 0
    BY <1>1, <1>2, <1>3, <1>4, QuietStep DEF slotVars
  <1>5. CASE p.i # 0
    <2> DEFINE a == p.router.dst[p.i].addr
    <2>1. "open" \in SlotStates
      BY DEF SlotStates
    <2>2. busy_count \in Int
      BY DEF IndInv, TypeOK
    <2>3. Become(c, "open", 0, a) /\ a \in Addrs
      BY <1>1, <1>2, <1>5
    <2> HIDE DEF a
    <2> QED BY <1>2, <1>3, <2>1, <2>2, <2>3, SlotStep
  <1> QED BY <1>2, <1>4, <1>5

\* router_connect_dst() up to connect(): busy_count goes up with the first choice.
LEMMA ConnectBeginOK == \A c \in Slots : IndInv /\ ConnectBegin(c) => StepOK
  <1> SUFFICES ASSUME NEW c \in Slots, IndInv, ConnectBegin(c)
               PROVE  IndInv' /\ SameAddresses(router', router)
    BY DEF StepOK
  <1>1. PICK p \in router_choose_dst(router, now, c) :
          /\ router' = p.router
          /\ IF p.i = 0
             THEN UNCHANGED <<busy_count, slotVars>> /\ SignalFree
             ELSE /\ busy_count' = busy_count + 1
                  /\ Become(c, "connecting", p.i, NoAddr)
                  /\ UNCHANGED changer
    BY DEF ConnectBegin
  <1>2. /\ RouterFields(router') /\ SameAddresses(router', router)
        /\ p.i # 0 => p.i \in 1..router.n_dst /\ p.i \in Nat
    BY <1>1, ChoiceAddresses DEF IndInv, TypeOK
  <1>3. /\ UNCHANGED <<cnf, wait_count, now>> /\ busy_count \in Int
        /\ admitted' \in BOOLEAN /\ now' \in Nat /\ st[c] = "idle"
    BY Zenon DEF ConnectBegin, IndInv, TypeOK
  <1>4. CASE p.i = 0
    <2>1. \/ changer' = changer
          \/ changer' = [changer EXCEPT !.pc = "woken"] /\ changer.pc = "waiting"
      BY <1>1, <1>4, Zenon DEF SignalFree
    <2> QED BY <1>1, <1>2, <1>3, <1>4, <2>1, QuietStep DEF slotVars
  <1>5. CASE p.i # 0
    <2>1. "connecting" \in SlotStates
      BY DEF SlotStates
    <2> QED BY <1>1, <1>2, <1>3, <1>5, <2>1, SlotStep
  <1> QED BY <1>2, <1>4, <1>5

\* A connect() that succeeds gives busy_count back, and signals.
LEMMA ConnectOkOK == \A c \in Slots : IndInv /\ ConnectOk(c) => StepOK
  <1> SUFFICES ASSUME NEW c \in Slots, IndInv, ConnectOk(c)
               PROVE  IndInv' /\ SameAddresses(router', router)
    BY DEF StepOK
  <1>1. /\ RouterFields(router') /\ SameAddresses(router', router)
        /\ router.dst[ptr[c]].addr \in Addrs
    BY KeepsAddresses, EntryTypes, DstFields
       DEF ConnectOk, IndInv, TypeOK, PointersInTable
  <1>2. /\ UNCHANGED <<cnf, wait_count, now>> /\ busy_count \in Int
        /\ admitted' \in BOOLEAN /\ st[c] = "connecting"
        /\ busy_count' = busy_count - 1 /\ SignalFree
    BY DEF ConnectOk, IndInv, TypeOK
  <1>3. "open" \in SlotStates /\ "idle" \in SlotStates
    BY DEF SlotStates
  <1>4. CASE Become(c, "open", 0, router.dst[ptr[c]].addr)
    BY <1>1, <1>2, <1>3, <1>4, SlotStep
  <1>5. CASE Become(c, "idle", 0, NoAddr)
    BY <1>1, <1>2, <1>3, <1>5, SlotStep
  <1> QED BY <1>1, <1>4, <1>5 DEF ConnectOk

\* A connect() that fails keeps busy_count for the next try, or gives it back.
LEMMA ConnectFailOK == \A c \in Slots : IndInv /\ ConnectFail(c) => StepOK
  <1> SUFFICES ASSUME NEW c \in Slots, IndInv, ConnectFail(c)
               PROVE  IndInv' /\ SameAddresses(router', router)
    BY DEF StepOK
  <1>1. /\ RouterFields(router) /\ ptr[c] \in 1..router.n_dst
        /\ st[c] = "connecting" /\ now \in Nat /\ busy_count \in Int
    BY DEF ConnectFail, IndInv, TypeOK, PointersInTable
  <1> DEFINE d == CountConn(router, ptr[c], -1)
  <1>2. PICK f \in router_dst_failed(d, ptr[c], now) :
            \E p \in router_choose_dst(f, now, c) :
               /\ router' = p.router
               /\ IF p.i = 0
                  THEN /\ Become(c, "idle", 0, NoAddr)
                       /\ busy_count' = busy_count - 1
                       /\ SignalFree
                  ELSE /\ Become(c, "connecting", p.i, NoAddr)
                       /\ UNCHANGED <<busy_count, changer>>
    BY DEF ConnectFail
  <1>3. PICK p \in router_choose_dst(f, now, c) :
               /\ router' = p.router
               /\ IF p.i = 0
                  THEN /\ Become(c, "idle", 0, NoAddr)
                       /\ busy_count' = busy_count - 1
                       /\ SignalFree
                  ELSE /\ Become(c, "connecting", p.i, NoAddr)
                       /\ UNCHANGED <<busy_count, changer>>
    BY <1>2
  <1>4. RouterFields(d) /\ SameAddresses(d, router)
    BY <1>1, CountConnMoves, KeepsAddresses
  <1> HIDE DEF d
  <1>5. ptr[c] \in 1..d.n_dst
    BY <1>1, <1>4 DEF SameAddresses
  <1>6. RouterFields(f) /\ SameAddresses(f, router)
    BY <1>1, <1>4, <1>5, DstFailedKeeps, KeepsAddresses, SameAddressesTransitive
  <1>7. /\ RouterFields(router') /\ SameAddresses(router', router)
        /\ p.i # 0 => p.i \in 1..router.n_dst /\ p.i \in Nat
    <2>1. /\ RouterFields(router') /\ SameAddresses(router', f)
          /\ p.i # 0 => p.i \in 1..f.n_dst /\ p.i \in Nat
      BY <1>1, <1>3, <1>6, ChoiceAddresses
    <2> QED BY <1>6, <2>1, SameAddressesTransitive DEF SameAddresses
  <1>8. /\ UNCHANGED <<cnf, wait_count, now>> /\ admitted' \in BOOLEAN
        /\ "connecting" \in SlotStates /\ "idle" \in SlotStates
    BY DEF ConnectFail, IndInv, TypeOK, SlotStates
  <1>9. CASE p.i = 0
    <2>1. /\ Become(c, "idle", 0, NoAddr) /\ busy_count' = busy_count - 1 /\ SignalFree
      BY Zenon, <1>3, <1>9
    <2>2. busy_count' = busy_count + (IF "idle" = "connecting" THEN 1 ELSE 0)
                                   - (IF st[c] = "connecting" THEN 1 ELSE 0)
      BY <1>1, <2>1
    <2>3. 0 \in Nat /\ NoAddr \in Addrs \cup {NoAddr} /\ "idle" # "connecting" /\ "idle" # "open"
      OBVIOUS
    <2> QED BY Zenon, <1>7, <1>8, <2>1, <2>2, <2>3, SlotStep
  <1>10. CASE p.i # 0
    <2>1. /\ Become(c, "connecting", p.i, NoAddr) /\ busy_count' = busy_count /\ changer' = changer
      BY Zenon, <1>3, <1>10
    <2>2. /\ busy_count' = busy_count + (IF "connecting" = "connecting" THEN 1 ELSE 0)
                                      - (IF st[c] = "connecting" THEN 1 ELSE 0)
          /\ busy_count' >= busy_count
      BY <1>1, <2>1
    <2>3. NoAddr \in Addrs \cup {NoAddr} /\ "connecting" # "open"
      OBVIOUS
    <2> QED BY Zenon, <1>7, <1>8, <1>10, <2>1, <2>2, <2>3, SlotStep
  <1> QED BY <1>7, <1>9, <1>10

\* glb_router_disconnect().
LEMMA DisconnectOK ==
    \A c \in Slots, failed \in BOOLEAN : IndInv /\ Disconnect(c, failed) => StepOK
  <1> SUFFICES ASSUME NEW c \in Slots, NEW failed \in BOOLEAN, IndInv, Disconnect(c, failed)
               PROVE  IndInv' /\ SameAddresses(router', router)
    BY DEF StepOK
  <1>1. /\ RouterFields(router) /\ now \in Nat /\ busy_count \in Int
        /\ router' \in router_disconnect(router, peer[c], failed, now)
    BY DEF Disconnect, IndInv, TypeOK
  <1>2. RouterFields(router') /\ SameAddresses(router', router)
    BY <1>1, DisconnectAddresses
  <1>3. /\ UNCHANGED <<cnf, busy_count, wait_count, changer, now>>
        /\ st[c] = "open" /\ Become(c, "idle", 0, NoAddr)
        /\ admitted' \in BOOLEAN /\ "idle" \in SlotStates
    BY DEF Disconnect, IndInv, TypeOK, SlotStates
  <1> QED BY <1>1, <1>2, <1>3, SlotStep

\* glb_router_choose_dst_again(), the failed half.
LEMMA ChooseAgainBeginOK == \A c \in Slots : IndInv /\ ChooseAgainBegin(c) => StepOK
  <1> SUFFICES ASSUME NEW c \in Slots, IndInv, ChooseAgainBegin(c)
               PROVE  IndInv' /\ SameAddresses(router', router)
    BY DEF StepOK
  <1>1. /\ RouterFields(router) /\ now \in Nat /\ busy_count \in Int
        /\ router' \in router_disconnect(router, peer[c], TRUE, now)
    BY Zenon DEF ChooseAgainBegin, IndInv, TypeOK
  <1>2. RouterFields(router') /\ SameAddresses(router', router)
    BY Zenon, <1>1, DisconnectAddresses
  <1>3. /\ UNCHANGED <<cnf, busy_count, wait_count, changer, now>>
        /\ st[c] = "open" /\ Become(c, "again", 0, NoAddr)
        /\ admitted' \in BOOLEAN /\ "again" \in SlotStates
    BY DEF ChooseAgainBegin, IndInv, TypeOK, SlotStates
  <1> QED BY <1>1, <1>2, <1>3, SlotStep

\* glb_router_choose_dst_again(), the choice.
LEMMA ChooseAgainEndOK == \A c \in Slots : IndInv /\ ChooseAgainEnd(c) => StepOK
  <1> SUFFICES ASSUME NEW c \in Slots, IndInv, ChooseAgainEnd(c)
               PROVE  IndInv' /\ SameAddresses(router', router)
    BY DEF StepOK
  <1>1. PICK p \in router_choose_dst(router, now, c) :
          /\ router' = p.router
          /\ IF p.i = 0 THEN Become(c, "idle", 0, NoAddr)
             ELSE Become(c, "open", 0, p.router.dst[p.i].addr)
    BY DEF ChooseAgainEnd
  <1> DEFINE a == p.router.dst[p.i].addr
  <1>2. /\ RouterFields(router') /\ SameAddresses(router', router)
        /\ p.i # 0 => a \in Addrs
    BY <1>1, ChoiceAddresses DEF IndInv, TypeOK
  <1>3. /\ UNCHANGED <<cnf, busy_count, wait_count, changer, now>> /\ busy_count \in Int
        /\ admitted' \in BOOLEAN /\ st[c] = "again"
        /\ "idle" \in SlotStates /\ "open" \in SlotStates
    BY DEF ChooseAgainEnd, IndInv, TypeOK, SlotStates
  <1>4. \/ Become(c, "idle", 0, NoAddr)
        \/ p.i # 0 /\ Become(c, "open", 0, a)
    BY <1>1
  <1> HIDE DEF a
  <1>5. CASE Become(c, "idle", 0, NoAddr)
    BY <1>2, <1>3, <1>5, SlotStep
  <1>6. CASE p.i # 0 /\ Become(c, "open", 0, a)
    BY <1>2, <1>3, <1>6, SlotStep
  <1> QED BY <1>2, <1>4, <1>5, <1>6

\* glb_router_change_dst() waits, or changes the table while nobody connects.
LEMMA ChangeBeginOK ==
    \A a \in Addrs, w \in Weights : IndInv /\ ChangeBegin(a, w) => StepOK
  <1> SUFFICES ASSUME NEW a \in Addrs, NEW w \in Weights, IndInv, ChangeBegin(a, w)
               PROVE  StepOK
    OBVIOUS
  <1> DEFINE i == Lookup(router, a)
  <1>1. /\ RouterFields(router) /\ busy_count \in Int /\ changer \in ChangerType
        /\ changer.pc = "idle"
    BY DEF ChangeBegin, IndInv, TypeOK
  <1>2. /\ i \in 0..router.n_dst /\ i \in Nat
        /\ i # 0 => router.dst[i].addr = a
        /\ i = 0 => \A j \in 1..router.n_dst : router.dst[j].addr # a
    <2>1. i \in 0..router.n_dst /\ router.n_dst \in Nat
      BY Zenon, <1>1, LookupFinds, EntryTypes
    <2>2. /\ i # 0 => router.dst[i].addr = a
          /\ i = 0 => \A j \in 1..router.n_dst : router.dst[j].addr # a
      BY Zenon, <1>1, LookupFinds
    <2> QED BY Zenon, <2>1, <2>2, Position
  <1>3. /\ UNCHANGED <<cnf, busy_count, admitted, st, ptr, peer, now>>
        /\ w >= 0 \/ i # 0
    BY DEF ChangeBegin, Sane, slotVars
  <1>4. w \in Nat \cup {-1} /\ (i = 0 => w \in Nat)
    BY <1>3, RouterAssumption
  <1>5. CASE MustWait(i, w)
    <2>1. /\ wait_count' = wait_count + 1 /\ router' = router
          /\ changer' = [pc |-> "waiting", addr |-> a, weight |-> w, i |-> i]
      BY <1>5 DEF ChangeBegin
    <2> HIDE DEF i
    <2>2. /\ changer' \in ChangerType /\ changer'.pc = "waiting" /\ changer'.addr = a
          /\ changer'.weight = w /\ changer'.i = i
      BY <1>2, <1>4, <2>1 DEF ChangerType
    <2>3. wait_count' = 1 /\ busy_count > 0
      BY <1>1, <1>5, <2>1 DEF MustWait, IndInv, BusyMatches
    <2>4. TypeOK'
      BY <1>3, <2>1, <2>2, <2>3 DEF IndInv, TypeOK
    <2>5. BusyMatches' /\ NoLostWakeup'
      BY SMTT(30), <1>3, <2>2, <2>3 DEF IndInv, BusyMatches, NoLostWakeup, Connecting
    <2>6. PointersInTable' /\ PeersKnown' /\ ChangerKnows'
      BY <1>2, <1>3, <1>4, <2>1, <2>2 DEF IndInv, PointersInTable, PeersKnown, ChangerKnows
    <2>7. SameAddresses(router', router)
      BY SMTT(30), <2>1, KeepsAddresses
    <2> QED BY <2>4, <2>5, <2>6, <2>7 DEF IndInv, StepOK
  <1>6. CASE ~MustWait(i, w)
    <2>1. /\ router' \in ChangeTable(router, i, a, w, now)
          /\ wait_count' = wait_count /\ changer' = changer
      BY Zenon, <1>6 DEF ChangeBegin
    <2>2. wait_count' = 0
      BY <1>1, <2>1 DEF IndInv, BusyMatches
    <2> HIDE DEF i
    <2>3. Cardinality(Connecting) \in Nat
      BY SlotSets DEF Connecting
    <2>4. i = 0 \/ w < 0 => busy_count = 0
      BY <1>1, <1>6, <2>3 DEF MustWait, IndInv, BusyMatches
    <2>5. changer'.pc = "idle" /\ changer' \in ChangerType
      BY <1>1, <2>1
    <2>6. IndInv' /\ (SameAddresses(router', router) \/ Connecting = {})
      BY Zenon, <1>1, <1>2, <1>3, <1>4, <2>1, <2>2, <2>4, <2>5, TableStep
    <2> QED BY Zenon, <2>6 DEF StepOK
  <1> QED BY <1>5, <1>6

\* After its wait glb_router_change_dst() sees busy_count again before it goes on.
LEMMA ChangeResumeOK == IndInv /\ ChangeResume => StepOK
  <1> SUFFICES ASSUME IndInv, ChangeResume
               PROVE  StepOK
    OBVIOUS
  <1>1. /\ RouterFields(router) /\ busy_count \in Int /\ changer \in ChangerType
        /\ changer.pc = "woken"
        /\ UNCHANGED <<cnf, busy_count, admitted, st, ptr, peer, now>>
    BY DEF ChangeResume, IndInv, TypeOK, slotVars
  <1>2. CASE busy_count > 0
    <2>1. /\ changer' = [changer EXCEPT !.pc = "waiting"]
          /\ router' = router /\ wait_count' = wait_count
      BY <1>2, Zenon DEF ChangeResume
    <2>2. /\ changer' \in ChangerType /\ changer'.pc = "waiting" /\ changer'.addr = changer.addr
          /\ changer'.weight = changer.weight /\ changer'.i = changer.i
      BY <1>1, <2>1 DEF ChangerType
    <2>3. TypeOK'
      BY <1>1, <2>1, <2>2 DEF IndInv, TypeOK
    <2>4. BusyMatches' /\ NoLostWakeup'
      BY <1>1, <1>2, <2>1, <2>2 DEF IndInv, BusyMatches, NoLostWakeup, Connecting
    <2>5. PointersInTable' /\ PeersKnown' /\ ChangerKnows'
      BY <1>1, <2>1, <2>2 DEF IndInv, PointersInTable, PeersKnown, ChangerKnows
    <2>6. SameAddresses(router', router)
      BY <2>1, KeepsAddresses
    <2> QED BY <2>3, <2>4, <2>5, <2>6 DEF IndInv, StepOK
  <1>3. CASE ~(busy_count > 0)
    <2>1. /\ changer' = NoChange /\ wait_count' = wait_count - 1
          /\ router' \in ChangeTable(router, changer.i, changer.addr, changer.weight, now)
      BY <1>3 DEF ChangeResume
    <2>2. /\ changer.addr \in Addrs /\ changer.i \in 0..router.n_dst
          /\ changer.i = 0 => changer.weight \in Nat
          /\ changer.weight \in Nat \cup {-1}
      BY <1>1 DEF IndInv, ChangerKnows, ChangerType
    <2>3. wait_count' = 0
      BY <1>1, <2>1 DEF IndInv, BusyMatches
    <2>4. changer'.pc = "idle" /\ changer' \in ChangerType
      BY <2>1 DEF NoChange, ChangerType
    <2>5. busy_count = 0
      <3>1. Cardinality(Connecting) \in Nat
        BY SlotSets DEF Connecting
      <3> QED BY <1>3, <3>1 DEF IndInv, BusyMatches
    <2> QED BY Zenon, <1>1, <2>1, <2>2, <2>3, <2>4, <2>5, TableStep DEF StepOK
  <1> QED BY <1>2, <1>3

\* Every step keeps the invariant, and moves entries only while nobody connects.
LEMMA NextOK == IndInv /\ Next => StepOK
  BY AdmitOK, ChooseAsyncOK, ConnectBeginOK, ConnectOkOK, ConnectFailOK, DisconnectOK,
     ChooseAgainBeginOK, ChooseAgainEndOK, ChangeBeginOK, ChangeResumeOK DEF Next

\* So does no step at all.
LEMMA StutterOK == IndInv /\ UNCHANGED vars => StepOK
  <1> SUFFICES ASSUME IndInv, UNCHANGED vars
               PROVE  StepOK
    OBVIOUS
  <1>1. /\ router' = router /\ changer' = changer /\ admitted' = admitted /\ now' = now
        /\ UNCHANGED <<cnf, busy_count, wait_count, st, ptr, peer>>
    BY DEF vars, slotVars
  <1>2. RouterFields(router') /\ SameAddresses(router', router)
    BY <1>1, KeepsAddresses DEF IndInv, TypeOK
  <1>3. admitted' \in BOOLEAN /\ now' \in Nat
    BY <1>1 DEF IndInv, TypeOK
  <1> QED BY <1>1, <1>2, <1>3, QuietStep DEF StepOK

-----------------------------------------------------------------------------
(* The theorems                                                            *)

\* What the program has is inductive: every state it can reach satisfies it.
THEOREM Invariance == Spec => []IndInv
  <1>1. IndInv /\ [Next]_vars => IndInv'
    BY NextOK, StutterOK DEF StepOK
  <1> QED BY <1>1, InitIndInv, PTL DEF Spec

\* Every variable keeps its type; top_dst never dangles after a change of the
\* table by glb_router_change_dst().
THEOREM TypeCorrect == Spec => []TypeOK
  BY Invariance, PTL DEF IndInv

\* router_connect_dst() gives busy_count back on every way out, and
\* glb_router_change_dst() gives back wait_count.
THEOREM BusyCounted == Spec => []BusyMatches
  BY Invariance, PTL DEF IndInv

\* A thread that waits in glb_router_change_dst() is always signalled: some
\* connect is still in progress, and the last one to end signals.
THEOREM WakeupKept == Spec => []NoLostWakeup
  BY Invariance, PTL DEF IndInv

\* A pointer into the table that a thread keeps over connect() stays good.
THEOREM PointersAreHeld == Spec => PointersHold
  <1>1. IndInv /\ [Next]_vars =>
          (Connecting # {} =>
              /\ router'.n_dst = router.n_dst
              /\ \A i \in 1..router.n_dst : router'.dst[i].addr = router.dst[i].addr)
    BY NextOK, StutterOK DEF StepOK, SameAddresses
  <1> QED BY <1>1, Invariance, PTL DEF Spec, PointersHold

=============================================================================

----------------------------- MODULE WdogProofs -----------------------------
(***************************************************************************)
(* Invariants of Wdog, for any addresses, weights, reports and bounds, and *)
(* of Backend, the thread behind each watched destination.                 *)
(***************************************************************************)
EXTENDS Wdog, Backend, WellFoundedInduction, TLAPS

-----------------------------------------------------------------------------
(* Induction, in the form in which the loops of the watchdog use it: about *)
(* a set, not about a predicate.                                           *)

\* A set of naturals has a least element: the naturals are well founded.
LEMMA Least ==
    ASSUME NEW S, S \subseteq Nat, S # {}
    PROVE  \E x \in S : \A y \in S : x <= y
<1>1. PICK x \in S : \A y \in S : <<y, x>> \notin OpToRel(<, Nat)
  BY Zenon, WFMin, NatLessThanWellFounded
<1>2. ASSUME NEW y \in S PROVE x <= y
  <2>1. x \in Nat /\ y \in Nat
    OBVIOUS
  <2>2. ~(y < x)
    BY Zenon, <1>1, <2>1 DEF OpToRel
  <2> QED
    BY <2>1, <2>2
<1> QED
  BY <1>2

\* Induction up to n, for what is said by membership in a set.
LEMMA Induction ==
    ASSUME NEW n \in Nat, NEW S, 0 \in S, \A k \in 0..n - 1 : k \in S => k + 1 \in S
    PROVE  \A k \in 0..n : k \in S
<1> DEFINE T == {k \in 0..n : k \notin S}
<1> SUFFICES ASSUME T # {} PROVE FALSE
  OBVIOUS
<1>1. PICK x \in T : \A y \in T : x <= y
  <2>1. T \subseteq Nat
    OBVIOUS
  <2> HIDE DEF T
  <2> QED BY Zenon, <2>1, Least
<1>2. x \in 1..n /\ x - 1 \in 0..n - 1 /\ x - 1 \notin T
  BY <1>1
<1>3. x - 1 \in S /\ (x - 1) + 1 = x
  BY <1>2
<1> QED
  BY <1>2, <1>3

\* f goes from v on by the steps of G.
Computes(f, n, V, v, G) ==
    /\ f \in [0..n -> V]
    /\ f[0] = v /\ \A k \in 1..n : f[k] = G[<<k, f[k - 1]>>]

\* What is defined by recursion up to n exists.
LEMMA Recursion ==
    ASSUME NEW n \in Nat, NEW V, NEW v \in V, NEW G \in [(1..n) \X V -> V]
    PROVE  \E f : Computes(f, n, V, v, G)
<1> DEFINE S == {m \in 0..n : \E f : Computes(f, m, V, v, G)}
<1>1. 0 \in S
  <2>1. [k \in 0..0 |-> v] \in [0..0 -> V] /\ [k \in 0..0 |-> v][0] = v /\ 1..0 = {}
    OBVIOUS
  <2>2. Computes([k \in 0..0 |-> v], 0, V, v, G)
    BY <2>1 DEF Computes
  <2> QED
    BY <2>2
<1>2. ASSUME NEW m \in 0..n - 1, m \in S PROVE m + 1 \in S
  <2>0. PICK f : Computes(f, m, V, v, G)
    BY <1>2
  <2>1. f \in [0..m -> V] /\ f[0] = v /\ \A k \in 1..m : f[k] = G[<<k, f[k - 1]>>]
    BY <2>0 DEF Computes
  <2> DEFINE g == [k \in 0..m + 1 |-> IF k = m + 1 THEN G[<<k, f[m]>>] ELSE f[k]]
  <2>2. m \in Nat /\ m + 1 \in 1..n /\ f[m] \in V
    BY <2>1
  <2>3. G[<<m + 1, f[m]>>] \in V
    BY <2>2
  <2>4. g \in [0..m + 1 -> V]
    BY <2>1, <2>2, <2>3
  <2>5. g[0] = v
    BY <2>1, <2>2
  <2>6. ASSUME NEW k \in 1..m + 1 PROVE g[k] = G[<<k, g[k - 1]>>]
    <3>1. CASE k = m + 1
      <4>1. k - 1 = m /\ m # m + 1 /\ m \in 0..m + 1
        BY <2>2, <3>1
      <4> QED
        BY <3>1, <4>1, <2>2
    <3>2. CASE k # m + 1
      <4>1. k \in 1..m /\ k - 1 # m + 1 /\ k - 1 \in 0..m + 1 /\ k \in 0..m + 1
        BY <2>2, <3>2
      <4> QED
        BY <3>2, <4>1, <2>1
    <3> QED
      BY <3>1, <3>2
  <2>7. Computes(g, m + 1, V, v, G)
    <3> HIDE DEF g
    <3> QED BY <2>4, <2>5, <2>6 DEF Computes
  <2> QED
    BY <2>2, <2>7
<1>3. n \in S
  <2> HIDE DEF S
  <2> QED BY <1>1, <1>2, Induction
<1> QED
  BY <1>3

-----------------------------------------------------------------------------
(* The sweep                                                               *)

\* What one turn of the sweep makes of the list rest.
SweepStep(l, k, rest) ==
    IF l[k].ctx.join
    THEN [j \in 1..Len(rest) - 1 |-> IF j = k THEN rest[Len(rest)] ELSE rest[j]]
    ELSE rest

\* A turn of the sweep leaves a list.
LEMMA SweepStepType ==
    ASSUME NEW E, NEW l, NEW k \in Nat, NEW rest \in Seq(E)
    PROVE  SweepStep(l, k, rest) \in Seq(E)
<1>1. ASSUME Len(rest) > 0
      PROVE  [j \in 1..Len(rest) - 1 |-> IF j = k THEN rest[Len(rest)] ELSE rest[j]] \in Seq(E)
  BY <1>1
<1>2. ASSUME Len(rest) = 0
      PROVE  [j \in 1..Len(rest) - 1 |-> IF j = k THEN rest[Len(rest)] ELSE rest[j]] \in Seq(E)
  <2>1. 1..Len(rest) - 1 = {}
    BY <1>2
  <2>2. [j \in {} |-> IF j = k THEN rest[Len(rest)] ELSE rest[j]] = <<>>
    OBVIOUS
  <2> QED
    BY <2>1, <2>2
<1>3. Len(rest) > 0 \/ Len(rest) = 0
  OBVIOUS
<1> QED
  BY <1>1, <1>2, <1>3 DEF SweepStep

\* The lists that the loop of the sweep goes through: f[k] is the one after
\* the entries from k on have been looked at.
SweepRun(l, f) ==
    f = [k \in 1..Len(l) + 1 |-> IF k > Len(l) THEN l ELSE SweepStep(l, k, f[k + 1])]

\* The sweep is its loop: Swept is what there is after the last turn.
LEMMA SweptRun ==
    ASSUME NEW E, NEW l \in Seq(E)
    PROVE  \E f : SweepRun(l, f) /\ Swept(l) = f[1]
<1> DEFINE n == Len(l)
           G == [p \in (1..n) \X Seq(E) |-> SweepStep(l, n + 1 - p[1], p[2])]
<1>1. n \in Nat
  OBVIOUS
<1>2. G \in [(1..n) \X Seq(E) -> Seq(E)]
  <2>1. ASSUME NEW p \in (1..n) \X Seq(E)
        PROVE  n + 1 - p[1] \in Nat /\ p[2] \in Seq(E)
    BY <1>1
  <2> QED
    BY <2>1, SweepStepType
<1>3. PICK g : g \in [0..n -> Seq(E)] /\ g[0] = l /\ \A k \in 1..n : g[k] = G[<<k, g[k - 1]>>]
  <2>1. \E g : Computes(g, n, Seq(E), l, G)
    <3> HIDE DEF G, n
    <3> QED BY Zenon, <1>1, <1>2, Recursion
  <2> QED
    BY Zenon, <2>1 DEF Computes
<1> DEFINE f == [k \in 1..n + 1 |-> g[n + 1 - k]]
<1>4. SweepRun(l, f)
  <2>1. ASSUME NEW k \in 1..n + 1
        PROVE  f[k] = IF k > n THEN l ELSE SweepStep(l, k, f[k + 1])
    <3>1. CASE k > n
      <4>1. k = n + 1 /\ n + 1 - k = 0
        BY <1>1, <3>1
      <4> QED
        BY <3>1, <4>1, <1>3
    <3>2. CASE ~(k > n)
      <4>1. /\ k \in 1..n /\ n + 1 - k \in 1..n /\ (n + 1 - k) - 1 = n + 1 - (k + 1)
            /\ k + 1 \in 1..n + 1 /\ n + 1 - (n + 1 - k) = k
            /\ (n + 1 - k) - 1 \in 0..n
        BY <1>1, <3>2
      <4>2. f[k] = G[<<n + 1 - k, g[n + 1 - (k + 1)]>>]
        BY Zenon, <4>1, <1>3
      <4>3. g[n + 1 - (k + 1)] \in Seq(E) /\ f[k + 1] = g[n + 1 - (k + 1)]
        BY <4>1, <1>3
      <4>4. G[<<n + 1 - k, g[n + 1 - (k + 1)]>>] = SweepStep(l, k, g[n + 1 - (k + 1)])
        BY <4>1, <4>3
      <4> QED
        BY <3>2, <4>2, <4>3, <4>4
    <3> QED
      BY <3>1, <3>2
  <2>2. f = [k \in 1..n + 1 |-> f[k]]
    OBVIOUS
  <2> HIDE DEF f
  <2> QED
    BY Zenon, <2>1, <2>2 DEF SweepRun
<1>5. Swept(l) = (CHOOSE h : SweepRun(l, h))[1]
  BY DEF Swept, SweepRun, SweepStep
<1> QED
  BY Zenon, <1>4, <1>5

\* No address is in the list twice.
Apart(l) == \A i, j \in DOMAIN l : l[i].dst = l[j].dst => i = j

\* What holds of the list r when the entries of l from k on have been looked at:
\* those before k are where they were, and after them are those that have not
\* joined, in some order.
SweepInv(l, k, r) ==
    /\ k - 1 <= Len(r)
    /\ \A j \in 1..k - 1 : r[j] = l[j]
    /\ \A j \in k..Len(r) : \E i \in k..Len(l) : r[j] = l[i] /\ ~l[i].ctx.join
    /\ \A i \in k..Len(l) : ~l[i].ctx.join => \E j \in k..Len(r) : r[j] = l[i]
    /\ Apart(l) => Apart(r)

\* A turn of the sweep keeps its invariant. If the entry has joined, the last one is
\* moved into its place or, if it is the last one itself, just dropped.
LEMMA SweepStepInv ==
    ASSUME NEW E, NEW l \in Seq(E), NEW k \in 1..Len(l), NEW r \in Seq(E),
           SweepInv(l, k + 1, r)
    PROVE  SweepInv(l, k, SweepStep(l, k, r))
<1> DEFINE s == SweepStep(l, k, r)
<1>1. k \in Nat /\ k >= 1 /\ k <= Len(r) /\ Len(r) \in Nat /\ Len(l) \in Nat /\ r[k] = l[k]
  BY DEF SweepInv
<1>2. CASE ~l[k].ctx.join
  <2>1. s = r
    BY <1>2 DEF SweepStep
  <2>2. k - 1 <= Len(r) /\ \A j \in 1..k - 1 : r[j] = l[j]
    BY <1>1 DEF SweepInv
  <2>3. ASSUME NEW j \in k..Len(r)
        PROVE  \E i \in k..Len(l) : r[j] = l[i] /\ ~l[i].ctx.join
    <3>1. CASE j = k
      BY <1>1, <1>2, <3>1
    <3>2. CASE j # k
      <4>1. j \in k + 1..Len(r)
        BY <1>1, <3>2
      <4>2. PICK i \in k + 1..Len(l) : r[j] = l[i] /\ ~l[i].ctx.join
        BY <4>1 DEF SweepInv
      <4> QED
        BY <1>1, <4>2
    <3> QED
      BY <3>1, <3>2
  <2>4. ASSUME NEW i \in k..Len(l), ~l[i].ctx.join
        PROVE  \E j \in k..Len(r) : r[j] = l[i]
    <3>1. CASE i = k
      BY <1>1, <3>1
    <3>2. CASE i # k
      <4>1. i \in k + 1..Len(l)
        BY <1>1, <3>2
      <4>2. PICK j \in k + 1..Len(r) : r[j] = l[i]
        BY <2>4, <4>1 DEF SweepInv
      <4> QED
        BY <1>1, <4>2
    <3> QED
      BY <3>1, <3>2
  <2> QED
    BY <2>1, <2>2, <2>3, <2>4 DEF SweepInv
<1>3. CASE l[k].ctx.join
  <2>1. s = [j \in 1..Len(r) - 1 |-> IF j = k THEN r[Len(r)] ELSE r[j]]
    BY <1>3 DEF SweepStep
  <2>2. Len(s) = Len(r) - 1 /\ DOMAIN s = 1..Len(r) - 1
    BY <1>1, <2>1
  <2>3. \A j \in 1..Len(r) - 1 : s[j] = IF j = k THEN r[Len(r)] ELSE r[j]
    BY <2>1
  <2> HIDE DEF s
  <2>4. k - 1 <= Len(s) /\ \A j \in 1..k - 1 : s[j] = l[j]
    <3>1. \A j \in 1..k - 1 : r[j] = l[j] /\ j \in 1..Len(r) - 1 /\ j # k
      BY <1>1 DEF SweepInv
    <3> QED
      BY <1>1, <2>2, <2>3, <3>1
  <2>5. ASSUME NEW j \in k..Len(s)
        PROVE  \E i \in k..Len(l) : s[j] = l[i] /\ ~l[i].ctx.join
    <3>1. PICK m \in k + 1..Len(r) : s[j] = r[m]
      BY <1>1, <2>2, <2>3
    <3>2. PICK i \in k + 1..Len(l) : r[m] = l[i] /\ ~l[i].ctx.join
      BY <3>1 DEF SweepInv
    <3> QED
      BY <1>1, <3>1, <3>2
  <2>6. ASSUME NEW i \in k..Len(l), ~l[i].ctx.join
        PROVE  \E j \in k..Len(s) : s[j] = l[i]
    <3>1. i \in k + 1..Len(l)
      BY <1>1, <1>3, <2>6
    <3>2. PICK j \in k + 1..Len(r) : r[j] = l[i]
      BY <2>6, <3>1 DEF SweepInv
    <3>3. CASE j = Len(r)
      <4>1. k \in k..Len(s) /\ s[k] = r[Len(r)]
        BY <1>1, <2>2, <2>3, <3>2, <3>3
      <4> QED
        BY <3>2, <3>3, <4>1
    <3>4. CASE j # Len(r)
      <4>1. j \in k..Len(s) /\ j \in 1..Len(r) - 1 /\ j # k
        BY <1>1, <2>2, <3>2, <3>4
      <4>2. s[j] = r[j]
        BY <2>3, <4>1
      <4> QED
        BY <3>2, <4>1, <4>2
    <3> QED
      BY <3>3, <3>4
  <2>7. ASSUME Apart(l) PROVE Apart(s)
    <3>1. \A i, j \in 1..Len(r) : r[i].dst = r[j].dst => i = j
      BY <2>7 DEF SweepInv, Apart
    <3>2. ASSUME NEW i \in 1..Len(r) - 1, NEW j \in 1..Len(r) - 1, s[i].dst = s[j].dst
          PROVE  i = j
      <4> DEFINE f(x) == IF x = k THEN Len(r) ELSE x
      <4>1. f(i) \in 1..Len(r) /\ f(j) \in 1..Len(r) /\ s[i] = r[f(i)] /\ s[j] = r[f(j)]
        BY <1>1, <2>3
      <4>2. f(i) = f(j)
        <5> HIDE DEF f
        <5> QED BY <3>1, <3>2, <4>1
      <4> QED
        BY <1>1, <4>2
    <3> QED
      BY <2>2, <3>2 DEF Apart
  <2> QED
    BY <2>4, <2>5, <2>6, <2>7 DEF s, SweepInv
<1> QED
  BY <1>2, <1>3

\* The sweep: those that have not joined are left, each of them once.
LEMMA SweptLemma ==
    ASSUME NEW E, NEW l \in Seq(E)
    PROVE  Swept(l) \in Seq(E) /\ SweepInv(l, 1, Swept(l))
<1>1. PICK f : SweepRun(l, f) /\ Swept(l) = f[1]
  BY SweptRun
<1> DEFINE n == Len(l)
           S == {m \in 0..n : f[n + 1 - m] \in Seq(E) /\ SweepInv(l, n + 1 - m, f[n + 1 - m])}
<1>2. n \in Nat
  OBVIOUS
<1>3. f[n + 1] = l /\ \A k \in 1..n : f[k] = SweepStep(l, k, f[k + 1])
  <2>1. n + 1 \in 1..n + 1 /\ n + 1 > n /\ \A k \in 1..n : k \in 1..n + 1 /\ ~(k > n)
    BY <1>2
  <2> QED
    BY <1>1, <2>1 DEF SweepRun
<1>4. 0 \in S
  <2>1. SweepInv(l, n + 1, l)
    BY <1>2 DEF SweepInv
  <2> QED
    BY <1>2, <1>3, <2>1
<1>5. ASSUME NEW m \in 0..n - 1, m \in S PROVE m + 1 \in S
  <2> DEFINE k == n + 1 - (m + 1)
  <2>1. k \in 1..n /\ k + 1 = n + 1 - m /\ m + 1 \in 0..n /\ k \in Nat
    BY <1>2
  <2>2. f[k + 1] \in Seq(E) /\ SweepInv(l, k + 1, f[k + 1])
    BY <1>5, <2>1
  <2>3. f[k] = SweepStep(l, k, f[k + 1])
    BY <1>3, <2>1
  <2>4. f[k] \in Seq(E) /\ SweepInv(l, k, f[k])
    <3> HIDE DEF k
    <3> QED BY <2>1, <2>2, <2>3, SweepStepType, SweepStepInv
  <2> QED
    BY <2>1, <2>4
<1>6. n \in S
  <2>1. \A k \in 0..n : k \in S
    <3> HIDE DEF n, S
    <3> QED BY <1>2, <1>4, <1>5, Induction
  <2> HIDE DEF S
  <2> QED BY <1>2, <2>1
<1>7. n + 1 - n = 1
  BY <1>2
<1> QED
  BY <1>1, <1>6, <1>7

-----------------------------------------------------------------------------
(* wdog_change_dst()                                                       *)

\* The entry that is found has the address, and if none is found there is none.
LEMMA FindLemma ==
    ASSUME NEW E, NEW l \in Seq(E), NEW d
    PROVE  \/ Find(l, d) = 0 /\ \A i \in DOMAIN l : l[i].dst # d
           \/ Find(l, d) # 0 /\ Find(l, d) \in DOMAIN l /\ l[Find(l, d)].dst = d
<1> DEFINE S == {i \in DOMAIN l : l[i].dst = d}
<1>1. S \subseteq Nat /\ 0 \notin S
  OBVIOUS
<1>2. Find(l, d) = IF S = {} THEN 0 ELSE Min(S)
  BY DEF Find, First
<1>3. CASE S = {}
  BY <1>2, <1>3
<1>4. CASE S # {}
  <2>1. Min(S) \in S
    <3> HIDE DEF S
    <3>1. \E x \in S : \A y \in S : x <= y
      BY Zenon, <1>1, <1>4, Least
    <3> QED
      BY <3>1 DEF Min
  <2> QED
    BY <1>1, <1>2, <1>4, <2>1
<1> QED
  BY <1>3, <1>4

\* Without two entries of one address, the entry that is found is the one.
LEMMA FindOwn ==
    ASSUME NEW E, NEW l \in Seq(E), Apart(l), NEW i \in DOMAIN l
    PROVE  Find(l, l[i].dst) = i
BY FindLemma DEF Apart

\* What an entry keeps to beside its type: the failures of an explicit one are
\* not counted, and one with too many has been told to quit.
Counted(l) ==
    \A i \in DOMAIN l :
        /\ l[i].explicit => l[i].fail = 0
        /\ l[i].fail > MaxFail => l[i].ctx.quit

\* A list as the watchdog keeps it between its steps.
Proper(l) == l \in Seq(Entries) /\ Apart(l) /\ Counted(l)

\* What wdog_dst_init() makes is an entry that is not routed and has not failed.
LEMMA NewEntry ==
    ASSUME NEW d \in Dsts, NEW w \in Nat, NEW x \in BOOLEAN
    PROVE  /\ Entry(d, w, x) \in Entries
           /\ Entry(d, w, x).dst = d /\ Entry(d, w, x).weight = NotRouted
           /\ Entry(d, w, x).fail = 0 /\ ~Entry(d, w, x).ctx.quit
<1>1. NewCtx \in Ctx
  BY DEF NewCtx, Ctx, NoResult, Result, States, GLB_DST_NOTFOUND, GLB_DST_READY
<1>2. 0 \in 0..MaxFail + 1
  BY WdogAssumption
<1> QED
  BY <1>1, <1>2 DEF Entry, Entries, NewCtx

\* A change of weight, or a reference to a destination, forgives its failures.
LEMMA ModifiedEntry ==
    ASSUME NEW e \in Entries, NEW w \in Nat, NEW x \in BOOLEAN
    PROVE  /\ Modify(e, w, x) \in Entries
           /\ Modify(e, w, x).dst = e.dst /\ Modify(e, w, x).weight = e.weight
           /\ Modify(e, w, x).fail = 0 /\ Modify(e, w, x).ctx = e.ctx
<1>1. 0 \in 0..MaxFail + 1
  BY WdogAssumption
<1> QED
  BY Zenon, <1>1 DEF Modify, Entries

\* An entry that is told to quit stays what it was otherwise.
LEMMA QuitEntry ==
    ASSUME NEW e \in Entries
    PROVE  /\ Quit(e) \in Entries
           /\ Quit(e).dst = e.dst /\ Quit(e).weight = e.weight /\ Quit(e).fail = e.fail
           /\ Quit(e).explicit = e.explicit /\ Quit(e).ctx.quit
           /\ Quit(e).ctx.join = e.ctx.join
<1>1. Quitting(e.ctx) \in Ctx /\ Quitting(e.ctx).quit /\ Quitting(e.ctx).join = e.ctx.join
  BY Zenon DEF Quitting, Ctx, Entries
<1> QED
  BY <1>1 DEF Quit, Entries

\* Replacing an entry by one of the same address.
LEMMA AtLemma ==
    ASSUME NEW l, Proper(l), NEW i \in DOMAIN l, NEW e \in Entries, e.dst = l[i].dst,
           e.explicit => e.fail = 0, e.fail > MaxFail => e.ctx.quit
    PROVE  /\ Proper(At(l, i, e)) /\ Len(At(l, i, e)) = Len(l)
           /\ DOMAIN At(l, i, e) = DOMAIN l
           /\ \A j \in DOMAIN l : At(l, i, e)[j] = IF j = i THEN e ELSE l[j]
<1> DEFINE m == At(l, i, e)
<1>1. l \in Seq(Entries) /\ DOMAIN l = 1..Len(l) /\ Len(l) \in Nat
  BY DEF Proper
<1>2. DOMAIN m = DOMAIN l /\ \A j \in DOMAIN l : m[j] = IF j = i THEN e ELSE l[j]
  BY DEF At
<1>3. m \in Seq(Entries) /\ Len(m) = Len(l)
  BY <1>1 DEF At
<1> HIDE DEF m
<1>4. Apart(m)
  BY <1>2 DEF Proper, Apart
<1>5. Counted(m)
  BY <1>2 DEF Proper, Counted
<1> QED
  BY <1>2, <1>3, <1>4, <1>5 DEF Proper, m

\* What adding destinations to the list l, and referring to those in it, makes
\* of it: the list m has the entries of l where they were, as far as the router
\* and the backend threads are concerned, and then new ones.
Grown(l, m) ==
    /\ Len(l) <= Len(m)
    /\ \A i \in 1..Len(l) :
        /\ m[i].dst = l[i].dst /\ m[i].weight = l[i].weight /\ m[i].ctx = l[i].ctx
        /\ m[i].fail = 0 \/ m[i].fail = l[i].fail
    /\ \A i \in Len(l) + 1..Len(m) :
        m[i].weight = NotRouted /\ ~m[i].ctx.quit /\ m[i].fail = 0

\* The entry of d has no failures, if there is one.
Forgiven(l, d) == \A i \in DOMAIN l : l[i].dst = d => l[i].fail = 0

\* To grow is a preorder ...
LEMMA GrownRefl ==
    ASSUME NEW l \in Seq(Entries)
    PROVE  Grown(l, l)
BY DEF Grown

\* ... for lists of entries,
LEMMA GrownTrans ==
    ASSUME NEW l \in Seq(Entries), NEW m \in Seq(Entries), NEW n \in Seq(Entries),
           Grown(l, m), Grown(m, n)
    PROVE  Grown(l, n)
<1>1. Len(l) \in Nat /\ Len(m) \in Nat /\ Len(n) \in Nat /\ Len(l) <= Len(m) /\ Len(m) <= Len(n)
  BY DEF Grown
<1>2. ASSUME NEW i \in 1..Len(l)
      PROVE  /\ n[i].dst = l[i].dst /\ n[i].weight = l[i].weight /\ n[i].ctx = l[i].ctx
             /\ n[i].fail = 0 \/ n[i].fail = l[i].fail
  <2>1. i \in 1..Len(m)
    BY <1>1
  <2> QED
    BY <2>1 DEF Grown
<1>3. ASSUME NEW i \in Len(l) + 1..Len(n)
      PROVE  n[i].weight = NotRouted /\ ~n[i].ctx.quit /\ n[i].fail = 0
  <2>1. (i \in 1..Len(m) /\ i \in Len(l) + 1..Len(m)) \/ i \in Len(m) + 1..Len(n)
    BY <1>1
  <2> QED
    BY <2>1 DEF Grown
<1> QED
  BY <1>1, <1>2, <1>3 DEF Grown

\* and what has been forgiven stays so.
LEMMA GrownForgiven ==
    ASSUME NEW l \in Seq(Entries), NEW m \in Seq(Entries), NEW d,
           Grown(l, m), Forgiven(l, d)
    PROVE  Forgiven(m, d)
<1>1. \A i \in DOMAIN m : (i \in 1..Len(l) /\ i \in DOMAIN l) \/ i \in Len(l) + 1..Len(m)
  OBVIOUS
<1> QED
  BY <1>1 DEF Grown, Forgiven

\* A new entry behind a proper list that does not have its address.
LEMMA AppendLemma ==
    ASSUME NEW l, Proper(l), NEW e \in Entries, \A i \in DOMAIN l : l[i].dst # e.dst,
           e.weight = NotRouted, e.fail = 0, ~e.ctx.quit
    PROVE  /\ Proper(Append(l, e)) /\ Grown(l, Append(l, e))
           /\ Forgiven(Append(l, e), e.dst)
<1> DEFINE m == Append(l, e)
<1>1. /\ l \in Seq(Entries) /\ Len(l) \in Nat /\ DOMAIN l = 1..Len(l)
      /\ m \in Seq(Entries) /\ Len(m) = Len(l) + 1 /\ DOMAIN m = 1..Len(l) + 1
      /\ m[Len(l) + 1] = e /\ \A i \in 1..Len(l) : m[i] = l[i]
  BY DEF Proper
<1> HIDE DEF m
<1>2. ASSUME NEW i \in DOMAIN m
      PROVE  (i \in DOMAIN l /\ m[i] = l[i]) \/ (i = Len(l) + 1 /\ m[i] = e)
  <2>1. i \in 1..Len(l) \/ i = Len(l) + 1
    BY <1>1
  <2> QED
    BY <1>1, <2>1
<1>3. Apart(m)
  BY <1>2 DEF Proper, Apart
<1>4. Counted(m)
  <2>1. MaxFail \in Nat
    BY WdogAssumption
  <2> QED
    BY <1>2, <2>1 DEF Proper, Counted
<1>5. Grown(l, m)
  BY <1>1, <1>2 DEF Grown
<1>6. Forgiven(m, e.dst)
  BY <1>2 DEF Forgiven
<1> QED
  BY <1>1, <1>3, <1>4, <1>5, <1>6 DEF Proper, m

\* A destination is added or referred to.
LEMMA ChangeDstAdds ==
    ASSUME NEW l, Proper(l), NEW d \in Dsts, NEW w \in Nat, NEW x \in BOOLEAN,
           NEW m \in ChangeDst(l, d, w, x)
    PROVE  Proper(m) /\ Grown(l, m) /\ Forgiven(m, d)
<1> DEFINE i == Find(l, d)
<1>1. l \in Seq(Entries) /\ ~(w < 0) /\ w >= 0
  BY DEF Proper
<1>2. CASE i = 0
  <2>1. \A j \in DOMAIN l : l[j].dst # d
    BY <1>1, <1>2, FindLemma
  <2>2. m = l \/ m = Append(l, Entry(d, w, x))
    BY <1>1, <1>2 DEF ChangeDst
  <2>3. Forgiven(l, d)
    BY <2>1 DEF Forgiven
  <2>4. CASE m = l
    BY <1>1, <2>3, <2>4, GrownRefl
  <2>5. CASE m = Append(l, Entry(d, w, x))
    <3> DEFINE e == Entry(d, w, x)
    <3>1. /\ e \in Entries /\ e.dst = d /\ e.weight = NotRouted
          /\ e.fail = 0 /\ ~e.ctx.quit
      BY NewEntry
    <3>2. m = Append(l, e)
      BY <2>5
    <3> HIDE DEF e
    <3> QED
      BY <2>1, <3>1, <3>2, AppendLemma
  <2> QED
    BY <2>2, <2>4, <2>5
<1>3. CASE i # 0
  <2>1. i \in DOMAIN l /\ l[i].dst = d
    BY <1>1, <1>3, FindLemma
  <2>2. m = At(l, i, Modify(l[i], w, x))
    BY <1>1, <1>3 DEF ChangeDst
  <2> HIDE DEF i
  <2>3. l[i] \in Entries
    BY <1>1, <2>1
  <2> DEFINE e == Modify(l[i], w, x)
  <2>4. /\ e \in Entries /\ e.dst = d /\ e.weight = l[i].weight
        /\ e.fail = 0 /\ e.ctx = l[i].ctx
    BY <2>1, <2>3, ModifiedEntry
  <2>5. ~(e.fail > MaxFail)
    BY <2>4, WdogAssumption
  <2> HIDE DEF e
  <2>6. /\ Proper(m) /\ Len(m) = Len(l) /\ DOMAIN m = DOMAIN l
        /\ \A j \in DOMAIN l : m[j] = IF j = i THEN e ELSE l[j]
    BY <2>1, <2>2, <2>4, <2>5, AtLemma DEF e
  <2>7. Grown(l, m)
    BY <1>1, <2>1, <2>4, <2>6 DEF Grown
  <2>8. Forgiven(m, d)
    BY <2>1, <2>4, <2>6 DEF Forgiven, Proper, Apart
  <2> QED
    BY <2>6, <2>7, <2>8
<1> QED
  BY <1>2, <1>3

\* What removing the destination d makes of the list l: it may be told to quit.
Removed(l, d, m) ==
    /\ Proper(m) /\ Len(m) = Len(l) /\ DOMAIN m = DOMAIN l
    /\ \A i \in DOMAIN l :
        /\ m[i].dst = l[i].dst /\ m[i].weight = l[i].weight /\ m[i].fail = l[i].fail
        /\ m[i].ctx.quit => l[i].ctx.quit \/ l[i].dst = d

\* A destination is removed with a command.
LEMMA ChangeDstRemoves ==
    ASSUME NEW l, Proper(l), NEW d, NEW m \in ChangeDst(l, d, -1, TRUE)
    PROVE  Removed(l, d, m)
<1> DEFINE i == Find(l, d)
<1>1. l \in Seq(Entries) /\ -1 < 0 /\ ~(-1 >= 0)
  BY DEF Proper
<1>2. CASE m = l
  BY <1>2 DEF Removed
<1>3. CASE m # l
  <2>1. i # 0 /\ m = At(l, i, Quit(l[i]))
    BY Zenon, <1>1, <1>3 DEF ChangeDst
  <2>2. i \in DOMAIN l /\ l[i].dst = d
    BY <1>1, <2>1, FindLemma
  <2> HIDE DEF i
  <2>3. l[i] \in Entries
    BY <1>1, <2>2
  <2> DEFINE e == Quit(l[i])
  <2>4. /\ e \in Entries /\ e.dst = d /\ e.weight = l[i].weight
        /\ e.fail = l[i].fail /\ e.explicit = l[i].explicit /\ e.ctx.quit
    BY <2>2, <2>3, QuitEntry
  <2>5. e.explicit => e.fail = 0
    BY Zenon, <2>2, <2>4 DEF Proper, Counted
  <2> HIDE DEF e
  <2>6. /\ Proper(m) /\ Len(m) = Len(l) /\ DOMAIN m = DOMAIN l
        /\ \A j \in DOMAIN l : m[j] = IF j = i THEN e ELSE l[j]
    BY <2>1, <2>2, <2>4, <2>5, AtLemma DEF e
  <2> QED
    BY <2>2, <2>4, <2>6 DEF Removed
<1> QED
  BY <1>2, <1>3

\* The lists that can come of referring to d in one of the lists ls.
Referred(ls, d) == UNION {ChangeDst(m, d, MembWeight, FALSE) : m \in ls}

\* What the loop over the members goes through: f[k] are the lists that there
\* can be after k of them.
MembRun(l, members, f) ==
    f = [k \in 0..Len(members) |-> IF k = 0 THEN {l} ELSE Referred(f[k - 1], members[k])]

\* A reference to one more member, in any of the lists there can be.
LEMMA ReferredLemma ==
    ASSUME NEW ls, \A m \in ls : Proper(m), NEW d \in Dsts, NEW m \in Referred(ls, d)
    PROVE  Proper(m) /\ Forgiven(m, d) /\ \E k \in ls : Grown(k, m)
<1>1. PICK k \in ls : m \in ChangeDst(k, d, MembWeight, FALSE)
  BY Zenon DEF Referred
<1>2. MembWeight \in Nat /\ FALSE \in BOOLEAN
  BY DEF MembWeight
<1>3. Proper(m) /\ Grown(k, m) /\ Forgiven(m, d)
  BY Zenon, <1>1, <1>2, ChangeDstAdds
<1> QED
  BY <1>3

\* Membership is what there is after the last member.
LEMMA MembershipRun ==
    ASSUME NEW l, Proper(l), NEW members \in Seq(Dsts)
    PROVE  \E f : MembRun(l, members, f) /\ Membership(l, members) = f[Len(members)]
<1> DEFINE n == Len(members)
           V == SUBSET {m \in Seq(Entries) : Proper(m)}
           G == [p \in (1..n) \X V |-> Referred(p[2], members[p[1]])]
<1>1. n \in Nat /\ \A k \in 1..n : members[k] \in Dsts
  OBVIOUS
<1>2. G \in [(1..n) \X V -> V]
  <2> SUFFICES ASSUME NEW k \in 1..n, NEW ls \in V PROVE Referred(ls, members[k]) \in V
    BY Zenon
  <2>1. \A m \in ls : Proper(m)
    OBVIOUS
  <2>2. \A m \in Referred(ls, members[k]) : Proper(m)
    BY <1>1, <2>1, ReferredLemma
  <2> QED
    BY <2>2 DEF Proper
<1>3. {l} \in V
  BY DEF Proper
<1>4. PICK f : f \in [0..n -> V] /\ f[0] = {l} /\ \A k \in 1..n : f[k] = G[<<k, f[k - 1]>>]
  <2>1. \E f : Computes(f, n, V, {l}, G)
    <3> HIDE DEF G, n, V
    <3> QED BY Zenon, <1>1, <1>2, <1>3, Recursion
  <2> HIDE DEF G, n, V
  <2> QED
    BY Zenon, <2>1 DEF Computes
<1>5. \A k \in 1..n : k # 0 /\ k - 1 \in 0..n
  BY <1>1
<1>6. \A k \in 1..n : f[k] = Referred(f[k - 1], members[k])
  <2>1. \A k \in 1..n : f[k - 1] \in V
    <3> HIDE DEF V, n
    <3> QED BY <1>4, <1>5
  <2> HIDE DEF V, n
  <2> QED BY Zenon, <1>4, <2>1
<1>7. MembRun(l, members, f)
  <2>1. \A k \in 0..n : f[k] = IF k = 0 THEN {l} ELSE Referred(f[k - 1], members[k])
    <3>1. \A k \in 0..n : k = 0 \/ k \in 1..n
      BY <1>1
    <3> HIDE DEF n, V, G
    <3> QED BY <1>4, <1>5, <1>6, <3>1
  <2>2. f = [k \in 0..n |-> f[k]]
    BY <1>4
  <2> QED
    BY <2>1, <2>2 DEF MembRun
<1>8. Membership(l, members) = (CHOOSE h : MembRun(l, members, h))[Len(members)]
  BY DEF Membership, MembRun, Referred
<1>9. MembRun(l, members, CHOOSE h : MembRun(l, members, h))
  BY Zenon, <1>7
<1> QED
  BY Zenon, <1>8, <1>9

\* wdog_process_membership_change()
LEMMA MembershipLemma ==
    ASSUME NEW l, Proper(l), NEW members \in Seq(Dsts), NEW m \in Membership(l, members)
    PROVE  Proper(m) /\ Grown(l, m) /\ \A d \in Range(members) : Forgiven(m, d)
<1>1. PICK f : MembRun(l, members, f) /\ Membership(l, members) = f[Len(members)]
  BY MembershipRun
<1> DEFINE n == Len(members)
           Done(k, o) == Proper(o) /\ Grown(l, o) /\ \A j \in 1..k : Forgiven(o, members[j])
           S == {k \in 0..n : \A o \in f[k] : Done(k, o)}
<1>2. n \in Nat /\ \A k \in 1..n : members[k] \in Dsts
  OBVIOUS
<1>3. f[0] = {l} /\ \A k \in 1..n : f[k] = Referred(f[k - 1], members[k])
  <2>1. 0 \in 0..n /\ \A k \in 1..n : k \in 0..n /\ k # 0
    BY <1>2
  <2> QED
    BY Zenon, <1>1, <2>1 DEF MembRun
<1>4. 0 \in S
  <2>1. Done(0, l)
    BY GrownRefl DEF Proper
  <2> HIDE DEF Done
  <2> QED
    BY <1>2, <1>3, <2>1
<1>5. ASSUME NEW k \in 0..n - 1, k \in S PROVE k + 1 \in S
  <2>1. k + 1 \in 1..n /\ (k + 1) - 1 = k /\ k + 1 \in 0..n /\ k \in Nat
    BY <1>2
  <2>2. f[k + 1] = Referred(f[k], members[k + 1]) /\ members[k + 1] \in Dsts
    BY <1>2, <1>3, <2>1
  <2>3. \A o \in f[k] : Done(k, o)
    BY <1>5
  <2>4. ASSUME NEW o \in f[k + 1] PROVE Done(k + 1, o)
    <3>1. PICK q \in f[k] : Proper(o) /\ Forgiven(o, members[k + 1]) /\ Grown(q, o)
      BY <2>2, <2>3, ReferredLemma
    <3>2. Proper(q) /\ Grown(l, q) /\ \A j \in 1..k : Forgiven(q, members[j])
      BY <2>3
    <3>3. l \in Seq(Entries) /\ q \in Seq(Entries) /\ o \in Seq(Entries)
      BY <3>1, <3>2 DEF Proper
    <3>4. Grown(l, o)
      BY <3>1, <3>2, <3>3, GrownTrans
    <3>5. \A j \in 1..k : Forgiven(o, members[j])
      BY <3>1, <3>2, <3>3, GrownForgiven
    <3>6. \A j \in 1..k + 1 : j \in 1..k \/ j = k + 1
      BY <2>1
    <3> QED
      BY Zenon, <3>1, <3>4, <3>5, <3>6
  <2> HIDE DEF Done
  <2> QED
    BY <2>1, <2>4
<1>6. n \in S
  <2>1. \A k \in 0..n : k \in S
    <3> HIDE DEF n, S
    <3> QED BY <1>2, <1>4, <1>5, Induction
  <2> HIDE DEF S
  <2> QED BY <1>2, <2>1
<1>7. Done(n, m)
  <2> HIDE DEF Done
  <2> QED BY <1>1, <1>6
<1>8. ASSUME NEW d \in Range(members) PROVE \E j \in 1..n : d = members[j]
  BY DEF Range
<1> QED
  BY <1>7, <1>8

-----------------------------------------------------------------------------
(* wdog_collect_results()                                                  *)

\* The weights that the router may be told.
Routable == Nat \cup {NotRouted}

\* A weight times a factor is a weight.
LEMMA NatTimes == \A a, b \in Nat : a * b \in Nat
OBVIOUS

\* The weights that come of a collection are weights.
LEMMA NewWeightType ==
    ASSUME NEW e \in Entries, NEW speed \in Speeds
    PROVE  NewWeight(e, speed) \in Routable
<1>1. e.weight \in Routable /\ e.setw \in Nat /\ speed \in Nat
  BY WdogAssumption DEF Entries, Routable
<1>2. e.setw * speed \in Nat
  BY <1>1, NatTimes
<1>3. \/ NewWeight(e, speed) = e.weight \/ NewWeight(e, speed) = 0
      \/ NewWeight(e, speed) = NotRouted \/ NewWeight(e, speed) = e.setw * speed
  BY DEF NewWeight
<1> QED
  BY <1>1, <1>2, <1>3 DEF Routable

\* The result of an entry is taken. It is told to quit if it has failed once
\* too often; the first failure is not enough.
LEMMA CopiedEntry ==
    ASSUME NEW e \in Entries, e.explicit => e.fail = 0, e.fail > MaxFail => e.ctx.quit
    PROVE  /\ Copied(e) \in Entries
           /\ Copied(e).dst = e.dst /\ Copied(e).weight = e.weight
           /\ Copied(e).ctx.join = e.ctx.join
           /\ Copied(e).explicit => Copied(e).fail = 0
           /\ Copied(e).fail > MaxFail => Copied(e).ctx.quit
           /\ Copied(e).ctx.quit => e.ctx.quit \/ (~e.explicit /\ e.fail # 0)
<1> DEFINE lost == e.ctx.result = [state |-> GLB_DST_NOTFOUND, ready |-> TRUE]
           fail == IF lost /\ ~e.explicit /\ e.fail <= MaxFail THEN e.fail + 1 ELSE e.fail
           c == IF lost /\ fail > MaxFail THEN Quitting(Taken(e.ctx)) ELSE Taken(e.ctx)
<1>1. Copied(e) = [e EXCEPT !.fail = fail, !.ctx = c, !.others = <<>>]
  BY DEF Copied
<1>2. /\ MaxFail \in Nat /\ MaxFail # 0 /\ e.fail \in 0..MaxFail + 1
      /\ e.ctx \in Ctx /\ e.explicit \in BOOLEAN
  BY WdogAssumption DEF Entries
<1>3. fail \in 0..MaxFail + 1
  BY <1>2
<1>4. /\ Taken(e.ctx) \in Ctx /\ Quitting(Taken(e.ctx)) \in Ctx
      /\ Taken(e.ctx).join = e.ctx.join /\ Quitting(Taken(e.ctx)).join = e.ctx.join
      /\ Taken(e.ctx).quit = e.ctx.quit /\ Quitting(Taken(e.ctx)).quit
  <2>1. NoResult \in Result
    BY DEF NoResult, Result, States, GLB_DST_NOTFOUND, GLB_DST_READY
  <2> QED
    BY Zenon, <1>2, <2>1 DEF Taken, Quitting, Ctx
<1>5. e.explicit => fail = 0
  BY <1>2
<1>6. fail > MaxFail => c.quit
  <2>1. CASE lost /\ fail > MaxFail
    BY <1>4, <2>1
  <2>2. CASE ~lost /\ fail > MaxFail
    BY <1>4, <2>2
  <2> QED
    BY <2>1, <2>2
<1>7. c.quit => e.ctx.quit \/ (~e.explicit /\ e.fail # 0)
  <2>1. CASE lost /\ fail > MaxFail
    BY <1>2, <2>1
  <2>2. CASE ~(lost /\ fail > MaxFail)
    BY <1>4, <2>2
  <2> QED
    BY <2>1, <2>2
<1>8. c \in Ctx /\ c.join = e.ctx.join
  BY <1>4
<1> HIDE DEF c, fail
<1>9. /\ Copied(e) \in Entries
      /\ Copied(e).dst = e.dst /\ Copied(e).weight = e.weight
      /\ Copied(e).ctx = c /\ Copied(e).explicit = e.explicit /\ Copied(e).fail = fail
  BY Zenon, <1>1, <1>3, <1>8 DEF Entries
<1> QED
  BY <1>5, <1>6, <1>7, <1>8, <1>9

\* The weight that the watchdog notes for an entry.
Noted(e, w) == IF Differs(w, e.weight) THEN w ELSE e.weight

\* The results of all entries are taken and the new weights noted.
LEMMA SettledLemma ==
    ASSUME Proper(list), NEW new \in [DOMAIN list -> Routable]
    PROVE  /\ Proper(Settled(new)) /\ DOMAIN Settled(new) = DOMAIN list
           /\ \A i \in DOMAIN list :
                /\ Settled(new)[i].dst = list[i].dst
                /\ Settled(new)[i].ctx.join = list[i].ctx.join
                /\ Settled(new)[i].weight = Noted(list[i], new[i])
                /\ Settled(new)[i].ctx.quit =>
                    list[i].ctx.quit \/ (~list[i].explicit /\ list[i].fail # 0)
<1> DEFINE s == Settled(new)
           Settles(e, i) ==
             /\ e \in Entries
             /\ e.dst = list[i].dst /\ e.ctx.join = list[i].ctx.join
             /\ e.weight = Noted(list[i], new[i])
             /\ e.ctx.quit => list[i].ctx.quit \/ (~list[i].explicit /\ list[i].fail # 0)
             /\ e.explicit => e.fail = 0
             /\ e.fail > MaxFail => e.ctx.quit
<1>1. list \in Seq(Entries) /\ Len(list) \in Nat /\ DOMAIN list = 1..Len(list)
  BY DEF Proper
<1>2. ASSUME NEW i \in DOMAIN list PROVE Settles(s[i], i)
  <2>1. list[i] \in Entries /\ new[i] \in Routable
    BY <1>1
  <2>2. s[i] = IF Differs(new[i], list[i].weight)
               THEN [Copied(list[i]) EXCEPT !.weight = new[i]] ELSE Copied(list[i])
    BY DEF Settled
  <2> DEFINE c == Copied(list[i])
  <2>3. /\ c \in Entries /\ c.dst = list[i].dst /\ c.weight = list[i].weight
        /\ c.ctx.join = list[i].ctx.join
        /\ c.explicit => c.fail = 0
        /\ c.fail > MaxFail => c.ctx.quit
        /\ c.ctx.quit => list[i].ctx.quit \/ (~list[i].explicit /\ list[i].fail # 0)
    BY <2>1, CopiedEntry DEF Proper, Counted
  <2> HIDE DEF c, s
  <2>4. CASE Differs(new[i], list[i].weight)
    <3> DEFINE e == [c EXCEPT !.weight = new[i]]
    <3>1. /\ e \in Entries /\ e.dst = c.dst /\ e.ctx = c.ctx
          /\ e.weight = new[i] /\ e.explicit = c.explicit /\ e.fail = c.fail
      BY <2>1, <2>3 DEF Entries, Routable
    <3>2. s[i] = e
      BY <2>2, <2>4 DEF c
    <3> HIDE DEF e
    <3> QED
      BY <2>3, <2>4, <3>1, <3>2 DEF Noted
  <2>5. CASE ~Differs(new[i], list[i].weight)
    <3>1. s[i] = c
      BY <2>2, <2>5 DEF c
    <3> QED
      BY <2>3, <2>5, <3>1 DEF Noted
  <2> QED
    BY <2>4, <2>5
<1>3. DOMAIN s = DOMAIN list /\ s = [i \in DOMAIN list |-> s[i]]
  BY DEF Settled
<1> HIDE DEF s
<1>4. s \in Seq(Entries)
  BY <1>1, <1>2, <1>3
<1>5. Apart(s)
  BY <1>2, <1>3 DEF Proper, Apart
<1>6. Counted(s)
  BY <1>2, <1>3 DEF Counted
<1> QED
  BY <1>2, <1>3, <1>4, <1>5, <1>6 DEF Proper, s

\* A set of naturals up to n has a greatest element.
LEMMA Greatest ==
    ASSUME NEW n \in Nat, NEW S, S \subseteq 0..n, S # {}
    PROVE  \E x \in S : \A y \in S : x >= y
<1> DEFINE T == {k \in 0..n : n - k \in S}
<1>1. T \subseteq Nat /\ T # {}
  <2>1. PICK y \in S : TRUE
    BY Zenon
  <2>2. y \in 0..n
    BY <2>1
  <2>3. n - y \in 0..n /\ n - (n - y) = y
    BY <2>2
  <2>4. n - y \in T
    BY <2>1, <2>3
  <2>5. T \subseteq 0..n /\ 0..n \subseteq Nat
    OBVIOUS
  <2> HIDE DEF T
  <2> QED
    BY <2>4, <2>5
<1>2. PICK k \in T : \A y \in T : k <= y
  <2> HIDE DEF T
  <2> QED BY Zenon, <1>1, Least
<1>3. n - k \in S
  OBVIOUS
<1>4. ASSUME NEW y \in S PROVE n - k >= y
  <2>1. n - y \in T
    <3>1. n - y \in 0..n /\ n - (n - y) = y
      OBVIOUS
    <3> QED
      BY <3>1
  <2>2. k <= n - y /\ k \in Nat /\ y \in Nat
    BY <1>2, <2>1
  <2> QED
    BY <2>2
<1> QED
  BY <1>3, <1>4

\* The members that are gone through are what an entry of the list has.
LEMMA MembersLemma ==
    ASSUME Proper(list)
    PROVE  IF MembSource = 0 THEN TRUE ELSE list[MembSource].others \in Seq(Dsts)
<1> DEFINE S == {i \in DOMAIN list :
                   /\ ~list[i].ctx.join
                   /\ list[i].ctx.result = [state |-> GLB_DST_READY, ready |-> TRUE]
                   /\ list[i].others # <<>>}
<1>1. list \in Seq(Entries) /\ Len(list) \in Nat /\ S \subseteq DOMAIN list /\ S \subseteq 0..Len(list)
  BY DEF Proper
<1>2. MembSource = IF Discover /\ S # {} THEN Max(S) ELSE 0
  BY DEF MembSource
<1> HIDE DEF S
<1>3. ASSUME S # {} PROVE Max(S) \in S
  <2>1. \E x \in S : \A y \in S : x >= y
    BY <1>1, <1>3, Greatest
  <2> QED
    BY <2>1 DEF Max
<1>4. MembSource = 0 \/ MembSource \in DOMAIN list
  BY <1>1, <1>2, <1>3
<1>5. ASSUME NEW i \in DOMAIN list PROVE list[i].others \in Seq(Dsts)
  <2>1. list[i] \in Entries
    BY <1>1
  <2>2. list[i].others \in Reports \cup {<<>>}
    BY <2>1 DEF Entries
  <2>3. <<>> \in Seq(Dsts) /\ Reports \subseteq Seq(Dsts)
    BY WdogAssumption
  <2> QED
    BY Zenon, <2>2, <2>3
<1> QED
  BY <1>4, <1>5

\* The sweep of a proper list.
LEMMA SweptProper ==
    ASSUME NEW s, Proper(s)
    PROVE  /\ Proper(Swept(s))
           /\ \A j \in DOMAIN Swept(s) :
                \E i \in DOMAIN s : Swept(s)[j] = s[i] /\ ~s[i].ctx.join
           /\ \A i \in DOMAIN s :
                ~s[i].ctx.join => \E j \in DOMAIN Swept(s) : Swept(s)[j] = s[i]
<1> DEFINE r == Swept(s)
<1>1. s \in Seq(Entries)
  BY DEF Proper
<1>2. r \in Seq(Entries) /\ SweepInv(s, 1, r)
  BY <1>1, SweptLemma
<1> HIDE DEF r
<1>3. DOMAIN r = 1..Len(r) /\ DOMAIN s = 1..Len(s)
  BY <1>1, <1>2
<1>4. /\ \A j \in DOMAIN r : \E i \in DOMAIN s : r[j] = s[i] /\ ~s[i].ctx.join
      /\ \A i \in DOMAIN s : ~s[i].ctx.join => \E j \in DOMAIN r : r[j] = s[i]
  BY Zenon, <1>2, <1>3 DEF SweepInv
<1>5. Apart(r)
  BY <1>2 DEF SweepInv, Proper
<1>6. Counted(r)
  BY <1>4 DEF Proper, Counted
<1> QED
  BY <1>2, <1>4, <1>5, <1>6 DEF Proper, r

-----------------------------------------------------------------------------
(* The inductive invariant                                                 *)

\* An address that is not watched is not in the router, or it was left there
\* when it was freed.
Unwatched ==
    \A d \in Dsts : ~Watched(d) => router[d] = NotRouted \/ d \in dangling

\* What every step keeps: the list is proper, the router has the noted weights of the
\* watched addresses and nothing of the others but what was left there, and the
\* members named last have no failures.
IInv ==
    /\ TypeOK /\ Proper(list)
    /\ RouterFollows /\ Unwatched
    /\ \A d \in named : Forgiven(list, d)

\* The router is told the weights new. An address that stays watched has the
\* noted weight there, and one that does not is not there or was left.
LEMMA TellLemma ==
    ASSUME IInv, NEW new \in [DOMAIN list -> Routable], TellRouter(new)
    PROVE  /\ router' \in [Dsts -> Routable] /\ dangling' \subseteq Dsts
           /\ \A i \in DOMAIN list : ~list[i].ctx.join =>
                \/ Noted(list[i], new[i]) = router'[list[i].dst]
                \/ Noted(list[i], new[i]) = NotRouted /\ list[i].dst \in dangling'
           /\ \A d \in Dsts :
                (\A i \in DOMAIN list : list[i].dst = d => list[i].ctx.join)
                    => router'[d] = NotRouted \/ d \in dangling'
<1> DEFINE gone == {list[i].dst : i \in {j \in DOMAIN list : list[j].ctx.join}}
<1>1. /\ router' = [d \in Dsts |->
            IF Find(list, d) \in Changed(new) THEN new[Find(list, d)] ELSE router[d]]
      /\ dangling' = {d \in dangling \cup gone : router'[d] # NotRouted}
  BY DEF TellRouter
<1>2. /\ list \in Seq(Entries) /\ Apart(list) /\ router \in [Dsts -> Routable]
      /\ dangling \subseteq Dsts /\ \A i \in DOMAIN list : list[i].dst \in Dsts
  <2>1. list \in Seq(Entries) /\ Apart(list)
    BY DEF IInv, Proper
  <2>2. router \in [Dsts -> Routable] /\ dangling \subseteq Dsts
    BY DEF IInv, TypeOK, Routable
  <2>3. ASSUME NEW i \in DOMAIN list PROVE list[i].dst \in Dsts
    <3>1. list[i] \in Entries
      BY <2>1
    <3> QED
      BY <3>1 DEF Entries
  <2> QED
    BY <2>1, <2>2, <2>3
<1>3. Changed(new) \subseteq DOMAIN list
  BY DEF Changed
<1>4. router' \in [Dsts -> Routable]
  <2>1. \A d \in Dsts : (IF Find(list, d) \in Changed(new) THEN new[Find(list, d)] ELSE router[d])
                        \in Routable
    BY <1>2, <1>3
  <2> QED
    BY <1>1, <2>1
<1>5. gone \subseteq Dsts
  BY <1>2
<1>6. dangling' \subseteq Dsts
  BY <1>1, <1>2, <1>5
<1>7. \A d \in dangling \cup gone : router'[d] = NotRouted \/ d \in dangling'
  BY <1>1
<1> HIDE DEF gone
<1>8. ASSUME NEW i \in DOMAIN list, ~list[i].ctx.join
      PROVE  \/ Noted(list[i], new[i]) = router'[list[i].dst]
             \/ Noted(list[i], new[i]) = NotRouted /\ list[i].dst \in dangling'
  <2>1. Find(list, list[i].dst) = i /\ list[i].dst \in Dsts
    BY <1>2, FindOwn
  <2>2. i \in Changed(new) <=> Differs(new[i], list[i].weight)
    BY <1>8 DEF Changed
  <2>3. CASE Differs(new[i], list[i].weight)
    <3>1. router'[list[i].dst] = new[i]
      BY <1>1, <2>1, <2>2, <2>3
    <3> QED
      BY <2>3, <3>1 DEF Noted
  <2>4. CASE ~Differs(new[i], list[i].weight)
    <3>1. router'[list[i].dst] = router[list[i].dst]
      BY <1>1, <2>1, <2>2, <2>4
    <3>2. Noted(list[i], new[i]) = list[i].weight
      BY <2>4 DEF Noted
    <3>3. \/ list[i].weight = router[list[i].dst]
          \/ list[i].weight = NotRouted /\ list[i].dst \in dangling
      BY DEF IInv, RouterFollows
    <3> QED
      BY <1>7, <3>1, <3>2, <3>3
  <2> QED
    BY <2>3, <2>4
<1>9. ASSUME NEW d \in Dsts, \A i \in DOMAIN list : list[i].dst = d => list[i].ctx.join
      PROVE  router'[d] = NotRouted \/ d \in dangling'
  <2>1. Find(list, d) \notin Changed(new)
    <3>1. ASSUME Find(list, d) \in Changed(new) PROVE FALSE
      <4>1. Find(list, d) \in DOMAIN list /\ ~list[Find(list, d)].ctx.join
        BY <3>1 DEF Changed
      <4>2. 0 \notin DOMAIN list
        BY <1>2
      <4>3. list[Find(list, d)].dst = d
        BY <1>2, <4>1, <4>2, FindLemma
      <4> QED
        BY <1>9, <4>1, <4>3
    <3> QED
      BY <3>1
  <2>2. router'[d] = router[d]
    BY <1>1, <2>1
  <2>3. CASE \E i \in DOMAIN list : list[i].dst = d
    <3>1. d \in gone
      BY <1>9, <2>3 DEF gone
    <3> QED
      BY <1>7, <3>1
  <2>4. CASE ~\E i \in DOMAIN list : list[i].dst = d
    <3>1. router[d] = NotRouted \/ d \in dangling
      BY <2>4 DEF IInv, Unwatched, Watched
    <3> QED
      BY <1>7, <2>2, <3>1
  <2> QED
    BY <2>3, <2>4
<1> QED
  BY <1>4, <1>6, <1>8, <1>9

\* What a collection makes of the list: the entries that have not joined are
\* kept, and one that is to quit was to quit before, or it is not explicit and
\* has failed before.
CollectKeeps ==
    /\ \A i \in DOMAIN list :
        ~list[i].ctx.join => \E j \in DOMAIN list' : list'[j].dst = list[i].dst
    /\ \A j \in DOMAIN list' : list'[j].ctx.quit =>
        \E i \in DOMAIN list :
            /\ list[i].dst = list'[j].dst
            /\ list[i].ctx.quit \/ (~list[i].explicit /\ list[i].fail # 0)

\* wdog_collect_results(), from the results to the discovery.
LEMMA CollectLemma ==
    ASSUME IInv, CollectResults
    PROVE  IInv' /\ CollectKeeps
<1>1. PICK speed \in [DOMAIN list -> Speeds] :
        /\ TellRouter([i \in DOMAIN list |-> NewWeight(list[i], speed[i])])
        /\ Discovery(Swept(Settled([i \in DOMAIN list |-> NewWeight(list[i], speed[i])])))
  BY DEF CollectResults
<1> DEFINE new == [i \in DOMAIN list |-> NewWeight(list[i], speed[i])]
           s == Settled(new)
           r == Swept(s)
<1>2. Proper(list) /\ list \in Seq(Entries)
  BY DEF IInv, Proper
<1>3. new \in [DOMAIN list -> Routable]
  BY <1>2, NewWeightType
<1>4. TellRouter(new) /\ Discovery(r)
  BY <1>1
<1> HIDE DEF new
<1>5. /\ Proper(s) /\ DOMAIN s = DOMAIN list
      /\ \A i \in DOMAIN list :
            /\ s[i].dst = list[i].dst
            /\ s[i].ctx.join = list[i].ctx.join
            /\ s[i].weight = Noted(list[i], new[i])
            /\ s[i].ctx.quit => list[i].ctx.quit \/ (~list[i].explicit /\ list[i].fail # 0)
  BY <1>2, <1>3, SettledLemma
<1> HIDE DEF s
<1>6. /\ Proper(r)
      /\ \A j \in DOMAIN r : \E i \in DOMAIN s : r[j] = s[i] /\ ~s[i].ctx.join
      /\ \A i \in DOMAIN s : ~s[i].ctx.join => \E j \in DOMAIN r : r[j] = s[i]
  BY Zenon, <1>5, SweptProper
<1> HIDE DEF r
<1>7. PICK members \in Seq(Dsts) : list' \in Membership(r, members) /\ named' = Range(members)
  <2>1. <<>> \in Seq(Dsts)
    OBVIOUS
  <2> QED
    BY Zenon, <1>2, <1>4, <2>1, MembersLemma DEF Discovery
<1>8. /\ Proper(list') /\ Grown(r, list') /\ \A d \in named' : Forgiven(list', d)
      /\ named' \subseteq Dsts
  <2>1. Range(members) \subseteq Dsts
    BY DEF Range
  <2> QED
    BY <1>6, <1>7, <2>1, MembershipLemma
<1>9. /\ list' \in Seq(Entries) /\ r \in Seq(Entries) /\ Len(r) \in Nat /\ Len(list') \in Nat
      /\ Len(r) <= Len(list') /\ DOMAIN list' = 1..Len(list') /\ DOMAIN r = 1..Len(r)
  BY <1>6, <1>8 DEF Proper, Grown
<1>10. ASSUME NEW j \in DOMAIN list'
       PROVE  \/ /\ j \in DOMAIN r
                 /\ \E i \in DOMAIN list :
                     /\ ~list[i].ctx.join
                     /\ list'[j].dst = list[i].dst
                     /\ list'[j].weight = Noted(list[i], new[i])
                     /\ list'[j].ctx.quit =>
                         list[i].ctx.quit \/ (~list[i].explicit /\ list[i].fail # 0)
              \/ /\ \A k \in DOMAIN r : r[k].dst # list'[j].dst
                 /\ list'[j].weight = NotRouted /\ ~list'[j].ctx.quit
  <2>1. CASE j \in DOMAIN r
    <3>1. PICK i \in DOMAIN s : r[j] = s[i] /\ ~s[i].ctx.join
      BY <1>6, <2>1
    <3>2. list'[j].dst = r[j].dst /\ list'[j].weight = r[j].weight /\ list'[j].ctx = r[j].ctx
      BY <1>8, <1>9, <2>1 DEF Grown
    <3>3. /\ i \in DOMAIN list /\ s[i].dst = list[i].dst
          /\ s[i].weight = Noted(list[i], new[i])
          /\ s[i].ctx.join = list[i].ctx.join
          /\ s[i].ctx.quit =>
              list[i].ctx.quit \/ (~list[i].explicit /\ list[i].fail # 0)
      BY <1>5, <3>1
    <3> QED
      BY <2>1, <3>1, <3>2, <3>3
  <2>2. CASE j \notin DOMAIN r
    <3>1. j \in Len(r) + 1..Len(list')
      BY <1>9, <2>2
    <3>2. \A k \in DOMAIN r : k \in DOMAIN list' /\ k # j /\ list'[k].dst = r[k].dst
      BY <1>8, <1>9, <2>2 DEF Grown
    <3>3. \A k \in DOMAIN r : r[k].dst # list'[j].dst
      BY <1>8, <3>2 DEF Proper, Apart
    <3> QED
      BY <1>8, <3>1, <3>3 DEF Grown
  <2> QED
    BY <2>1, <2>2
<1>11. ASSUME NEW i \in DOMAIN list, ~list[i].ctx.join
       PROVE  \E k \in DOMAIN r : r[k].dst = list[i].dst /\ k \in DOMAIN list' /\ list'[k].dst = list[i].dst
  <2>1. PICK k \in DOMAIN r : r[k] = s[i]
    BY <1>5, <1>6, <1>11
  <2>2. k \in DOMAIN list' /\ list'[k].dst = r[k].dst
    BY <1>8, <1>9 DEF Grown
  <2> QED
    BY <1>5, <2>1, <2>2
<1>12. CollectKeeps
  BY <1>10, <1>11 DEF CollectKeeps
<1>13. /\ router' \in [Dsts -> Routable] /\ dangling' \subseteq Dsts
       /\ \A i \in DOMAIN list : ~list[i].ctx.join =>
            \/ Noted(list[i], new[i]) = router'[list[i].dst]
            \/ Noted(list[i], new[i]) = NotRouted /\ list[i].dst \in dangling'
       /\ \A d \in Dsts :
            (\A i \in DOMAIN list : list[i].dst = d => list[i].ctx.join)
                => router'[d] = NotRouted \/ d \in dangling'
  BY <1>3, <1>4, TellLemma
<1>14. ASSUME NEW d \in Dsts, \A k \in DOMAIN r : r[k].dst # d
       PROVE  router'[d] = NotRouted \/ d \in dangling'
  <2>1. \A i \in DOMAIN list : list[i].dst = d => list[i].ctx.join
    BY <1>11, <1>14
  <2> QED
    BY <1>13, <2>1
<1>15. RouterFollows'
  <2>1. ASSUME NEW j \in DOMAIN list'
        PROVE  \/ list'[j].weight = router'[list'[j].dst]
               \/ list'[j].weight = NotRouted /\ list'[j].dst \in dangling'
    <3>1. list'[j].dst \in Dsts
      <4>1. list'[j] \in Entries
        BY <1>9
      <4> QED
        BY <4>1 DEF Entries
    <3> QED
      BY <1>10, <1>13, <1>14, <3>1
  <2> QED
    BY <2>1 DEF RouterFollows
<1>16. Unwatched'
  <2>1. ASSUME NEW d \in Dsts, \A j \in DOMAIN list' : list'[j].dst # d
        PROVE  router'[d] = NotRouted \/ d \in dangling'
    <3>1. \A k \in DOMAIN r : r[k].dst # d
      BY <1>8, <1>9, <2>1 DEF Grown
    <3> QED
      BY <1>14, <3>1
  <2> QED
    BY <2>1 DEF Unwatched, Watched
<1>17. TypeOK'
  <2>1. phase' \in {"starting", "running", "quitting", "destroyed"}
    BY DEF CollectResults
  <2> QED
    BY <1>8, <1>9, <1>13, <2>1 DEF TypeOK, Routable
<1> QED
  BY <1>8, <1>12, <1>15, <1>16, <1>17 DEF IInv

\* A step that does not reach the router: the entries stay where they are, with
\* their weights, and new ones are not routed.
LEMMA ListStep ==
    ASSUME IInv, Proper(list'), UNCHANGED <<router, dangling, named>>,
           phase' \in {"starting", "running", "quitting", "destroyed"},
           Len(list) <= Len(list'),
           \A i \in 1..Len(list) :
               /\ list'[i].dst = list[i].dst /\ list'[i].weight = list[i].weight
               /\ list'[i].fail = 0 \/ list'[i].fail = list[i].fail,
           \A i \in Len(list) + 1..Len(list') : list'[i].weight = NotRouted /\ list'[i].fail = 0
    PROVE  IInv'
<1>1. /\ list \in Seq(Entries) /\ list' \in Seq(Entries) /\ Apart(list')
      /\ DOMAIN list = 1..Len(list) /\ DOMAIN list' = 1..Len(list')
      /\ Len(list) \in Nat /\ Len(list') \in Nat
  BY DEF IInv, Proper
<1>2. TypeOK'
  BY <1>1 DEF IInv, TypeOK
<1>3. ASSUME NEW j \in DOMAIN list'
      PROVE  \/ j \in DOMAIN list /\ j \in 1..Len(list)
             \/ /\ j \in Len(list) + 1..Len(list')
                /\ list'[j].dst \in Dsts
                /\ \A i \in DOMAIN list : list[i].dst # list'[j].dst
  <2>1. CASE j \in 1..Len(list)
    BY <1>1, <2>1
  <2>2. CASE j \notin 1..Len(list)
    <3>1. j \in Len(list) + 1..Len(list')
      BY <1>1, <2>2
    <3>2. list'[j].dst \in Dsts
      <4>1. list'[j] \in Entries
        BY <1>1
      <4> QED
        BY <4>1 DEF Entries
    <3>3. ASSUME NEW i \in DOMAIN list PROVE list[i].dst # list'[j].dst
      <4>1. i \in DOMAIN list' /\ i # j /\ list'[i].dst = list[i].dst
        BY <1>1, <2>2
      <4> QED
        BY <1>1, <4>1 DEF Apart
    <3> QED
      BY <3>1, <3>2, <3>3
  <2> QED
    BY <2>1, <2>2
<1>4. RouterFollows'
  <2>1. ASSUME NEW j \in DOMAIN list'
        PROVE  \/ list'[j].weight = router'[list'[j].dst]
               \/ list'[j].weight = NotRouted /\ list'[j].dst \in dangling'
    <3>1. CASE j \in DOMAIN list /\ j \in 1..Len(list)
      BY <3>1 DEF IInv, RouterFollows
    <3>2. CASE /\ j \in Len(list) + 1..Len(list')
               /\ list'[j].dst \in Dsts
               /\ \A i \in DOMAIN list : list[i].dst # list'[j].dst
      <4>1. router[list'[j].dst] = NotRouted \/ list'[j].dst \in dangling
        BY <3>2 DEF IInv, Unwatched, Watched
      <4> QED
        BY <3>2, <4>1
    <3> QED
      BY <1>3, <3>1, <3>2
  <2> QED
    BY <2>1 DEF RouterFollows
<1>5. Unwatched'
  <2>1. ASSUME NEW d \in Dsts, \A j \in DOMAIN list' : list'[j].dst # d
        PROVE  router'[d] = NotRouted \/ d \in dangling'
    <3>1. \A i \in DOMAIN list : list[i].dst # d
      BY <1>1, <2>1
    <3> QED
      BY <3>1 DEF IInv, Unwatched, Watched
  <2> QED
    BY <2>1 DEF Unwatched, Watched
<1>6. ASSUME NEW d \in named' PROVE Forgiven(list', d)
  <2>1. d \in named /\ Forgiven(list, d)
    BY DEF IInv
  <2>2. ASSUME NEW j \in DOMAIN list', list'[j].dst = d PROVE list'[j].fail = 0
    BY <1>3, <2>1, <2>2 DEF Forgiven
  <2> QED
    BY <2>2 DEF Forgiven
<1> QED
  BY <1>2, <1>4, <1>5, <1>6 DEF IInv

\* What a step other than a collection does with an entry: it stays where it is,
\* and it is told to quit only by a command or at the end.
StepKeeps ==
    /\ \A i \in DOMAIN list : i \in DOMAIN list' /\ list'[i].dst = list[i].dst
    /\ \A i \in DOMAIN list' : list'[i].ctx.quit =>
        i \in DOMAIN list /\ (list[i].ctx.quit \/ Destroy \/ Command(list[i].dst, -1))

\* A command adds, changes or removes a destination.
LEMMA CommandLemma ==
    ASSUME IInv, NEW d \in Dsts, NEW w \in Weights \cup {-1}, Command(d, w)
    PROVE  IInv' /\ StepKeeps
<1>1. /\ Proper(list) /\ list \in Seq(Entries) /\ DOMAIN list = 1..Len(list)
      /\ phase' \in {"starting", "running", "quitting", "destroyed"}
      /\ UNCHANGED <<router, dangling, named>>
      /\ list' \in ChangeDst(list, d, w, TRUE)
  <2>1. Proper(list) /\ list \in Seq(Entries)
    BY DEF IInv, Proper
  <2>2. /\ phase' = "running" /\ UNCHANGED <<router, dangling, named>>
        /\ list' \in ChangeDst(list, d, w, TRUE)
    BY Zenon DEF Command
  <2>3. DOMAIN list = 1..Len(list)
    BY <2>1
  <2>4. phase' \in {"starting", "running", "quitting", "destroyed"}
    BY <2>2
  <2> QED
    BY Zenon, <2>1, <2>2, <2>3, <2>4
<1>2. CASE w \in Nat
  <2>1. Proper(list') /\ Grown(list, list')
    BY Zenon, <1>1, <1>2, ChangeDstAdds
  <2>2. list' \in Seq(Entries) /\ DOMAIN list' = 1..Len(list') /\ Len(list) \in Nat /\ Len(list') \in Nat
    BY <1>1, <2>1 DEF Proper
  <2>3. IInv'
    BY <1>1, <2>1, ListStep DEF Grown
  <2>4. ASSUME NEW i \in DOMAIN list
        PROVE  i \in DOMAIN list' /\ list'[i].dst = list[i].dst
    <3>1. i \in 1..Len(list) /\ Len(list) <= Len(list')
      BY <1>1, <2>1 DEF Grown
    <3>2. i \in 1..Len(list')
      BY <2>2, <3>1
    <3>3. list'[i].dst = list[i].dst
      BY Zenon, <2>1, <3>1 DEF Grown
    <3> QED
      BY <2>2, <3>2, <3>3
  <2>5. ASSUME NEW i \in DOMAIN list', list'[i].ctx.quit
        PROVE  i \in DOMAIN list /\ list[i].ctx.quit
    <3>1. i \in 1..Len(list) \/ i \in Len(list) + 1..Len(list')
      BY <2>2
    <3> QED
      BY <1>1, <2>1, <2>5, <3>1 DEF Grown
  <2> QED
    BY <2>3, <2>4, <2>5 DEF StepKeeps
<1>3. CASE w = -1
  <2>1. /\ Proper(list') /\ Len(list') = Len(list) /\ DOMAIN list' = DOMAIN list
        /\ \A i \in DOMAIN list :
            /\ list'[i].dst = list[i].dst /\ list'[i].weight = list[i].weight
            /\ list'[i].fail = list[i].fail
            /\ list'[i].ctx.quit => list[i].ctx.quit \/ list[i].dst = d
    <3>1. list' \in ChangeDst(list, d, -1, TRUE)
      BY Zenon, <1>1, <1>3
    <3>2. Removed(list, d, list')
      BY Zenon, <1>1, <3>1, ChangeDstRemoves
    <3> QED
      BY <3>2 DEF Removed
  <2>2. Len(list) <= Len(list') /\ Len(list) + 1..Len(list') = {}
    BY <1>1, <2>1
  <2>3. IInv'
    BY <1>1, <2>1, <2>2, ListStep
  <2> QED
    BY <1>3, <2>1, <2>3 DEF StepKeeps
<1>4. w \in Nat \/ w = -1
  BY WdogAssumption
<1> QED
  BY <1>2, <1>3, <1>4

\* A backend thread changes an entry, but neither its address and its weight nor
\* whether it is to quit.
LEMMA ThreadStep ==
    ASSUME IInv, NEW i \in DOMAIN list, NEW e \in Entries, list' = At(list, i, e),
           e.dst = list[i].dst, e.weight = list[i].weight, e.fail = list[i].fail,
           e.explicit = list[i].explicit, e.ctx.quit = list[i].ctx.quit,
           UNCHANGED <<phase, router, dangling, named>>
    PROVE  IInv' /\ StepKeeps
<1>1. Proper(list) /\ list \in Seq(Entries) /\ DOMAIN list = 1..Len(list)
  <2>1. Proper(list)
    BY Zenon DEF IInv
  <2>2. list \in Seq(Entries)
    BY Zenon, <2>1 DEF Proper
  <2> QED
    BY <2>1, <2>2
<1>2. (e.explicit => e.fail = 0) /\ (e.fail > MaxFail => e.ctx.quit)
  BY <1>1 DEF Proper, Counted
<1>3. /\ Proper(list') /\ Len(list') = Len(list) /\ DOMAIN list' = DOMAIN list
      /\ \A j \in DOMAIN list : list'[j] = IF j = i THEN e ELSE list[j]
  BY <1>1, <1>2, AtLemma
<1>4. Len(list) <= Len(list') /\ Len(list) + 1..Len(list') = {}
  BY <1>1, <1>3
<1>5. phase' \in {"starting", "running", "quitting", "destroyed"}
  BY DEF IInv, TypeOK
<1>6. \A j \in 1..Len(list) :
        /\ list'[j].dst = list[j].dst /\ list'[j].weight = list[j].weight
        /\ list'[j].fail = list[j].fail /\ list'[j].ctx.quit = list[j].ctx.quit
  BY <1>1, <1>3
<1>7. IInv'
  BY <1>3, <1>4, <1>5, <1>6, ListStep
<1> QED
  BY <1>1, <1>3, <1>6, <1>7 DEF StepKeeps

\* A backend thread has a result.
LEMMA PublishLemma ==
    ASSUME IInv, NEW i \in DOMAIN list, Publish(i)
    PROVE  IInv' /\ StepKeeps
<1>1. PICK s \in PollStates, m \in Reports :
        list' = At(list, i, [list[i] EXCEPT
                    !.ctx = Published(@, [state |-> s, ready |-> TRUE]),
                    !.others = IF s = GLB_DST_NOTFOUND THEN <<>> ELSE m])
  BY Zenon DEF Publish
<1> DEFINE c == Published(list[i].ctx, [state |-> s, ready |-> TRUE])
           o == IF s = GLB_DST_NOTFOUND THEN <<>> ELSE m
           e == [list[i] EXCEPT !.ctx = c, !.others = o]
<1>2. list[i] \in Entries
  BY DEF IInv, TypeOK
<1>3. c \in Ctx /\ c.quit = list[i].ctx.quit
  <2>1. [state |-> s, ready |-> TRUE] \in Result
    BY WdogAssumption DEF Result
  <2>2. list[i].ctx \in Ctx
    BY <1>2 DEF Entries
  <2> QED
    BY Zenon, <2>1, <2>2 DEF Published, Ctx
<1>4. o \in Reports \cup {<<>>}
  OBVIOUS
<1>5. list' = At(list, i, e)
  BY <1>1
<1> HIDE DEF c, o
<1>6. /\ e \in Entries /\ e.dst = list[i].dst /\ e.weight = list[i].weight
      /\ e.fail = list[i].fail /\ e.explicit = list[i].explicit /\ e.ctx = c
  BY Zenon, <1>2, <1>3, <1>4 DEF Entries
<1> HIDE DEF e
<1>7. UNCHANGED <<phase, router, dangling, named>>
  BY DEF Publish
<1> QED
  BY <1>3, <1>5, <1>6, <1>7, ThreadStep

\* A backend thread ends.
LEMMA ExitLemma ==
    ASSUME IInv, NEW i \in DOMAIN list, Exit(i)
    PROVE  IInv' /\ StepKeeps
<1> DEFINE c == Exited(list[i].ctx)
           e == [list[i] EXCEPT !.ctx = c, !.others = <<>>]
<1>1. list' = At(list, i, e) /\ UNCHANGED <<phase, router, dangling, named>>
  BY DEF Exit
<1>2. list[i] \in Entries
  BY DEF IInv, TypeOK
<1>3. c \in Ctx /\ c.quit = list[i].ctx.quit
  <2>1. NoResult \in Result
    BY DEF NoResult, Result, States, GLB_DST_NOTFOUND, GLB_DST_READY
  <2>2. list[i].ctx \in Ctx
    BY <1>2 DEF Entries
  <2> QED
    BY Zenon, <2>1, <2>2 DEF Exited, Ctx
<1> HIDE DEF c
<1>4. /\ e \in Entries /\ e.dst = list[i].dst /\ e.weight = list[i].weight
      /\ e.fail = list[i].fail /\ e.explicit = list[i].explicit /\ e.ctx = c
  BY Zenon, <1>2, <1>3 DEF Entries
<1> HIDE DEF e
<1> QED
  BY <1>1, <1>3, <1>4, ThreadStep

\* glb_wdog_destroy() tells every thread to quit ...
LEMMA DestroyLemma ==
    ASSUME IInv, Destroy
    PROVE  IInv' /\ StepKeeps
<1>1. /\ list \in Seq(Entries) /\ DOMAIN list = 1..Len(list) /\ Len(list) \in Nat
      /\ Apart(list) /\ Counted(list)
  BY DEF IInv, Proper
<1>2. /\ list' = [i \in DOMAIN list |-> Quit(list[i])] /\ phase' = "quitting"
      /\ UNCHANGED <<router, dangling, named>>
  BY DEF Destroy
<1>3. ASSUME NEW i \in DOMAIN list
      PROVE  /\ list'[i] \in Entries /\ list'[i].dst = list[i].dst
             /\ list'[i].weight = list[i].weight /\ list'[i].fail = list[i].fail
             /\ list'[i].explicit = list[i].explicit /\ list'[i].ctx.quit
  <2>1. list[i] \in Entries /\ list'[i] = Quit(list[i])
    BY <1>1, <1>2
  <2> QED
    BY <2>1, QuitEntry
<1>4. DOMAIN list' = DOMAIN list /\ list' = [i \in 1..Len(list) |-> list'[i]]
  BY <1>1, <1>2
<1>5. list' \in Seq(Entries) /\ Len(list') = Len(list)
  BY <1>1, <1>3, <1>4
<1>6. Proper(list')
  <2>1. Apart(list')
    BY <1>1, <1>3, <1>4 DEF Apart
  <2>2. Counted(list')
    BY <1>1, <1>3, <1>4 DEF Counted
  <2> QED
    BY <1>5, <2>1, <2>2 DEF Proper
<1>7. Len(list) <= Len(list') /\ Len(list) + 1..Len(list') = {}
  BY <1>1, <1>5
<1>8. IInv'
  BY <1>1, <1>2, <1>3, <1>6, <1>7, ListStep
<1> QED
  BY <1>3, <1>4, <1>8 DEF StepKeeps

\* ... and is done when all of them have joined.
LEMMA DestroyedLemma ==
    ASSUME IInv, Destroyed
    PROVE  IInv'
<1>1. /\ phase' = "destroyed" /\ list' = <<>> /\ UNCHANGED <<router, named>>
      /\ dangling' = {d \in Dsts : router[d] # NotRouted}
  BY DEF Destroyed
<1>2. DOMAIN list' = {} /\ list' \in Seq(Entries)
  BY <1>1
<1>3. TypeOK'
  BY <1>1, <1>2 DEF IInv, TypeOK
<1>4. Proper(list') /\ RouterFollows' /\ \A d \in named' : Forgiven(list', d)
  BY <1>2 DEF Proper, Apart, Counted, RouterFollows, Forgiven
<1>5. Unwatched'
  BY <1>1 DEF Unwatched
<1> QED
  BY <1>3, <1>4, <1>5 DEF IInv

\* The list is empty at first, and so is the router.
LEMMA InitIInv == Init => IInv
<1> SUFFICES ASSUME Init PROVE IInv
  OBVIOUS
<1>1. /\ Initial \in Seq(Dsts) /\ DOMAIN Initial = 1..Len(Initial) /\ Len(Initial) \in Nat
      /\ \A i, j \in DOMAIN Initial : Initial[i] = Initial[j] => i = j
  BY WdogAssumption
<1>2. ASSUME NEW i \in DOMAIN Initial
      PROVE  /\ list[i] \in Entries /\ list[i].dst = Initial[i]
             /\ list[i].weight = NotRouted /\ list[i].fail = 0
  <2>1. Initial[i] \in Dsts /\ 1 \in Nat /\ TRUE \in BOOLEAN
    BY <1>1
  <2>2. list[i] = Entry(Initial[i], 1, TRUE)
    BY DEF Init
  <2>3. /\ Entry(Initial[i], 1, TRUE) \in Entries /\ Entry(Initial[i], 1, TRUE).dst = Initial[i]
        /\ Entry(Initial[i], 1, TRUE).weight = NotRouted /\ Entry(Initial[i], 1, TRUE).fail = 0
    BY Zenon, <2>1, NewEntry
  <2> QED
    BY Zenon, <2>2, <2>3
<1>3. DOMAIN list = DOMAIN Initial /\ list = [i \in 1..Len(Initial) |-> list[i]]
  BY <1>1 DEF Init
<1>4. list \in Seq(Entries)
  BY <1>1, <1>2, <1>3
<1>5. Apart(list)
  BY <1>1, <1>2, <1>3 DEF Apart
<1>6. Counted(list)
  <2>1. ~(0 > MaxFail)
    BY WdogAssumption
  <2> QED
    BY Zenon, <1>2, <1>3, <2>1 DEF Counted
<1>7. TypeOK
  BY <1>4 DEF Init, TypeOK
<1>8. RouterFollows
  <2>1. \A i \in DOMAIN list : list[i].dst \in Dsts /\ list[i].weight = NotRouted
    BY <1>1, <1>2, <1>3
  <2> QED
    BY Zenon, <2>1 DEF RouterFollows, Init
<1>9. Unwatched /\ \A d \in named : Forgiven(list, d)
  BY DEF Init, Unwatched
<1> QED
  BY <1>4, <1>5, <1>6, <1>7, <1>8, <1>9 DEF IInv, Proper

\* Every step keeps the invariant.
LEMMA NextIInv == IInv /\ [Next]_vars => IInv'
<1> SUFFICES ASSUME IInv, [Next]_vars PROVE IInv'
  OBVIOUS
<1>1. CASE UNCHANGED vars
  BY <1>1 DEF vars, IInv, TypeOK, Proper, Apart, Counted, RouterFollows, Unwatched, Watched,
     Forgiven
<1>2. CASE Next
  BY <1>2, CollectLemma, CommandLemma, DestroyLemma, DestroyedLemma, PublishLemma, ExitLemma
     DEF Next
<1> QED
  BY <1>1, <1>2

\* The invariant holds at all times.
LEMMA Invariance == Spec => []IInv
BY InitIInv, NextIInv, PTL DEF Spec

\* Every variable has its type in every behaviour of the watchdog, for any addresses,
\* weights and reports: in particular the sweep (wdog_collect_results()) never leaves a
\* hole in wdog->dst, and no count of failures passes WDOG_MAX_FAIL_COUNT by more than 1.
THEOREM TypeCorrect == Spec => []TypeOK
<1>1. IInv => TypeOK
  BY DEF IInv
<1> QED
  BY <1>1, Invariance, PTL

\* No address is watched by two entries of wdog->dst, whatever commands, discovery
\* (wdog_process_membership_change()) and the sweep do in between.
THEOREM WatchedApart == Spec => []WatchedOnce
<1>1. IInv => WatchedOnce
  BY DEF IInv, Proper, Apart, WatchedOnce
<1> QED
  BY <1>1, Invariance, PTL

\* The weight that the watchdog notes for a destination is the one the router has,
\* so that wdog_collect_results() may leave out what has not changed; an address that
\* was freed while it was routed is the exception, and comes back as not routed.
THEOREM RouterAgrees == Spec => []RouterFollows
<1>1. IInv => RouterFollows
  BY DEF IInv
<1> QED
  BY <1>1, Invariance, PTL

\* An entry goes only when its thread has joined, and without a command or the end
\* of the watchdog only an entry that is not explicit and was not named as a member
\* in the collection before is told to quit (wdog_collect_results(), which goes
\* through the members every time).
THEOREM WantedStay == Spec => WantedKept
<1> DEFINE A(d, i) ==
        list[i].dst = d =>
            /\ Watched(d)' \/ list[i].ctx.join
            /\ Removing(d)' =>
                \/ list[i].ctx.quit \/ Destroy \/ Command(d, -1)
                \/ ~list[i].explicit /\ d \notin named
<1>1. ASSUME IInv, Next PROVE \A d \in Dsts : \A i \in DOMAIN list : A(d, i)
  <2> SUFFICES ASSUME NEW d \in Dsts, NEW i \in DOMAIN list, list[i].dst = d
               PROVE  /\ Watched(d)' \/ list[i].ctx.join
                      /\ Removing(d)' =>
                            \/ list[i].ctx.quit \/ Destroy \/ Command(d, -1)
                            \/ ~list[i].explicit /\ d \notin named
    OBVIOUS
  <2>1. Apart(list) /\ (d \in named => list[i].fail = 0)
    BY <1>1 DEF IInv, Proper, Forgiven
  <2>2. CASE CollectKeeps
    <3>1. Watched(d)' \/ list[i].ctx.join
      BY <2>2 DEF CollectKeeps, Watched
    <3>2. ASSUME Removing(d)'
          PROVE  list[i].ctx.quit \/ (~list[i].explicit /\ d \notin named)
      <4>1. PICK j \in DOMAIN list' : list'[j].dst = d /\ list'[j].ctx.quit
        BY <3>2 DEF Removing
      <4>2. PICK k \in DOMAIN list :
              /\ list[k].dst = d
              /\ list[k].ctx.quit \/ (~list[k].explicit /\ list[k].fail # 0)
        BY <2>2, <4>1 DEF CollectKeeps
      <4>3. k = i
        BY <2>1, <4>2 DEF Apart
      <4> QED
        BY <2>1, <4>2, <4>3
    <3> QED
      BY <3>1, <3>2
  <2>3. CASE StepKeeps
    <3>1. Watched(d)'
      BY <2>3 DEF StepKeeps, Watched
    <3>2. ASSUME Removing(d)'
          PROVE  list[i].ctx.quit \/ Destroy \/ Command(d, -1)
      <4>1. PICK j \in DOMAIN list' : list'[j].dst = d /\ list'[j].ctx.quit
        BY <3>2 DEF Removing
      <4>2. j \in DOMAIN list /\ (list[j].ctx.quit \/ Destroy \/ Command(list[j].dst, -1))
        BY <2>3, <4>1 DEF StepKeeps
      <4>3. list[j].dst = d
        BY <2>3, <4>1, <4>2 DEF StepKeeps
      <4>4. j = i
        BY <2>1, <4>2, <4>3 DEF Apart
      <4> QED
        BY <4>2, <4>3, <4>4
    <3> QED
      BY <3>1, <3>2
  <2>4. CASE Destroyed
    <3>1. list[i].ctx.join
      BY <2>4 DEF Destroyed
    <3>2. list' = <<>>
      BY <2>4 DEF Destroyed
    <3>3. ~Removing(d)'
      BY <3>2 DEF Removing
    <3> QED
      BY <3>1, <3>3
  <2>5. CollectKeeps \/ StepKeeps \/ Destroyed
    BY <1>1, CollectLemma, CommandLemma, DestroyLemma, PublishLemma, ExitLemma DEF Next
  <2> QED
    BY <2>2, <2>3, <2>4, <2>5
<1>2. IInv /\ [Next]_vars => [\A d \in Dsts : \A i \in DOMAIN list : A(d, i)]_vars
  <2> HIDE DEF A
  <2> QED BY <1>1
<1> QED
  BY <1>2, Invariance, PTL DEF Spec, WantedKept

-----------------------------------------------------------------------------
(* The backend threads                                                     *)

\* Who can be blocked on ctx->cond, in terms of where the threads are. A thread
\* that has not entered its loop has the watchdog waiting for it, a router that
\* is blocked is counted, and the thread of the exec backend sleeps alone.
Blocked ==
    /\ "router" \in cond => probe = "in" /\ waiting > 0
    /\ "thread" \in cond => th = "sleep"
    /\ "wdog" \in cond => wd = "waiting"
    /\ wd \in {"none", "creating", "waiting"} => probe = "out"
    /\ th \in {"poll", "sleep", "ending", "done"} => "wdog" \notin cond /\ wd # "creating"
    /\ kind = "exec" /\ "thread" \in cond => "router" \notin cond

\* What holds until the thread enters its loop, and what only the exec backend
\* does.
Starting ==
    /\ wd = "none" <=> th = "none"
    /\ errn \/ th = "poll" => kind = "exec"
    /\ th \in {"none", "start"} => ~errn
    /\ th \in {"none", "start", "ready"} /\ ~errn => ~ctx.quit
    /\ th \in {"start", "ready"} /\ ~errn =>
        wd \in {"creating", "waiting"} /\ (wd = "waiting" => "wdog" \in cond)

\* A router that was signalled has a new result, or the thread is to quit.
Answered == probe = "in" /\ "router" \notin cond => fresh \/ ctx.quit

BackendInv == ThreadTypeOK /\ Blocked /\ Starting /\ Answered

\* What pthread_cond_signal() leaves.
LEMMA SignalLemma ==
    ASSUME NEW c, NEW left \in AfterSignal(c)
    PROVE  /\ left \subseteq c
           /\ (\A s, t \in c : s = t) => left = {}
           /\ c # {} => \E t \in c : left = c \ {t}
BY DEF AfterSignal

\* The operations on the context keep it one, and only the order to quit sets
\* quit.
LEMMA CtxLemma ==
    ASSUME NEW c \in Ctx, NEW r \in Result
    PROVE  /\ Published(c, r) \in Ctx /\ (Published(c, r).quit <=> c.quit)
           /\ Collected(c) \in Ctx /\ (Collected(c).quit <=> c.quit)
           /\ Quitting(c) \in Ctx /\ Quitting(c).quit
           /\ Exited(c) \in Ctx /\ (Exited(c).quit <=> c.quit)
           /\ [c EXCEPT !.join = TRUE] \in Ctx /\ ([c EXCEPT !.join = TRUE].quit <=> c.quit)
<1>0. /\ c = [quit |-> c.quit, join |-> c.join, result |-> c.result]
      /\ c.quit \in BOOLEAN /\ c.join \in BOOLEAN /\ c.result \in Result
  BY DEF Ctx
<1>1. NoResult \in Result
  BY DEF NoResult, Result, States, GLB_DST_NOTFOUND, GLB_DST_READY
<1>2. [c.result EXCEPT !.ready = FALSE] \in Result
  BY Zenon, <1>0 DEF Result
<1>3. Published(c, r) \in Ctx /\ (Published(c, r).quit <=> c.quit)
  BY <1>0 DEF Ctx, Published
<1>4. Collected(c) \in Ctx /\ (Collected(c).quit <=> c.quit)
  BY Zenon, <1>0, <1>2 DEF Ctx, Collected
<1>5. Quitting(c) \in Ctx /\ Quitting(c).quit
  BY Zenon, <1>0 DEF Ctx, Quitting
<1>6. Exited(c) \in Ctx /\ (Exited(c).quit <=> c.quit)
  BY Zenon, <1>0, <1>1 DEF Ctx, Exited
<1>7. [c EXCEPT !.join = TRUE] \in Ctx /\ ([c EXCEPT !.join = TRUE].quit <=> c.quit)
  BY Zenon, <1>0 DEF Ctx
<1> QED
  BY <1>3, <1>4, <1>5, <1>6, <1>7

\* What is published, and the context at the beginning.
LEMMA ResultLemma ==
    /\ NoResult \in Result /\ Dummy \in Result
    /\ NewCtx \in Ctx /\ ~NewCtx.quit
    /\ \A a \in Answers : a.r \in Result /\ a.e \in BOOLEAN
<1>1. NoResult \in Result /\ Dummy \in Result
  BY DEF NoResult, Dummy, Result, States, GLB_DST_NOTFOUND, GLB_DST_READY
<1>2. NewCtx \in Ctx /\ ~NewCtx.quit
  BY <1>1 DEF NewCtx, Ctx
<1>3. ASSUME NEW a \in Answers PROVE a.r \in Result /\ a.e \in BOOLEAN
  BY Zenon, <1>1 DEF Answers, Result
<1> QED
  BY <1>1, <1>2, <1>3

LEMMA InitBackend == ThreadInit => BackendInv
<1> SUFFICES ASSUME ThreadInit PROVE BackendInv
  OBVIOUS
<1>1. ThreadTypeOK
  BY Zenon, ResultLemma DEF ThreadInit, ThreadTypeOK
<1>2. Blocked
  BY DEF ThreadInit, Blocked
<1>3. Starting
  BY ResultLemma DEF ThreadInit, Starting
<1>4. Answered
  BY DEF ThreadInit, Answered
<1> QED
  BY <1>1, <1>2, <1>3, <1>4 DEF BackendInv

-----------------------------------------------------------------------------
(* The inductive step, one lemma for each side                             *)

\* The watchdog's creation of the thread, and its end.
LEMMA CreateStep ==
    BackendInv /\ (Create \/ CreateWait \/ CreateDone \/ Free) => BackendInv'
<1> SUFFICES ASSUME BackendInv, Create \/ CreateWait \/ CreateDone \/ Free PROVE BackendInv'
  OBVIOUS
<1> USE DEF BackendInv
<1>1. CASE Create
  BY <1>1 DEF Create, ThreadTypeOK, Blocked, Starting, Answered
<1>2. CASE CreateWait
  BY <1>2 DEF CreateWait, ThreadTypeOK, Blocked, Starting, Answered
<1>3. CASE CreateDone
  BY <1>3 DEF CreateDone, ThreadTypeOK, Blocked, Starting, Answered
<1>4. CASE Free
  BY <1>4 DEF Free, ThreadTypeOK, Blocked, Starting, Answered
<1> QED
  BY <1>1, <1>2, <1>3, <1>4

\* The watchdog takes the result or tells the thread to quit: some blocked thread
\* may be woken, and if the context changes in more than the result, it is that
\* quit is set.
LEMMA WatchStep ==
    BackendInv /\ (Collect \/ QuitThread) => BackendInv'
<1> SUFFICES ASSUME BackendInv, Collect \/ QuitThread PROVE BackendInv'
  OBVIOUS
<1>1. /\ ctx \in Ctx /\ ctx' \in Ctx
      /\ cond' \subseteq cond /\ (ctx.quit => ctx'.quit)
      /\ (cond' = cond /\ (ctx'.quit <=> ctx.quit)) \/ ctx'.quit
  <2>0. NoResult \in Result /\ ctx \in Ctx
    BY ResultLemma DEF BackendInv, ThreadTypeOK
  <2>1. Collected(ctx) \in Ctx
    BY Zenon, <2>0, CtxLemma
  <2>2. CASE ctx' = Collected(ctx) /\ UNCHANGED cond
    BY Zenon, <2>0, <2>2, CtxLemma
  <2>3. CASE ctx' = Quitting(Collected(ctx)) /\ cond' \in AfterSignal(cond)
    BY Zenon, <2>0, <2>1, <2>3, CtxLemma, SignalLemma
  <2>4. CASE ctx' = Quitting(ctx) /\ cond' \in AfterSignal(cond)
    BY Zenon, <2>0, <2>4, CtxLemma, SignalLemma
  <2> QED
    BY Zenon, <2>2, <2>3, <2>4 DEF Collect, QuitThread
<1>2. wd = "watching" /\ UNCHANGED <<kind, wd, th, probe, errn, waiting, fresh>>
  BY Zenon DEF Collect, QuitThread
<1>3. ThreadTypeOK'
  BY <1>1, <1>2 DEF BackendInv, ThreadTypeOK
<1>4. Blocked' /\ Starting' /\ Answered'
  BY <1>1, <1>2 DEF BackendInv, Blocked, Starting, Answered
<1> QED
  BY <1>3, <1>4 DEF BackendInv

\* The router.
LEMMA ProbeStep ==
    BackendInv /\ (ProbeBegin \/ ProbeEnd) => BackendInv'
<1> SUFFICES ASSUME BackendInv, ProbeBegin \/ ProbeEnd PROVE BackendInv'
  OBVIOUS
<1>1. CASE ProbeBegin
  <2>1. PICK left \in AfterSignal(cond) : cond' = left \cup {"router"}
    BY <1>1 DEF ProbeBegin
  <2>2. /\ left \subseteq cond
        /\ (\A s, t \in cond : s = t) => left = {}
    BY <2>1, SignalLemma
  <2>3. cond \subseteq {"thread"} /\ "wdog" \notin cond
    BY <1>1 DEF ProbeBegin, BackendInv, ThreadTypeOK, Blocked
  <2>4. left = {}
    BY <2>2, <2>3
  <2>5. /\ wd = "watching" /\ probe' = "in" /\ cond' = {"router"}
        /\ waiting \in Nat /\ waiting' = waiting + 1
        /\ UNCHANGED <<kind, wd, th, ctx, errn>> /\ fresh' \in BOOLEAN
    BY Zenon, <1>1, <2>1, <2>4 DEF ProbeBegin, BackendInv, ThreadTypeOK
  <2>6. ThreadTypeOK'
    BY <2>5 DEF BackendInv, ThreadTypeOK
  <2>7. Blocked' /\ Starting' /\ Answered'
    BY <2>5 DEF BackendInv, Blocked, Starting, Answered
  <2> QED
    BY <2>6, <2>7 DEF BackendInv
<1>2. CASE ProbeEnd
  BY Zenon, <1>2 DEF ProbeEnd, BackendInv, ThreadTypeOK, Blocked, Starting, Answered
<1> QED
  BY <1>1, <1>2

\* The thread before its loop.
LEMMA StartStep ==
    BackendInv /\ Start => BackendInv'
<1> SUFFICES ASSUME BackendInv, Start PROVE BackendInv'
  OBVIOUS
<1>1. /\ th = "start" /\ th' = "ready" /\ errn' \in BOOLEAN /\ cond' \subseteq cond
      /\ errn' => kind = "exec"
      /\ ~errn' => cond' = cond
      /\ UNCHANGED <<kind, wd, probe, ctx, waiting, fresh>>
  BY Zenon, SignalLemma DEF Start
<1>2. ThreadTypeOK'
  BY <1>1 DEF BackendInv, ThreadTypeOK
<1>3. Blocked' /\ Starting' /\ Answered'
  BY <1>1 DEF BackendInv, Blocked, Starting, Answered
<1> QED
  BY <1>2, <1>3 DEF BackendInv

\* What the head of the loop does, in the context c and with left blocked.
LEMMA LoopLemma ==
    ASSUME NEW c \in Ctx, NEW left, kind \in {"exec", "dummy"}, Loop(c, left)
    PROVE  /\ ctx' \in Ctx /\ (ctx'.quit <=> c.quit)
           /\ \/ th' \in {"poll", "ending"} /\ (th' = "poll" => kind = "exec") /\ cond' = left
              \/ kind = "dummy" /\ th' = "sleep" /\ cond' = left \cup {"thread"}
<1>1. ctx' \in {Exited(c), [c EXCEPT !.join = TRUE], c, Published(c, Dummy)}
  BY DEF Loop, Sleep
<1>2. Dummy \in Result
  BY ResultLemma
<1>3. ctx' \in Ctx /\ (ctx'.quit <=> c.quit)
  <2>1. CASE ctx' = Exited(c)
    BY Zenon, <1>2, <2>1, CtxLemma
  <2>2. CASE ctx' = [c EXCEPT !.join = TRUE]
    BY <1>2, <2>2, CtxLemma
  <2>3. CASE ctx' = Published(c, Dummy)
    BY Zenon, <1>2, <2>3, CtxLemma
  <2> QED
    BY <1>1, <2>1, <2>2, <2>3
<1>4. \/ th' \in {"poll", "ending"} /\ (th' = "poll" => kind = "exec") /\ cond' = left
      \/ kind = "dummy" /\ th' = "sleep" /\ cond' = left \cup {"thread"}
  BY DEF Loop, Sleep
<1> QED
  BY <1>3, <1>4

\* The thread enters its loop. If the watchdog is still waiting, it is the one
\* that is woken; if not, the thread has an error and is about to quit.
LEMMA EnterStep ==
    BackendInv /\ Enter => BackendInv'
<1> SUFFICES ASSUME BackendInv, Enter PROVE BackendInv'
  OBVIOUS
<1> DEFINE c == IF errn THEN Quitting(ctx) ELSE ctx
<1>1. PICK left \in AfterSignal(cond) : Loop(c, left)
  BY DEF Enter
<1>2. /\ c \in Ctx /\ (c.quit <=> ctx.quit \/ errn)
      /\ kind \in {"exec", "dummy"}
  <2>1. ctx \in Ctx /\ NoResult \in Result
    BY ResultLemma DEF BackendInv, ThreadTypeOK
  <2>2. kind \in {"exec", "dummy"}
    BY Zenon, <1>1 DEF Loop
  <2> QED
    BY Zenon, <2>1, <2>2, CtxLemma DEF BackendInv, ThreadTypeOK
<1> HIDE DEF c
<1>3. /\ ctx' \in Ctx /\ (ctx'.quit <=> ctx.quit \/ errn)
      /\ \/ th' \in {"poll", "ending"} /\ (th' = "poll" => kind = "exec") /\ cond' = left
         \/ kind = "dummy" /\ th' = "sleep" /\ cond' = left \cup {"thread"}
  BY <1>1, <1>2, LoopLemma
<1>4. left \subseteq cond /\ "wdog" \notin left /\ "thread" \notin left
  <2>1. /\ left \subseteq cond
        /\ (\A s, t \in cond : s = t) => left = {}
    BY SignalLemma
  <2>2. "thread" \notin cond
    BY DEF Enter, BackendInv, Blocked
  <2>3. CASE "wdog" \in cond
    <3>1. cond = {"wdog"}
      BY Zenon, <2>2, <2>3 DEF BackendInv, ThreadTypeOK, Blocked
    <3> QED
      BY <2>1, <3>1
  <2> QED
    BY <2>1, <2>2, <2>3
<1>5. /\ th = "ready" /\ wd # "creating"
      /\ UNCHANGED <<kind, wd, probe, errn, waiting, fresh>>
  BY DEF Enter, Unlocked
<1>6. ThreadTypeOK'
  BY Zenon, <1>3, <1>4, <1>5 DEF BackendInv, ThreadTypeOK
<1>7. Blocked'
  BY <1>3, <1>4, <1>5 DEF BackendInv, Blocked, Starting
<1>8. Starting'
  BY <1>3, <1>5 DEF BackendInv, Starting
<1>9. Answered'
  BY <1>3, <1>4, <1>5 DEF BackendInv, Blocked, Starting, Answered
<1> QED
  BY <1>6, <1>7, <1>8, <1>9 DEF BackendInv

\* The exec backend has polled. Only the router can have been blocked meanwhile,
\* it was counted if it was, and so nobody is left.
LEMMA PollStep ==
    BackendInv /\ Poll => BackendInv'
<1> SUFFICES ASSUME BackendInv, Poll PROVE BackendInv'
  OBVIOUS
<1>1. PICK a \in Answers, left \in WakeProbes :
        /\ errn' = a.e
        /\ IF a.e
           THEN th' = "ending" /\ ctx' = Exited(ctx) /\ cond' = left
           ELSE Sleep(Published(ctx, a.r), left)
  BY DEF Poll
<1>2. /\ th = "poll" /\ waiting' = 0 /\ fresh' = TRUE
      /\ UNCHANGED <<kind, wd, probe>>
  BY DEF Poll
<1>3. left = {}
  <2>1. cond \subseteq {"router"} /\ (waiting = 0 => cond = {})
    BY <1>2 DEF BackendInv, ThreadTypeOK, Blocked
  <2>2. \A s, t \in cond : s = t
    BY <2>1
  <2>3. \A l \in AfterSignal(cond) : l = {}
    BY <2>2, SignalLemma
  <2> QED
    BY <2>1, <2>3 DEF WakeProbes
<1>4. /\ ctx' \in Ctx /\ (ctx'.quit <=> ctx.quit) /\ errn' \in BOOLEAN
      /\ \/ th' = "ending" /\ cond' = {}
         \/ th' = "sleep" /\ cond' = {"thread"} /\ ~errn'
  <2>1. ctx \in Ctx /\ a.r \in Result /\ a.e \in BOOLEAN
    BY ResultLemma DEF BackendInv, ThreadTypeOK
  <2>2. CASE a.e
    BY Zenon, <1>1, <1>3, <2>1, <2>2, CtxLemma
  <2>3. CASE ~a.e
    BY Zenon, <1>1, <1>3, <2>1, <2>3, CtxLemma DEF Sleep
  <2> QED
    BY <2>2, <2>3
<1>5. ThreadTypeOK'
  BY <1>2, <1>4 DEF BackendInv, ThreadTypeOK
<1>6. Blocked' /\ Answered'
  BY <1>2, <1>4 DEF BackendInv, Blocked, Answered
<1>7. Starting'
  BY <1>2, <1>4 DEF BackendInv, Starting
<1> QED
  BY <1>5, <1>6, <1>7 DEF BackendInv

\* The thread wakes up, and ends.
LEMMA WakeStep ==
    BackendInv /\ (WakeUp \/ End) => BackendInv'
<1> SUFFICES ASSUME BackendInv, WakeUp \/ End PROVE BackendInv'
  OBVIOUS
<1>1. CASE WakeUp
  <2>1. ctx \in Ctx /\ kind \in {"exec", "dummy"}
    <3>1. kind \in {"exec", "dummy"}
      BY Zenon, <1>1 DEF WakeUp, Loop
    <3> QED
      BY <3>1 DEF BackendInv, ThreadTypeOK
  <2>2. /\ ctx' \in Ctx /\ (ctx'.quit <=> ctx.quit)
        /\ \/ th' \in {"poll", "ending"} /\ (th' = "poll" => kind = "exec") /\ cond' = cond \ {"thread"}
           \/ kind = "dummy" /\ th' = "sleep" /\ cond' = (cond \ {"thread"}) \cup {"thread"}
    BY <1>1, <2>1, LoopLemma DEF WakeUp
  <2>3. th = "sleep" /\ UNCHANGED <<kind, wd, probe, errn, waiting, fresh>>
    BY <1>1 DEF WakeUp
  <2>4. ThreadTypeOK'
    BY Zenon, <2>2, <2>3 DEF BackendInv, ThreadTypeOK
  <2>5. Blocked' /\ Answered'
    BY <2>2, <2>3 DEF BackendInv, Blocked, Answered
  <2>6. Starting'
    BY <2>2, <2>3 DEF BackendInv, Starting
  <2> QED
    BY <2>4, <2>5, <2>6 DEF BackendInv
<1>2. CASE End
  BY <1>2 DEF End, BackendInv, ThreadTypeOK, Blocked, Starting, Answered
<1> QED
  BY <1>1, <1>2

LEMMA NextBackend == BackendInv /\ [ThreadNext]_threadVars => BackendInv'
<1>1. BackendInv /\ UNCHANGED threadVars => BackendInv'
  BY DEF threadVars, BackendInv, ThreadTypeOK, Blocked, Starting, Answered
<1> QED
  BY <1>1, CreateStep, WatchStep, ProbeStep, StartStep, EnterStep, PollStep, WakeStep
     DEF ThreadNext

LEMMA BackendInvariance == ThreadSpec => []BackendInv
BY InitBackend, NextBackend, PTL DEF ThreadSpec

-----------------------------------------------------------------------------
(* Theorems                                                                *)

\* In every behaviour of a backend and of the threads around it the variables
\* have their types: only a state of glb_dst_state_t is published.
THEOREM BackendTypes == ThreadSpec => []ThreadTypeOK
<1>1. BackendInv => ThreadTypeOK
  BY DEF BackendInv
<1> QED
  BY <1>1, BackendInvariance, PTL

\* No two threads are ever blocked on ctx->cond of an exec backend, so that each
\* signal reaches the thread that it is meant for.
THEOREM SleepersApart == ThreadSpec => []OneSleeper
<1>1. BackendInv => OneSleeper
  BY DEF BackendInv, ThreadTypeOK, Blocked, OneSleeper
<1> QED
  BY <1>1, BackendInvariance, PTL

\* glb_backend_probe() returns a result that came after it had asked, unless it
\* timed out or the thread was told to quit.
THEOREM ProbesFresh == ThreadSpec => ProbeFresh
<1>1. BackendInv /\ [ThreadNext]_threadVars
        => [probe = "in" /\ probe' = "out" /\ "router" \notin cond => fresh \/ ctx.quit]_threadVars
  BY DEF BackendInv, Answered
<1> QED
  BY <1>1, BackendInvariance, PTL DEF ThreadSpec, ProbeFresh

-----------------------------------------------------------------------------
(* Refinement                                                              *)

\* The order of the two changes that a failed start makes does not matter.
LEMMA FailedStart ==
    ASSUME NEW c \in Ctx
    PROVE  Exited(Quitting(c)) = Quitting(Exited(c))
BY Zenon DEF Exited, Quitting, Ctx

\* Where the thread is, as BackendSpec sees it.
LEMMA LifeLemma ==
    /\ th = "none" => life = "none"
    /\ th \in {"start", "ready"} => life = "starting"
    /\ th \in {"poll", "sleep"} => life = "running"
    /\ th \in {"ending", "done"} => life = "exited"
BY DEF life

LEMMA LifeLemmaPrime ==
    /\ th' = "none" => life' = "none"
    /\ th' \in {"start", "ready"} => life' = "starting"
    /\ th' \in {"poll", "sleep"} => life' = "running"
    /\ th' \in {"ending", "done"} => life' = "exited"
BY DEF life

LEMMA InitImplements == ThreadInit => Abs!Init
BY LifeLemma
   DEF ThreadInit, Abs!Init, NewCtx, Abs!NewCtx, NoResult, Abs!NoResult,
       GLB_DST_NOTFOUND, Abs!GLB_DST_NOTFOUND

\* The steps that leave the context alone, and in which the thread does not pass
\* from one part of its life to the next.
LEMMA StutterImplements ==
    BackendInv /\ (CreateWait \/ CreateDone \/ Free \/ Start \/ End \/ ProbeBegin \/ ProbeEnd)
        => UNCHANGED <<life, ctx>>
<1> SUFFICES ASSUME CreateWait \/ CreateDone \/ Free \/ Start \/ End \/ ProbeBegin \/ ProbeEnd
             PROVE  UNCHANGED <<life, ctx>>
  OBVIOUS
<1>1. CASE Start
  BY <1>1, LifeLemma, LifeLemmaPrime DEF Start
<1>2. CASE End
  BY <1>2, LifeLemma, LifeLemmaPrime DEF End
<1>3. CASE CreateWait \/ CreateDone \/ Free \/ ProbeBegin \/ ProbeEnd
  BY <1>3 DEF CreateWait, CreateDone, Free, ProbeBegin, ProbeEnd, life
<1> QED
  BY <1>1, <1>2, <1>3

LEMMA WatchImplements == BackendInv /\ (Create \/ Collect \/ QuitThread) => Abs!Next
<1>1. CASE BackendInv /\ Create
  BY <1>1, LifeLemma, LifeLemmaPrime DEF BackendInv, Starting, Create, Abs!Create, Abs!Next
<1>2. CASE BackendInv /\ (Collect \/ QuitThread)
  <2>1. th # "none" /\ UNCHANGED th
    BY <1>2 DEF BackendInv, Starting, Collect, QuitThread
  <2>2. life # "none" /\ UNCHANGED life
    BY <2>1 DEF life
  <2>3. ctx' \in {Collected(ctx), Quitting(ctx), Quitting(Collected(ctx))}
    BY <1>2 DEF Collect, QuitThread
  <2> QED
    BY <2>2, <2>3 DEF Abs!Take, Abs!Next, Abs!Collected, Abs!Quitting, Collected, Quitting
<1> QED
  BY <1>1, <1>2

\* The context operators and the results of BackendSpec are those of Backend.
LEMMA SameOperators ==
    /\ Abs!Result = Result
    /\ \A c : Abs!Exited(c) = Exited(c) /\ Abs!Quitting(c) = Quitting(c)
    /\ \A c, r : Abs!Published(c, r) = Published(c, r)
BY DEF Abs!Result, Abs!States, Abs!GLB_DST_NOTFOUND, Abs!GLB_DST_READY,
       Result, States, GLB_DST_NOTFOUND, GLB_DST_READY,
       Abs!Exited, Abs!NoResult, Exited, NoResult, Abs!Quitting, Quitting,
       Abs!Published, Published

LEMMA EnterImplements == BackendInv /\ Enter => Abs!Next
<1> SUFFICES ASSUME BackendInv, Enter PROVE Abs!Next
  OBVIOUS
<1>1. life = "starting" /\ ctx \in Ctx /\ errn \in BOOLEAN
  BY LifeLemma DEF Enter, BackendInv, ThreadTypeOK
<1>2. CASE errn
  <2>1. kind = "exec" /\ Quitting(ctx).quit
    BY Zenon, <1>1, <1>2, CtxLemma, ResultLemma DEF BackendInv, Starting
  <2>2. th' = "ending" /\ ctx' = Exited(Quitting(ctx))
    BY <1>2, <2>1 DEF Enter, Loop
  <2>3. life' = "exited" /\ ctx' = Abs!Quitting(Abs!Exited(ctx))
    BY <1>1, <2>2, LifeLemmaPrime, FailedStart, SameOperators
  <2> QED
    BY <1>1, <2>3 DEF Abs!Start, Abs!Next
<1>3. CASE ~errn
  <2>1. ~ctx.quit
    BY <1>3 DEF Enter, BackendInv, Starting
  <2>2. \/ th' = "poll" /\ ctx' = ctx
        \/ th' = "sleep" /\ ctx' = Published(ctx, Dummy)
    BY <1>3, <2>1 DEF Enter, Loop, Sleep
  <2>3. Dummy \in Abs!Result
    BY ResultLemma, SameOperators
  <2>4. life' = "running" /\ ctx' \in {ctx} \cup {Abs!Published(ctx, r) : r \in Abs!Result}
    BY <2>2, <2>3, LifeLemmaPrime, SameOperators
  <2> QED
    BY <1>1, <2>4 DEF Abs!Start, Abs!Next
<1> QED
  BY <1>1, <1>2, <1>3

LEMMA PollImplements == BackendInv /\ Poll => Abs!Next
<1> SUFFICES ASSUME BackendInv, Poll PROVE Abs!Next
  OBVIOUS
<1>1. PICK a \in Answers, left \in WakeProbes :
        IF a.e
        THEN th' = "ending" /\ ctx' = Exited(ctx) /\ cond' = left
        ELSE Sleep(Published(ctx, a.r), left)
  BY DEF Poll
<1>2. life = "running" /\ a.r \in Abs!Result
  BY LifeLemma, ResultLemma, SameOperators DEF Poll
<1>3. CASE a.e
  BY <1>1, <1>2, <1>3, LifeLemmaPrime, SameOperators DEF Abs!Exit, Abs!Next
<1>4. CASE ~a.e
  <2>1. life' = "running" /\ ctx' = Abs!Published(ctx, a.r)
    BY <1>1, <1>4, LifeLemmaPrime, SameOperators DEF Sleep
  <2> QED
    BY <1>2, <2>1 DEF Abs!Publish, Abs!Next
<1> QED
  BY <1>3, <1>4

LEMMA WakeUpImplements == BackendInv /\ WakeUp => Abs!Next \/ UNCHANGED <<life, ctx>>
<1> SUFFICES ASSUME BackendInv, WakeUp PROVE Abs!Next \/ UNCHANGED <<life, ctx>>
  OBVIOUS
<1>1. life = "running" /\ Dummy \in Abs!Result
  BY LifeLemma, ResultLemma, SameOperators DEF WakeUp
<1>2. \/ th' = "ending" /\ ctx' \in {Exited(ctx), [ctx EXCEPT !.join = TRUE]}
      \/ th' = "poll" /\ ctx' = ctx
      \/ th' = "sleep" /\ ctx' = Published(ctx, Dummy)
  BY DEF WakeUp, Loop, Sleep
<1>3. CASE th' = "ending" /\ ctx' \in {Exited(ctx), [ctx EXCEPT !.join = TRUE]}
  BY <1>1, <1>3, LifeLemmaPrime, SameOperators DEF Abs!Exit, Abs!Next
<1>4. CASE th' = "poll" /\ ctx' = ctx
  BY <1>1, <1>4, LifeLemmaPrime
<1>5. CASE th' = "sleep" /\ ctx' = Published(ctx, Dummy)
  BY <1>1, <1>5, LifeLemmaPrime, SameOperators DEF Abs!Publish, Abs!Next
<1> QED
  BY <1>2, <1>3, <1>4, <1>5

\* Every step of exec_thread() or backend_dummy_thread(), of the watchdog and of
\* the router is a step that glb_wdog_backend.h allows, or changes nothing that
\* it speaks of.
THEOREM StepsImplement == ThreadSpec => Abs!Init /\ [][Abs!Next]_<<life, ctx>>
<1>1. BackendInv /\ [ThreadNext]_threadVars => [Abs!Next]_<<life, ctx>>
  <2>1. UNCHANGED threadVars => UNCHANGED <<life, ctx>>
    BY DEF threadVars, life
  <2> QED
    BY <2>1, StutterImplements, WatchImplements, EnterImplements, PollImplements,
       WakeUpImplements DEF ThreadNext
<1> QED
  BY <1>1, InitImplements, BackendInvariance, PTL DEF ThreadSpec
=============================================================================

---------------------------- MODULE RouterCounts ----------------------------
(***************************************************************************)
(* What the router counts, for any number of destinations, connections,    *)
(* weights and configurations: usage, the connections of each destination  *)
(* and of the router, and max_conn.                                        *)
(***************************************************************************)
EXTENDS RouterProofs

-----------------------------------------------------------------------------
(* Counts of a table against what the slots hold                           *)

\* r counts the slots by the entry that each of them holds, 0 for none.
Counted(r, H) ==
    /\ \A i \in 1..r.n_dst : r.dst[i].conns = Cardinality({c \in Slots : H[c] = i})
    /\ r.conns = Cardinality({c \in Slots : H[c] # 0})

\* A set of slots with one more, and with one less.
LEMMA OneSlot ==
    ASSUME NEW S, NEW T, S \subseteq Slots, NEW c \in Slots, c \notin S,
           T = S \cup {c}
    PROVE  Cardinality(T) = Cardinality(S) + 1 /\ Cardinality(S) \in Nat
  BY SlotSets, FS_AddElement

\* A slot that held nothing takes an entry, which is counted.
LEMMA JoinCounts ==
    ASSUME NEW r, NEW q, NEW H \in [Slots -> 0..r.n_dst], NEW c \in Slots, H[c] = 0,
           RouterFields(r), NEW i \in 1..r.n_dst, cnf.glbd,
           Counted(r, H), ConnsMoved(q, r, i, 1)
    PROVE  Counted(q, [H EXCEPT ![c] = i])
  <1> DEFINE G == [H EXCEPT ![c] = i]
  <1>0. r.n_dst \in Nat /\ i # 0 /\ i \in Nat
    BY EntryTypes
  <1>1. {d \in Slots : G[d] = i} = {d \in Slots : H[d] = i} \cup {c}
    BY <1>0
  <1>2. {d \in Slots : G[d] # 0} = {d \in Slots : H[d] # 0} \cup {c}
    BY <1>0
  <1>3. ASSUME NEW j \in 1..r.n_dst, j # i
        PROVE  {d \in Slots : G[d] = j} = {d \in Slots : H[d] = j}
    BY <1>0, <1>3
  <1> HIDE DEF G
  <1>4. Cardinality({d \in Slots : G[d] = i}) = Cardinality({d \in Slots : H[d] = i}) + 1
    BY <1>0, <1>1, OneSlot
  <1>5. Cardinality({d \in Slots : G[d] # 0}) = Cardinality({d \in Slots : H[d] # 0}) + 1
    BY <1>0, <1>2, OneSlot
  <1>6. /\ q.n_dst = r.n_dst /\ q.conns = r.conns + 1
        /\ q.dst[i].conns = r.dst[i].conns + 1
        /\ \A j \in 1..r.n_dst : j # i => q.dst[j].conns = r.dst[j].conns
    BY Zenon DEF ConnsMoved
  <1>7. Counted(q, G)
    <2>1. ASSUME NEW j \in 1..r.n_dst
          PROVE  q.dst[j].conns = Cardinality({d \in Slots : G[d] = j})
      <3>1. CASE j = i
        BY <1>4, <1>6, <3>1 DEF Counted
      <3>2. CASE j # i
        BY <1>3, <1>6, <3>2 DEF Counted
      <3> QED BY <3>1, <3>2
    <2>2. q.conns = Cardinality({d \in Slots : G[d] # 0})
      BY <1>5, <1>6 DEF Counted
    <2> QED BY <1>6, <2>1, <2>2 DEF Counted
  <1> QED BY <1>7 DEF G

\* A slot gives back the entry that it held.
LEMMA LeaveCounts ==
    ASSUME NEW r, NEW q, NEW H \in [Slots -> 0..r.n_dst], NEW c \in Slots,
           RouterFields(r), NEW i \in 1..r.n_dst, H[c] = i, cnf.glbd,
           Counted(r, H), ConnsMoved(q, r, i, -1)
    PROVE  Counted(q, [H EXCEPT ![c] = 0])
  <1> DEFINE G == [H EXCEPT ![c] = 0]
  <1>0. r.n_dst \in Nat /\ i # 0 /\ i \in Nat
    BY EntryTypes
  <1>1. {d \in Slots : H[d] = i} = {d \in Slots : G[d] = i} \cup {c} /\ G[c] # i
    BY <1>0
  <1>2. {d \in Slots : H[d] # 0} = {d \in Slots : G[d] # 0} \cup {c} /\ G[c] = 0
    BY <1>0
  <1>3. ASSUME NEW j \in 1..r.n_dst, j # i
        PROVE  {d \in Slots : G[d] = j} = {d \in Slots : H[d] = j}
    BY <1>0, <1>3
  <1> HIDE DEF G
  <1>4. /\ Cardinality({d \in Slots : H[d] = i}) = Cardinality({d \in Slots : G[d] = i}) + 1
        /\ Cardinality({d \in Slots : G[d] = i}) \in Nat
    BY <1>0, <1>1, OneSlot
  <1>5. /\ Cardinality({d \in Slots : H[d] # 0}) = Cardinality({d \in Slots : G[d] # 0}) + 1
        /\ Cardinality({d \in Slots : G[d] # 0}) \in Nat
    BY <1>0, <1>2, OneSlot
  <1>6. /\ q.n_dst = r.n_dst /\ q.conns = r.conns + (-1)
        /\ q.dst[i].conns = r.dst[i].conns + (-1)
        /\ \A j \in 1..r.n_dst : j # i => q.dst[j].conns = r.dst[j].conns
    BY Zenon DEF ConnsMoved
  <1>7. Counted(q, G)
    <2>1. ASSUME NEW j \in 1..r.n_dst
          PROVE  q.dst[j].conns = Cardinality({d \in Slots : G[d] = j})
      <3>1. CASE j = i
        BY <1>4, <1>6, <3>1 DEF Counted
      <3>2. CASE j # i
        BY <1>3, <1>6, <3>2 DEF Counted
      <3> QED BY <3>1, <3>2
    <2>2. q.conns = Cardinality({d \in Slots : G[d] # 0})
      BY <1>5, <1>6 DEF Counted
    <2> QED BY <1>6, <2>1, <2>2 DEF Counted
  <1> QED BY <1>7 DEF G

\* A step that keeps the table, or changes a weight, changes no count.
LEMMA KeepCounts ==
    ASSUME NEW r, NEW q, NEW H, Counted(r, H),
           SameTable(q, r) \/ \E i : Reweighed(q, r, i)
    PROVE  Counted(q, H)
  BY DEF Counted, SameTable, Reweighed

\* Nobody holds a new entry.
LEMMA AddCounts ==
    ASSUME NEW r, NEW q, RouterFields(r), NEW H \in [Slots -> 0..r.n_dst],
           Counted(r, H), NEW a, NEW w, Added(q, r, a, w)
    PROVE  Counted(q, H)
  <1>1. r.n_dst \in Nat
    BY EntryTypes
  <1>2. {c \in Slots : H[c] = r.n_dst + 1} = {}
    BY <1>1
  <1>3. Cardinality({c \in Slots : H[c] = r.n_dst + 1}) = 0
    BY <1>2, FS_EmptySet
  <1>4. q.dst[r.n_dst + 1].conns = 0
    BY DEF Added, NewDst
  <1>5. ASSUME NEW i \in 1..q.n_dst
        PROVE  q.dst[i].conns = Cardinality({c \in Slots : H[c] = i})
    <2>1. i \in 1..r.n_dst \/ i = r.n_dst + 1
      BY <1>1 DEF Added
    <2> QED BY <1>3, <1>4, <2>1 DEF Added, Counted
  <1> QED BY <1>5 DEF Counted, Added

\* What the slots hold after entry i of n has gone and the last one has moved.
Without(H, i, n) ==
    [c \in Slots |-> IF H[c] = i THEN 0 ELSE IF H[c] = n THEN i ELSE H[c]]

\* The count of the entry that goes is taken off that of the router.
LEMMA RemoveCounts ==
    ASSUME NEW r, NEW q, RouterFields(r), NEW H \in [Slots -> 0..r.n_dst],
           Counted(r, H), NEW i \in 1..r.n_dst, Removed(q, r, i)
    PROVE  Counted(q, Without(H, i, r.n_dst))
  <1> DEFINE n == r.n_dst
             G == Without(H, i, n)
             held == {c \in Slots : H[c] = i}
             rest == {c \in Slots : G[c] # 0}
  <1>1. n \in Nat /\ i \in Nat /\ i # 0
    BY EntryTypes
  <1>2. {c \in Slots : H[c] # 0} = held \cup rest /\ held \cap rest = {}
    BY <1>1 DEF Without
  <1>3. /\ Cardinality(held \cup rest) = Cardinality(held) + Cardinality(rest)
        /\ Cardinality(held) \in Nat /\ Cardinality(rest) \in Nat
    <2>1. IsFiniteSet(held) /\ IsFiniteSet(rest)
      BY SlotSets
    <2>2. Cardinality(held) \in Nat /\ Cardinality(rest) \in Nat
      BY <2>1, FS_CardinalityType
    <2>3. Cardinality(held \cup rest)
             = Cardinality(held) + Cardinality(rest) - Cardinality(held \cap rest)
      BY <2>1, FS_Union
    <2>4. Cardinality(held \cap rest) = 0
      BY <1>2, FS_EmptySet
    <2> HIDE DEF held, rest
    <2> QED BY <2>2, <2>3, <2>4
  <1>4. q.conns = Cardinality(rest)
    <2>1. q.conns = r.conns - r.dst[i].conns
      BY DEF Removed
    <2>2. r.conns = Cardinality(held \cup rest) /\ r.dst[i].conns = Cardinality(held)
      BY Zenon, <1>2 DEF Counted
    <2> HIDE DEF held, rest
    <2> QED BY <1>3, <2>1, <2>2
  <1>5. ASSUME NEW j \in 1..q.n_dst
        PROVE  q.dst[j].conns = Cardinality({c \in Slots : G[c] = j})
    <2>1. j \in 1..(n - 1) /\ j # n /\ j # 0 /\ j \in 1..n /\ n \in 1..n
      BY <1>1 DEF Removed
    <2>2. CASE j = i
      <3>1. {c \in Slots : G[c] = j} = {c \in Slots : H[c] = n}
        BY <1>1, <2>1, <2>2 DEF Without
      <3> QED BY <2>1, <2>2, <3>1 DEF Removed, Counted
    <2>3. CASE j # i
      <3>1. {c \in Slots : G[c] = j} = {c \in Slots : H[c] = j}
        BY <1>1, <2>1, <2>3 DEF Without
      <3> QED BY <2>1, <2>3, <3>1 DEF Removed, Counted
    <2> QED BY <2>2, <2>3
  <1> QED BY <1>4, <1>5 DEF Counted

-----------------------------------------------------------------------------
(* What a step does to the slots and to the counts                         *)

\* The changer, if there is one, is after the same change as before.
ChangerSame ==
    /\ changer'.addr = changer.addr /\ changer'.i = changer.i
    /\ changer'.pc = "idle" <=> changer.pc = "idle"

\* No slot changes, and no count.
Quiet ==
    /\ SameTable(router', router) /\ UNCHANGED <<st, ptr, peer>>
    /\ admitted' => admitted \/ router.conns < cnf.max_conn

\* Slot c takes entry i. A synchronous connect in glbd has been admitted.
Joins(c, i) ==
    /\ st[c] \in {"idle", "again"} /\ i \in 1..router.n_dst
    /\ ConnsMoved(router', router, i, 1)
    /\ \/ Become(c, "connecting", i, NoAddr)
       \/ Become(c, "open", 0, router.dst[i].addr)
    /\ \/ ~cnf.glbd \/ ~cnf.synchronous \/ st[c] = "again"
       \/ admitted /\ ~admitted'

\* Slot c, connected, remembers the address; libglb forgets about it.
Arrives(c) ==
    /\ st[c] = "connecting" /\ router' = router /\ admitted' = admitted
    /\ IF cnf.glbd THEN Become(c, "open", 0, router.dst[ptr[c]].addr)
                   ELSE Become(c, "idle", 0, NoAddr)

\* Slot c gives its entry back, and takes another one or none.
FailsOver(c) ==
    /\ st[c] = "connecting" /\ admitted' = admitted
    /\ \E f : /\ RouterFields(f) /\ ConnsMoved(f, router, ptr[c], -1)
              /\ \/ SameTable(router', f) /\ Become(c, "idle", 0, NoAddr)
                 \/ \E i \in 1..router.n_dst :
                       ConnsMoved(router', f, i, 1) /\ Become(c, "connecting", i, NoAddr)

\* Slot c gives its connection back, if it is still counted.
Leaves(c) ==
    /\ st[c] = "open" /\ admitted' = admitted
    /\ IF Lookup(router, peer[c]) = 0 THEN router' = router
       ELSE ConnsMoved(router', router, Lookup(router, peer[c]), -1)
    /\ \/ Become(c, "idle", 0, NoAddr)
       \/ Become(c, "again", 0, NoAddr) /\ ~cnf.synchronous

\* Slot c has found no other destination.
GivesUp(c) ==
    /\ st[c] = "again" /\ admitted' = admitted
    /\ SameTable(router', router) /\ Become(c, "idle", 0, NoAddr)

\* An entry comes or goes while nobody is connecting, or gets another weight.
Changes(i, a, w) ==
    /\ UNCHANGED <<st, ptr, peer>> /\ admitted' = admitted
    /\ \E e : /\ SameTable(router', e)
              /\ \/ /\ Added(e, router, a, w) /\ Connecting = {}
                    /\ \A j \in 1..router.n_dst : router.dst[j].addr # a
                    /\ \/ ReaddBusy
                       \/ \A c \in Slots : ~(st[c] = "open" /\ peer[c] = a)
                 \/ i \in 1..router.n_dst /\ Removed(e, router, i) /\ Connecting = {}
                 \/ Reweighed(e, router, i)

\* While glb_router_change_dst() waits to add a destination, nobody gets a
\* connection to it.
ReaddKnown ==
    ~ReaddBusy /\ changer.pc # "idle" /\ changer.i = 0 =>
        \A c \in Slots : ~(st[c] = "open" /\ peer[c] = changer.addr)

\* Every step is one of these.
StepKind ==
    /\ cnf' = cnf /\ RouterFields(router')
    /\ \/ Quiet /\ (ChangerSame \/ ReaddKnown')
       \/ \E c \in Slots, i \in Nat : Joins(c, i) /\ ChangerSame
       \/ \E c \in Slots : /\ Arrives(c) \/ FailsOver(c) \/ Leaves(c) \/ GivesUp(c)
                           /\ ChangerSame
       \/ \E i, a, w : Changes(i, a, w) /\ changer'.pc = "idle"

\* A signal changes nothing of what the changer knows.
LEMMA SignalSame ==
    ASSUME IndInv,
           \/ changer' = changer
           \/ changer' = [changer EXCEPT !.pc = "woken"] /\ changer.pc = "waiting"
           \/ SignalFree
    PROVE  ChangerSame
  <1>1. \/ changer' = changer
        \/ changer' = [changer EXCEPT !.pc = "woken"] /\ changer.pc = "waiting"
    BY Zenon DEF SignalFree
  <1>2. changer \in ChangerType
    BY DEF IndInv, TypeOK
  <1>3. CASE changer' = changer
    BY <1>3 DEF ChangerSame
  <1>4. CASE changer' = [changer EXCEPT !.pc = "woken"] /\ changer.pc = "waiting"
    BY <1>2, <1>4 DEF ChangerType, ChangerSame
  <1> QED BY <1>1, <1>3, <1>4

\* The check of max_conn, a wakeup, the clock, and no step at all.
LEMMA QuietKind ==
    IndInv /\ (Admit \/ SocketFails \/ SpuriousWakeup \/ Tick \/ UNCHANGED vars) => StepKind
  <1> SUFFICES ASSUME IndInv, Admit \/ SocketFails \/ SpuriousWakeup \/ Tick \/ UNCHANGED vars
               PROVE  StepKind
    OBVIOUS
  <1>1. router' = router /\ cnf' = cnf /\ UNCHANGED <<st, ptr, peer>>
    BY DEF Admit, SocketFails, SpuriousWakeup, Tick, vars, slotVars
  <1>2. admitted' => admitted \/ router.conns < cnf.max_conn
    BY Zenon DEF Admit, SocketFails, SpuriousWakeup, Tick, vars, BelowMaxConn
  <1>3. \/ changer' = changer
        \/ changer' = [changer EXCEPT !.pc = "woken"] /\ changer.pc = "waiting"
    BY Zenon DEF Admit, SocketFails, SpuriousWakeup, Tick, vars
  <1>4. RouterFields(router') /\ SameTable(router', router)
    BY <1>1, SameTableReflexive DEF IndInv, TypeOK
  <1>5. ChangerSame
    BY <1>3, SignalSame
  <1>6. Quiet
    BY <1>1, <1>2, <1>4, Zenon DEF Quiet
  <1> QED BY <1>1, <1>4, <1>5, <1>6, Zenon DEF StepKind

\* What a choice does to the counts, with the address it stands for.
LEMMA ChoiceMoves ==
    ASSUME NEW r, RouterFields(r), NEW t \in Nat, NEW c, NEW p \in router_choose_dst(r, t, c)
    PROVE  /\ RouterFields(p.router)
           /\ p.i = 0 => SameTable(p.router, r)
           /\ p.i # 0 => /\ p.i \in 1..r.n_dst /\ p.i \in Nat
                         /\ ConnsMoved(p.router, r, p.i, 1)
                         /\ p.router.dst[p.i].addr = r.dst[p.i].addr
  <1>1. CountedChoice(p, r)
    BY ChooseCounts
  <1>2. /\ RouterFields(p.router) /\ SameAddresses(p.router, r)
        /\ p.i # 0 => p.i \in 1..r.n_dst /\ p.i \in Nat
    BY ChoiceAddresses
  <1> QED BY <1>1, <1>2 DEF CountedChoice, SameAddresses

\* glb_router_choose_dst() finds a destination or none.
LEMMA ChooseAsyncKind == \A c \in Slots : IndInv /\ ChooseAsync(c) => StepKind
  <1> SUFFICES ASSUME NEW c \in Slots, IndInv, ChooseAsync(c)
               PROVE  StepKind
    OBVIOUS
  <1>1. PICK p \in router_choose_dst(router, now, c) :
          /\ router' = p.router
          /\ IF p.i = 0 THEN UNCHANGED slotVars
             ELSE Become(c, "open", 0, p.router.dst[p.i].addr)
    BY DEF ChooseAsync
  <1>2. /\ RouterFields(router')
        /\ p.i = 0 => SameTable(router', router)
        /\ p.i # 0 => /\ p.i \in 1..router.n_dst /\ p.i \in Nat
                      /\ ConnsMoved(router', router, p.i, 1)
                      /\ p.router.dst[p.i].addr = router.dst[p.i].addr
    BY Zenon, <1>1, ChoiceMoves DEF IndInv, TypeOK
  <1>3. cnf' = cnf /\ changer' = changer /\ st[c] = "idle"
    BY DEF ChooseAsync
  <1>4. ~cnf.synchronous /\ ~admitted'
    BY Zenon DEF ChooseAsync
  <1>5. ChangerSame
    BY <1>3, SignalSame
  <1>6. CASE p.i = 0
    <2>1. Quiet
      BY <1>1, <1>2, <1>4, <1>6, Zenon DEF Quiet, slotVars
    <2> QED BY <1>2, <1>3, <1>5, <2>1, Zenon DEF StepKind
  <1>7. CASE p.i # 0
    <2>1. Become(c, "open", 0, router.dst[p.i].addr)
      BY <1>1, <1>2, <1>7, Zenon
    <2>2. Joins(c, p.i) /\ p.i \in Nat
      BY <1>2, <1>3, <1>4, <1>7, <2>1, Zenon DEF Joins
    <2> QED BY <1>2, <1>3, <1>5, <2>2, Zenon DEF StepKind
  <1> QED BY <1>6, <1>7

\* router_connect_dst() up to connect().
LEMMA ConnectBeginKind == \A c \in Slots : IndInv /\ ConnectBegin(c) => StepKind
  <1> SUFFICES ASSUME NEW c \in Slots, IndInv, ConnectBegin(c)
               PROVE  StepKind
    OBVIOUS
  <1>1. PICK p \in router_choose_dst(router, now, c) :
          /\ router' = p.router
          /\ IF p.i = 0
             THEN UNCHANGED <<busy_count, slotVars>> /\ SignalFree
             ELSE /\ busy_count' = busy_count + 1
                  /\ Become(c, "connecting", p.i, NoAddr)
                  /\ UNCHANGED changer
    BY DEF ConnectBegin
  <1>2. /\ RouterFields(router')
        /\ p.i = 0 => SameTable(router', router)
        /\ p.i # 0 => /\ p.i \in 1..router.n_dst /\ p.i \in Nat
                      /\ ConnsMoved(router', router, p.i, 1)
    BY <1>1, ChoiceMoves DEF IndInv, TypeOK
  <1>3. cnf' = cnf /\ st[c] = "idle"
    BY DEF ConnectBegin
  <1>4. ~admitted' /\ (~cnf.glbd \/ admitted)
    BY Zenon DEF ConnectBegin
  <1>5. ChangerSame
    BY <1>1, SignalSame
  <1>6. CASE p.i = 0
    <2>1. Quiet
      BY <1>1, <1>2, <1>4, <1>6, Zenon DEF Quiet, slotVars
    <2> QED BY <1>2, <1>3, <1>5, <2>1, Zenon DEF StepKind
  <1>7. CASE p.i # 0
    <2>1. Joins(c, p.i) /\ p.i \in Nat
      BY <1>1, <1>2, <1>3, <1>4, <1>7, Zenon DEF Joins
    <2> QED BY <1>2, <1>3, <1>5, <2>1, Zenon DEF StepKind
  <1> QED BY <1>6, <1>7

\* A connect() that succeeds.
LEMMA ConnectOkKind == \A c \in Slots : IndInv /\ ConnectOk(c) => StepKind
  <1> SUFFICES ASSUME NEW c \in Slots, IndInv, ConnectOk(c)
               PROVE  StepKind
    OBVIOUS
  <1>1. Arrives(c) /\ cnf' = cnf /\ SignalFree /\ router' = router
    BY Zenon DEF ConnectOk, Arrives
  <1>2. ChangerSame /\ RouterFields(router')
    BY <1>1, SignalSame DEF IndInv, TypeOK
  <1> QED BY <1>1, <1>2, Zenon DEF StepKind

\* A connect() that fails.
LEMMA ConnectFailKind == \A c \in Slots : IndInv /\ ConnectFail(c) => StepKind
  <1> SUFFICES ASSUME NEW c \in Slots, IndInv, ConnectFail(c)
               PROVE  StepKind
    OBVIOUS
  <1>1. /\ RouterFields(router) /\ ptr[c] \in 1..router.n_dst /\ now \in Nat
        /\ st[c] = "connecting" /\ cnf' = cnf
    BY DEF ConnectFail, IndInv, TypeOK, PointersInTable
  <1> DEFINE d == CountConn(router, ptr[c], -1)
             Goes(p) == IF p.i = 0
                        THEN Become(c, "idle", 0, NoAddr) /\ SignalFree
                        ELSE Become(c, "connecting", p.i, NoAddr) /\ changer' = changer
  <1>2. PICK f \in router_dst_failed(d, ptr[c], now) :
            \E p \in router_choose_dst(f, now, c) : router' = p.router /\ Goes(p)
    BY DEF ConnectFail
  <1>3. PICK p \in router_choose_dst(f, now, c) : router' = p.router /\ Goes(p)
    BY <1>2
  <1>4. RouterFields(d) /\ ConnsMoved(d, router, ptr[c], -1)
    BY <1>1, CountConnMoves
  <1> HIDE DEF d
  <1>5. ptr[c] \in 1..d.n_dst
    BY <1>1, <1>4 DEF ConnsMoved
  <1>6. RouterFields(f) /\ ConnsMoved(f, router, ptr[c], -1)
    BY <1>1, <1>4, <1>5, DstFailedKeeps, SameAfterMoved
  <1>7. f.n_dst = router.n_dst
    BY <1>6 DEF ConnsMoved
  <1>8. /\ RouterFields(router')
        /\ p.i = 0 => SameTable(router', f)
        /\ p.i # 0 => p.i \in 1..router.n_dst /\ ConnsMoved(router', f, p.i, 1)
    BY <1>1, <1>3, <1>6, <1>7, ChoiceMoves
  <1>9. ChangerSame
    BY <1>3, SignalSame
  <1>10. admitted' = admitted
    BY Zenon DEF ConnectFail
  <1>11. \/ SameTable(router', f) /\ Become(c, "idle", 0, NoAddr)
         \/ \E i \in 1..router.n_dst :
               ConnsMoved(router', f, i, 1) /\ Become(c, "connecting", i, NoAddr)
    BY <1>3, <1>8
  <1>12. FailsOver(c)
    BY <1>1, <1>6, <1>10, <1>11, Zenon DEF FailsOver
  <1> QED BY <1>1, <1>8, <1>9, <1>12, Zenon DEF StepKind

\* glb_router_disconnect(), and the failed half of glb_router_choose_dst_again().
LEMMA DisconnectKind ==
    \A c \in Slots : IndInv /\ (ChooseAgainBegin(c) \/ \E failed \in BOOLEAN : Disconnect(c, failed))
                       => StepKind
  <1> SUFFICES ASSUME NEW c \in Slots, IndInv,
                      ChooseAgainBegin(c) \/ \E failed \in BOOLEAN : Disconnect(c, failed)
               PROVE  StepKind
    OBVIOUS
  <1>1. \E failed \in BOOLEAN : router' \in router_disconnect(router, peer[c], failed, now)
    BY Zenon DEF ChooseAgainBegin, Disconnect
  <1>2. RouterFields(router) /\ now \in Nat
    BY DEF IndInv, TypeOK
  <1>3. /\ RouterFields(router')
        /\ IF Lookup(router, peer[c]) = 0 THEN router' = router
           ELSE ConnsMoved(router', router, Lookup(router, peer[c]), -1)
    BY <1>1, <1>2, DisconnectMoves
  <1>4. cnf' = cnf /\ changer' = changer /\ st[c] = "open"
    BY Zenon DEF ChooseAgainBegin, Disconnect
  <1>5. /\ admitted' = admitted
        /\ \/ Become(c, "idle", 0, NoAddr)
           \/ Become(c, "again", 0, NoAddr) /\ ~cnf.synchronous
    BY Zenon DEF ChooseAgainBegin, Disconnect
  <1>6. ChangerSame
    BY <1>4, SignalSame
  <1>7. Leaves(c)
    BY <1>3, <1>4, <1>5, Zenon DEF Leaves
  <1> QED BY <1>3, <1>4, <1>6, <1>7, Zenon DEF StepKind

\* glb_router_choose_dst_again(), the choice.
LEMMA ChooseAgainEndKind == \A c \in Slots : IndInv /\ ChooseAgainEnd(c) => StepKind
  <1> SUFFICES ASSUME NEW c \in Slots, IndInv, ChooseAgainEnd(c)
               PROVE  StepKind
    OBVIOUS
  <1>1. PICK p \in router_choose_dst(router, now, c) :
          /\ router' = p.router
          /\ IF p.i = 0 THEN Become(c, "idle", 0, NoAddr)
             ELSE Become(c, "open", 0, p.router.dst[p.i].addr)
    BY DEF ChooseAgainEnd
  <1>2. /\ RouterFields(router')
        /\ p.i = 0 => SameTable(router', router)
        /\ p.i # 0 => /\ p.i \in 1..router.n_dst /\ p.i \in Nat
                      /\ ConnsMoved(router', router, p.i, 1)
                      /\ p.router.dst[p.i].addr = router.dst[p.i].addr
    BY <1>1, ChoiceMoves DEF IndInv, TypeOK
  <1>3. cnf' = cnf /\ changer' = changer /\ st[c] = "again"
    BY DEF ChooseAgainEnd
  <1>4. admitted' = admitted
    BY Zenon DEF ChooseAgainEnd
  <1>5. ChangerSame
    BY <1>3, SignalSame
  <1>6. CASE p.i = 0
    <2>1. GivesUp(c)
      BY <1>1, <1>2, <1>3, <1>4, <1>6, Zenon DEF GivesUp
    <2> QED BY <1>2, <1>3, <1>5, <2>1, Zenon DEF StepKind
  <1>7. CASE p.i # 0
    <2>1. Become(c, "open", 0, router.dst[p.i].addr)
      BY <1>1, <1>2, <1>7, Zenon
    <2>2. Joins(c, p.i) /\ p.i \in Nat
      BY <1>2, <1>3, <1>7, <2>1, Zenon DEF Joins
    <2> QED BY <1>2, <1>3, <1>5, <2>2, Zenon DEF StepKind
  <1> QED BY <1>6, <1>7

\* A change of the table that is carried out.
LEMMA ChangeKind ==
    ASSUME IndInv, UNCHANGED <<cnf, busy_count, admitted, st, ptr, peer, now>>,
           NEW i \in 0..router.n_dst, NEW a \in Addrs, NEW w \in Nat \cup {-1},
           i = 0 => /\ w \in Nat
                    /\ \A j \in 1..router.n_dst : router.dst[j].addr # a
                    /\ \/ ReaddBusy
                       \/ \A c \in Slots : ~(st[c] = "open" /\ peer[c] = a),
           i = 0 \/ w < 0 => busy_count = 0,
           router' \in ChangeTable(router, i, a, w, now),
           changer'.pc = "idle"
    PROVE  StepKind
  <1>1. /\ RouterFields(router')
        /\ \/ router' = router
           \/ \E e : /\ SameTable(router', e)
                     /\ \/ i = 0 /\ Added(e, router, a, w)
                        \/ i # 0 /\ w < 0 /\ Removed(e, router, i)
                        \/ i # 0 /\ w >= 0 /\ Reweighed(e, router, i)
    BY ChangeTableChanges DEF IndInv, TypeOK
  <1>2. busy_count = 0 => Connecting = {}
    <2>1. Connecting \subseteq Slots
      BY DEF Connecting
    <2> QED BY Zenon, <2>1, SlotSets DEF IndInv, BusyMatches
  <1>3. i # 0 => i \in 1..router.n_dst
    BY EntryTypes DEF IndInv, TypeOK
  <1>4. CASE router' = router
    <2>1. Quiet
      BY <1>4, SameTableReflexive, Zenon DEF Quiet
    <2>2. ReaddKnown'
      BY Zenon DEF ReaddKnown
    <2> QED BY <1>1, <2>1, <2>2, Zenon DEF StepKind
  <1>5. ASSUME NEW e, SameTable(router', e),
               \/ i = 0 /\ Added(e, router, a, w)
               \/ i # 0 /\ w < 0 /\ Removed(e, router, i)
               \/ i # 0 /\ w >= 0 /\ Reweighed(e, router, i)
        PROVE  StepKind
    <2>1. Changes(i, a, w)
      BY <1>2, <1>3, <1>5, Zenon DEF Changes
    <2> QED BY <1>1, <2>1, Zenon DEF StepKind
  <1> QED BY <1>1, <1>4, <1>5

\* glb_router_change_dst() up to its wait or to its end.
LEMMA ChangeBeginKind ==
    \A a \in Addrs, w \in Weights : IndInv /\ ChangeBegin(a, w) => StepKind
  <1> SUFFICES ASSUME NEW a \in Addrs, NEW w \in Weights, IndInv, ChangeBegin(a, w)
               PROVE  StepKind
    OBVIOUS
  <1> DEFINE i == Lookup(router, a)
  <1>1. /\ RouterFields(router) /\ busy_count \in Int /\ changer.pc = "idle"
    BY DEF ChangeBegin, IndInv, TypeOK
  <1>2. /\ i \in 0..router.n_dst
        /\ i = 0 => \A j \in 1..router.n_dst : router.dst[j].addr # a
    BY <1>1, LookupFinds
  <1>3. /\ UNCHANGED <<cnf, busy_count, admitted, st, ptr, peer, now>>
        /\ w >= 0 \/ i # 0
        /\ \/ i # 0 \/ ReaddBusy
           \/ \A c \in Slots : ~(st[c] = "open" /\ peer[c] = a)
    BY Zenon DEF ChangeBegin, Sane, slotVars
  <1>4. w \in Nat \cup {-1} /\ (i = 0 => w \in Nat)
    BY <1>3, RouterAssumption
  <1>5. CASE MustWait(i, w)
    <2>1. /\ router' = router
          /\ changer' = [pc |-> "waiting", addr |-> a, weight |-> w, i |-> i]
      BY <1>5 DEF ChangeBegin
    <2> HIDE DEF i
    <2>2. changer'.addr = a /\ changer'.i = i
      BY <2>1
    <2>3. ReaddKnown'
      BY <1>3, <2>2, Zenon DEF ReaddKnown
    <2>4. Quiet
      BY <1>3, <2>1, SameTableReflexive, Zenon DEF Quiet
    <2> QED BY <1>1, <1>3, <2>1, <2>3, <2>4, Zenon DEF StepKind
  <1>6. CASE ~MustWait(i, w)
    <2>1. router' \in ChangeTable(router, i, a, w, now) /\ changer' = changer
      BY <1>6 DEF ChangeBegin
    <2> HIDE DEF i
    <2>2. Cardinality(Connecting) \in Nat
      BY SlotSets DEF Connecting
    <2>3. i = 0 \/ w < 0 => busy_count = 0
      BY <1>1, <1>6, <2>2 DEF MustWait, IndInv, BusyMatches
    <2>4. changer'.pc = "idle"
      BY <1>1, <2>1
    <2> QED BY SMTT(30), <1>2, <1>3, <1>4, <2>1, <2>3, <2>4, ChangeKind
  <1> QED BY <1>5, <1>6

\* glb_router_change_dst() after its wait.
LEMMA ChangeResumeKind == IndInv /\ ReaddKnown /\ ChangeResume => StepKind
  <1> SUFFICES ASSUME IndInv, ReaddKnown, ChangeResume
               PROVE  StepKind
    OBVIOUS
  <1>1. /\ RouterFields(router) /\ busy_count \in Int /\ changer \in ChangerType
        /\ changer.pc = "woken"
        /\ UNCHANGED <<cnf, busy_count, admitted, st, ptr, peer, now>>
    BY DEF ChangeResume, IndInv, TypeOK, slotVars
  <1>2. CASE busy_count > 0
    <2>1. changer' = [changer EXCEPT !.pc = "waiting"] /\ router' = router
      BY <1>2, Zenon DEF ChangeResume
    <2>2. ChangerSame
      BY <1>1, <2>1 DEF ChangerType, ChangerSame
    <2>3. Quiet
      BY <1>1, <2>1, SameTableReflexive, Zenon DEF Quiet
    <2> QED BY <1>1, <2>1, <2>2, <2>3, Zenon DEF StepKind
  <1>3. CASE ~(busy_count > 0)
    <2>1. /\ changer' = NoChange
          /\ router' \in ChangeTable(router, changer.i, changer.addr, changer.weight, now)
      BY <1>3 DEF ChangeResume
    <2>2. /\ changer.addr \in Addrs /\ changer.i \in 0..router.n_dst
          /\ changer.weight \in Nat \cup {-1}
          /\ changer.i = 0 =>
                /\ changer.weight \in Nat
                /\ \A j \in 1..router.n_dst : router.dst[j].addr # changer.addr
      BY <1>1 DEF IndInv, ChangerKnows, ChangerType
    <2>3. changer.i = 0 => \/ ReaddBusy
                           \/ \A c \in Slots : ~(st[c] = "open" /\ peer[c] = changer.addr)
      BY <1>1, Zenon DEF ReaddKnown
    <2>4. changer'.pc = "idle"
      BY <2>1 DEF NoChange
    <2>5. busy_count = 0
      <3>1. Cardinality(Connecting) \in Nat
        BY SlotSets DEF Connecting
      <3> QED BY <1>3, <3>1 DEF IndInv, BusyMatches
    <2> QED BY <1>1, <2>1, <2>2, <2>3, <2>4, <2>5, ChangeKind
  <1> QED BY <1>2, <1>3

\* Every step is of one of the kinds.
LEMMA NextKind == IndInv /\ ReaddKnown /\ [Next]_vars => StepKind
  <1> SUFFICES ASSUME IndInv, ReaddKnown, [Next]_vars
               PROVE  StepKind
    OBVIOUS
  <1> QED BY Zenon, QuietKind, ChooseAsyncKind, ConnectBeginKind, ConnectOkKind, ConnectFailKind,
             DisconnectKind, ChooseAgainEndKind, ChangeBeginKind, ChangeResumeKind, Zenon DEF Next

-----------------------------------------------------------------------------
(* Usage                                                                   *)

\* The usage of each entry of r is the one its weight and count give.
Fresh(r) == \A i \in 1..r.n_dst : r.dst[i].usage = router_dst_usage(r.dst[i])

\* Whatever an operation does to the table, it leaves no old usage.
LEMMA FreshKept ==
    ASSUME NEW q, NEW r, RouterFields(r), Fresh(r),
           \/ SameTable(q, r)
           \/ \E i, k : ConnsMoved(q, r, i, k)
           \/ \E i : Reweighed(q, r, i)
           \/ \E a, w : Added(q, r, a, w)
           \/ \E i \in 1..r.n_dst : Removed(q, r, i)
    PROVE  Fresh(q)
  <1>0. r.n_dst \in Nat
    BY EntryTypes
  <1>1. CASE SameTable(q, r)
    BY Zenon, <1>1 DEF SameTable, Fresh, router_dst_usage
  <1>2. CASE \E i, k : ConnsMoved(q, r, i, k)
    <2>1. q.n_dst = r.n_dst
      BY <1>2 DEF ConnsMoved
    <2>2. ASSUME NEW j \in 1..r.n_dst
          PROVE  \/ q.dst[j].usage = router_dst_usage(q.dst[j])
                 \/ /\ q.dst[j].weight = r.dst[j].weight
                    /\ q.dst[j].conns = r.dst[j].conns
                    /\ q.dst[j].usage = r.dst[j].usage
      BY <1>2, Zenon DEF ConnsMoved
    <2> QED BY Zenon, <2>1, <2>2 DEF Fresh, router_dst_usage
  <1>3. CASE \E i : Reweighed(q, r, i)
    BY Zenon, <1>3 DEF Reweighed, Fresh, router_dst_usage
  <1>4. CASE \E a, w : Added(q, r, a, w)
    <2>1. PICK a, w : Added(q, r, a, w)
      BY <1>4
    <2>2. NewDst(a, w).usage = router_dst_usage(NewDst(a, w))
      BY DEF NewDst, router_dst_usage
    <2>3. \A j \in 1..q.n_dst : j = r.n_dst + 1 \/ j \in 1..r.n_dst
      BY <1>0, <2>1 DEF Added
    <2>4. \A j \in 1..q.n_dst : q.dst[j] = NewDst(a, w) \/ (j \in 1..r.n_dst /\ q.dst[j] = r.dst[j])
      BY Zenon, <2>1, <2>3 DEF Added
    <2> QED BY Zenon, <2>2, <2>4 DEF Fresh
  <1>5. CASE \E i \in 1..r.n_dst : Removed(q, r, i)
    <2>1. PICK i \in 1..r.n_dst : Removed(q, r, i)
      BY <1>5
    <2>2. /\ \A j \in 1..q.n_dst : j \in 1..(r.n_dst - 1) /\ j \in 1..r.n_dst
          /\ r.n_dst \in 1..r.n_dst
      BY <1>0, <2>1 DEF Removed
    <2>3. \A j \in 1..q.n_dst : \E l \in 1..r.n_dst : q.dst[j] = r.dst[l]
      BY Zenon, <2>1, <2>2 DEF Removed
    <2> QED BY Zenon, <2>3 DEF Fresh
  <1> QED BY <1>1, <1>2, <1>3, <1>4, <1>5

\* No step leaves an old usage.
LEMMA UsageStep ==
    ASSUME IndInv, IndInv', UsageFresh, StepKind
    PROVE  UsageFresh'
  <1>1. RouterFields(router) /\ Fresh(router)
    BY DEF IndInv, TypeOK, UsageFresh, Fresh
  <1>2. CASE SameTable(router', router) \/ \E i, k : ConnsMoved(router', router, i, k)
    BY <1>1, <1>2, FreshKept DEF UsageFresh, Fresh
  <1>3. ASSUME NEW c \in Slots, FailsOver(c)
        PROVE  UsageFresh'
    <2>1. PICK f : /\ RouterFields(f) /\ ConnsMoved(f, router, ptr[c], -1)
                   /\ \/ SameTable(router', f)
                      \/ \E i, k : ConnsMoved(router', f, i, k)
      BY <1>3, Zenon DEF FailsOver
    <2>2. Fresh(f)
      BY <1>1, <2>1, FreshKept
    <2> QED BY <2>1, <2>2, FreshKept DEF UsageFresh, Fresh
  <1>4. ASSUME NEW i, NEW a, NEW w, Changes(i, a, w)
        PROVE  UsageFresh'
    <2>1. PICK e : /\ SameTable(router', e)
                   /\ \/ Added(e, router, a, w)
                      \/ i \in 1..router.n_dst /\ Removed(e, router, i)
                      \/ Reweighed(e, router, i)
      BY <1>4, Zenon DEF Changes
    <2>2. Fresh(e)
      BY Zenon, <1>1, <2>1, FreshKept
    <2> QED BY <2>1, <2>2 DEF SameTable, Fresh, UsageFresh, router_dst_usage
  <1>5. router' = router => SameTable(router', router)
    BY SameTableReflexive
  <1> QED BY <1>2, <1>3, <1>4, <1>5, Zenon DEF StepKind, Quiet, Joins, Arrives, Leaves, GivesUp

-----------------------------------------------------------------------------
(* Addresses                                                               *)

\* No two entries of r have the same address.
Distinct(r) ==
    \A i, j \in 1..r.n_dst : r.dst[i].addr = r.dst[j].addr => i = j

\* What a step does to the addresses of the table.
LEMMA KindAddresses ==
    ASSUME StepKind
    PROVE  \/ SameAddresses(router', router)
           \/ \E i, a, w : Changes(i, a, w)
  <1>1. CASE SameTable(router', router) \/ \E i, k : ConnsMoved(router', router, i, k)
    BY <1>1, KeepsAddresses
  <1>2. ASSUME NEW c \in Slots, FailsOver(c)
        PROVE  SameAddresses(router', router)
    <2>1. PICK f : /\ ConnsMoved(f, router, ptr[c], -1)
                   /\ \/ SameTable(router', f)
                      \/ \E i, k : ConnsMoved(router', f, i, k)
      BY <1>2, Zenon DEF FailsOver
    <2> QED BY Zenon, <2>1, KeepsAddresses, SameAddressesTransitive
  <1>3. router' = router => SameTable(router', router)
    BY SameTableReflexive
  <1> QED BY <1>1, <1>2, <1>3, Zenon DEF StepKind, Quiet, Joins, Arrives, Leaves, GivesUp

\* No step lets two entries have the same address.
LEMMA DistinctStep ==
    ASSUME IndInv, Distinct(router), StepKind
    PROVE  Distinct(router')
  <1>1. router.n_dst \in Nat
    BY EntryTypes DEF IndInv, TypeOK
  <1>2. CASE SameAddresses(router', router)
    BY <1>2 DEF SameAddresses, Distinct
  <1>3. ASSUME NEW i, NEW a, NEW w, Changes(i, a, w)
        PROVE  Distinct(router')
    <2>1. PICK e : /\ SameTable(router', e)
                   /\ \/ /\ Added(e, router, a, w)
                         /\ \A j \in 1..router.n_dst : router.dst[j].addr # a
                      \/ i \in 1..router.n_dst /\ Removed(e, router, i)
                      \/ Reweighed(e, router, i)
      BY <1>3, Zenon DEF Changes
    <2>2. Distinct(e)
      <3>1. CASE Reweighed(e, router, i)
        BY <3>1 DEF Reweighed, Distinct
      <3>2. CASE /\ Added(e, router, a, w)
                 /\ \A j \in 1..router.n_dst : router.dst[j].addr # a
        <4>1. \A j \in 1..e.n_dst : j = router.n_dst + 1 \/ j \in 1..router.n_dst
          BY <1>1, <3>2 DEF Added
        <4>2. e.dst[router.n_dst + 1].addr = a
          BY <3>2 DEF Added, NewDst
        <4>3. \A j \in 1..router.n_dst : e.dst[j].addr = router.dst[j].addr
          BY <3>2 DEF Added
        <4> QED BY <3>2, <4>1, <4>2, <4>3 DEF Distinct
      <3>3. CASE i \in 1..router.n_dst /\ Removed(e, router, i)
        <4>1. /\ \A j \in 1..e.n_dst : /\ j \in 1..(router.n_dst - 1) /\ j \in 1..router.n_dst
                                        /\ j # router.n_dst
              /\ router.n_dst \in 1..router.n_dst
          BY <1>1, <3>3 DEF Removed
        <4>2. \A j \in 1..e.n_dst : e.dst[j].addr = IF j = i THEN router.dst[router.n_dst].addr
                                                    ELSE router.dst[j].addr
          BY <3>3, <4>1 DEF Removed
        <4> QED BY <4>1, <4>2 DEF Distinct
      <3> QED BY <2>1, <3>1, <3>2, <3>3
    <2> QED BY <2>1, <2>2 DEF SameTable, Distinct
  <1> QED BY <1>2, <1>3, KindAddresses

\* A connection is only ever made to a destination of the table.
LEMMA OpenStep ==
    ASSUME IndInv, StepKind, NEW d \in Slots, st'[d] = "open"
    PROVE  \/ st[d] = "open" /\ peer'[d] = peer[d]
           \/ \E i \in 1..router.n_dst : peer'[d] = router.dst[i].addr
  <1>1. TypeOK /\ \A c \in Slots : st[c] = "connecting" => ptr[c] \in 1..router.n_dst
    BY DEF IndInv, PointersInTable
  <1>2. ASSUME NEW c \in Slots, NEW s \in SlotStates, NEW i \in Nat,
               NEW a \in Addrs \cup {NoAddr}, Become(c, s, i, a),
               s = "open" => \E j \in 1..router.n_dst : a = router.dst[j].addr
        PROVE  \/ st[d] = "open" /\ peer'[d] = peer[d]
               \/ \E j \in 1..router.n_dst : peer'[d] = router.dst[j].addr
    <2>1. /\ st'[c] = s /\ peer'[c] = a
          /\ d # c => st'[d] = st[d] /\ peer'[d] = peer[d]
      BY <1>1, <1>2, BecomeSlot
    <2> QED BY <1>2, <2>1
  <1>3. /\ 0 \in Nat /\ NoAddr \in Addrs \cup {NoAddr}
        /\ {"idle", "connecting", "open", "again"} \subseteq SlotStates
        /\ \A j \in 1..router.n_dst : j \in Nat /\ router.dst[j].addr \in Addrs \cup {NoAddr}
    BY <1>1, EntryTypes, DstFields DEF SlotStates, TypeOK
  <1>4. CASE UNCHANGED <<st, ptr, peer>>
    BY <1>4
  <1>5. ASSUME NEW c \in Slots, NEW i \in Nat, Joins(c, i)
        PROVE  \/ st[d] = "open" /\ peer'[d] = peer[d]
               \/ \E j \in 1..router.n_dst : peer'[d] = router.dst[j].addr
    BY <1>2, <1>3, <1>5 DEF Joins
  <1>6. ASSUME NEW c \in Slots, Arrives(c) \/ FailsOver(c) \/ Leaves(c) \/ GivesUp(c)
        PROVE  \/ st[d] = "open" /\ peer'[d] = peer[d]
               \/ \E j \in 1..router.n_dst : peer'[d] = router.dst[j].addr
    <2>1. \/ Become(c, "open", 0, router.dst[ptr[c]].addr) /\ ptr[c] \in 1..router.n_dst
          \/ Become(c, "idle", 0, NoAddr)
          \/ Become(c, "again", 0, NoAddr)
          \/ \E i \in 1..router.n_dst : Become(c, "connecting", i, NoAddr)
      BY <1>1, <1>6, Zenon DEF Arrives, FailsOver, Leaves, GivesUp
    <2> QED BY <1>2, <1>3, <2>1
  <1> QED BY <1>4, <1>5, <1>6, Zenon DEF StepKind, Quiet, Changes

\* Nobody gets a connection to what is about to be added.
LEMMA ReaddStep ==
    ASSUME IndInv, ReaddKnown, StepKind
    PROVE  ReaddKnown'
  <1>1. CASE ChangerSame
    <2> SUFFICES ASSUME ~ReaddBusy, changer'.pc # "idle", changer'.i = 0, NEW c \in Slots,
                        st'[c] = "open"
                 PROVE  peer'[c] # changer'.addr
      BY Zenon DEF ReaddKnown
    <2>1. changer.pc # "idle" /\ changer.i = 0 /\ changer'.addr = changer.addr
      BY <1>1 DEF ChangerSame
    <2>2. \A j \in 1..router.n_dst : router.dst[j].addr # changer.addr
      BY <2>1 DEF IndInv, ChangerKnows
    <2>3. st[c] = "open" => peer[c] # changer.addr
      BY <2>1, Zenon DEF ReaddKnown
    <2> QED BY <2>1, <2>2, <2>3, OpenStep
  <1>2. CASE changer'.pc = "idle"
    BY <1>2, Zenon DEF ReaddKnown
  <1> QED BY <1>1, <1>2, Zenon DEF StepKind

-----------------------------------------------------------------------------
(* Connections                                                             *)

\* The entry that each slot counts against, 0 for none.
Hold == [c \in Slots |-> IF st[c] = "connecting" THEN ptr[c]
                         ELSE IF st[c] = "open" THEN Lookup(router, peer[c]) ELSE 0]

\* A slot holds an entry of the table or none.
LEMMA HoldType ==
    ASSUME IndInv
    PROVE  Hold \in [Slots -> 0..router.n_dst]
  <1>1. RouterFields(router) /\ 0 \in 0..router.n_dst
    BY EntryTypes DEF IndInv, TypeOK
  <1>2. ASSUME NEW c \in Slots
        PROVE  /\ st[c] = "connecting" => ptr[c] \in 0..router.n_dst
               /\ Lookup(router, peer[c]) \in 0..router.n_dst
    BY <1>1, EntryTypes, LookupFinds DEF IndInv, PointersInTable
  <1> QED BY <1>1, <1>2 DEF Hold

\* The search depends on the addresses only.
LEMMA LookupSame ==
    ASSUME NEW q, NEW r, SameAddresses(q, r), NEW a
    PROVE  Lookup(q, a) = Lookup(r, a)
  <1> DEFINE found(x) == {i \in 1..x.n_dst : x.dst[i].addr = a}
             pick(S) == IF S = {} THEN 0 ELSE CHOOSE i \in S : TRUE
  <1>1. found(q) = found(r)
    BY DEF SameAddresses
  <1>2. Lookup(q, a) = pick(found(q)) /\ Lookup(r, a) = pick(found(r))
    BY DEF Lookup
  <1> HIDE DEF found, pick
  <1> QED BY <1>1, <1>2

\* There is one entry to find.
LEMMA LookupIs ==
    ASSUME NEW r, RouterFields(r), Distinct(r), NEW j \in 1..r.n_dst
    PROVE  Lookup(r, r.dst[j].addr) = j
  <1>1. /\ Lookup(r, r.dst[j].addr) \in 0..r.n_dst
        /\ Lookup(r, r.dst[j].addr) # 0
        /\ r.dst[Lookup(r, r.dst[j].addr)].addr = r.dst[j].addr
    BY LookupFinds
  <1>2. Lookup(r, r.dst[j].addr) \in 1..r.n_dst
    BY <1>1, EntryTypes
  <1> QED BY <1>1, <1>2 DEF Distinct

\* What a slot is about to hold.
HoldIn(s, i, a) ==
    IF s = "connecting" THEN i ELSE IF s = "open" THEN Lookup(router, a) ELSE 0

\* When one slot changes, the others hold what they held.
LEMMA HoldStep ==
    ASSUME IndInv, SameAddresses(router', router), NEW c \in Slots, NEW s \in SlotStates,
           NEW i \in Nat, NEW a \in Addrs \cup {NoAddr}, Become(c, s, i, a)
    PROVE  Hold' = [Hold EXCEPT ![c] = HoldIn(s, i, a)]
  <1>1. /\ st'[c] = s /\ ptr'[c] = i /\ peer'[c] = a
        /\ \A d \in Slots : d # c =>
              st'[d] = st[d] /\ ptr'[d] = ptr[d] /\ peer'[d] = peer[d]
    BY BecomeSlot DEF IndInv
  <1>2. \A b : Lookup(router', b) = Lookup(router, b)
    BY LookupSame
  <1>3. Hold' = [d \in Slots |-> IF st'[d] = "connecting" THEN ptr'[d]
                                 ELSE IF st'[d] = "open" THEN Lookup(router', peer'[d]) ELSE 0]
    BY DEF Hold
  <1>4. ASSUME NEW d \in Slots
        PROVE  Hold'[d] = IF d = c THEN HoldIn(s, i, a) ELSE Hold[d]
    <2>1. Hold'[d] = IF st'[d] = "connecting" THEN ptr'[d]
                     ELSE IF st'[d] = "open" THEN Lookup(router', peer'[d]) ELSE 0
      BY Zenon, <1>3
    <2>2. CASE d = c
      BY Zenon, <1>1, <1>2, <2>1, <2>2 DEF HoldIn
    <2>3. CASE d # c
      <3>1. Hold[d] = IF st[d] = "connecting" THEN ptr[d]
                      ELSE IF st[d] = "open" THEN Lookup(router, peer[d]) ELSE 0
        BY Zenon DEF Hold
      <3>2. Hold'[d] = Hold[d]
        BY Zenon, <1>1, <1>2, <2>1, <2>3, <3>1
      <3> QED BY Zenon, <2>3, <3>2
    <2> QED BY Zenon, <2>2, <2>3
  <1>5. Hold' = [d \in Slots |-> Hold'[d]]
    BY <1>3
  <1>6. [Hold EXCEPT ![c] = HoldIn(s, i, a)]
           = [d \in Slots |-> IF d = c THEN HoldIn(s, i, a) ELSE Hold[d]]
    BY Zenon DEF Hold
  <1> QED BY <1>4, <1>5, <1>6

\* When no slot changes, all hold what they held.
LEMMA HoldSame ==
    ASSUME SameAddresses(router', router), UNCHANGED <<st, ptr, peer>>
    PROVE  Hold' = Hold
  <1>1. \A b : Lookup(router', b) = Lookup(router, b)
    BY LookupSame
  <1> QED BY <1>1 DEF Hold

\* The counts are those of the slots.
CountsMatch == Counted(router, Hold)

\* A slot that takes an entry.
LEMMA JoinsCount ==
    ASSUME IndInv, Distinct(router), CountsMatch, cnf.glbd,
           NEW c \in Slots, NEW i \in Nat, Joins(c, i)
    PROVE  CountsMatch'
  <1>1. RouterFields(router) /\ i \in 1..router.n_dst
    BY DEF IndInv, TypeOK, Joins
  <1>2. SameAddresses(router', router) /\ ConnsMoved(router', router, i, 1)
    BY KeepsAddresses DEF Joins
  <1>3. /\ NoAddr \in Addrs \cup {NoAddr} /\ router.dst[i].addr \in Addrs \cup {NoAddr}
        /\ "connecting" \in SlotStates /\ "open" \in SlotStates /\ 0 \in Nat
    BY <1>1, EntryTypes, DstFields DEF SlotStates
  <1>4. Hold[c] = 0
    BY DEF Joins, Hold
  <1>5. HoldIn("connecting", i, NoAddr) = i /\ HoldIn("open", 0, router.dst[i].addr) = i
    BY <1>1, LookupIs DEF HoldIn
  <1>6. Hold' = [Hold EXCEPT ![c] = i]
    <2>1. CASE Become(c, "connecting", i, NoAddr)
      <3>1. Hold' = [Hold EXCEPT ![c] = HoldIn("connecting", i, NoAddr)]
        BY SMTT(30), <1>2, <1>3, <2>1, HoldStep
      <3> QED BY Zenon, <1>5, <3>1
    <2>2. CASE Become(c, "open", 0, router.dst[i].addr)
      <3>1. Hold' = [Hold EXCEPT ![c] = HoldIn("open", 0, router.dst[i].addr)]
        BY SMTT(30), <1>2, <1>3, <2>2, HoldStep
      <3> QED BY Zenon, <1>5, <3>1
    <2> QED BY Zenon, <2>1, <2>2 DEF Joins
  <1>7. Counted(router', [Hold EXCEPT ![c] = i])
    BY Zenon, <1>1, <1>2, <1>4, HoldType, JoinCounts DEF CountsMatch
  <1> QED BY <1>6, <1>7 DEF CountsMatch

\* A slot that remembers the address of its entry holds the same entry.
LEMMA ArrivesCount ==
    ASSUME IndInv, Distinct(router), CountsMatch, cnf.glbd, NEW c \in Slots, Arrives(c)
    PROVE  CountsMatch'
  <1>1. RouterFields(router) /\ ptr[c] \in 1..router.n_dst /\ Hold[c] = ptr[c]
    BY DEF IndInv, TypeOK, PointersInTable, Arrives, Hold
  <1>2. router' = router /\ Become(c, "open", 0, router.dst[ptr[c]].addr)
    BY Zenon DEF Arrives
  <1>3. router.dst[ptr[c]].addr \in Addrs \cup {NoAddr} /\ "open" \in SlotStates /\ 0 \in Nat
    BY <1>1, EntryTypes, DstFields DEF SlotStates
  <1>4. HoldIn("open", 0, router.dst[ptr[c]].addr) = Hold[c]
    BY <1>1, LookupIs DEF HoldIn
  <1>5. SameAddresses(router', router)
    BY <1>2, KeepsAddresses
  <1>6. Hold' = [Hold EXCEPT ![c] = Hold[c]]
    BY <1>2, <1>3, <1>4, <1>5, HoldStep
  <1>7. Hold' = Hold
    BY <1>6, HoldType
  <1> QED BY <1>2, <1>7 DEF CountsMatch

\* A slot whose connect() has failed gives back, and may take another entry.
LEMMA FailsOverCount ==
    ASSUME IndInv, CountsMatch, cnf.glbd, NEW c \in Slots, FailsOver(c)
    PROVE  CountsMatch'
  <1> DEFINE H == Hold
             G == [H EXCEPT ![c] = 0]
  <1>1. /\ RouterFields(router) /\ router.n_dst \in Nat
        /\ ptr[c] \in 1..router.n_dst /\ Hold[c] = ptr[c]
    BY EntryTypes DEF IndInv, TypeOK, PointersInTable, FailsOver, Hold
  <1>2. PICK f : /\ RouterFields(f) /\ ConnsMoved(f, router, ptr[c], -1)
                 /\ \/ SameTable(router', f) /\ Become(c, "idle", 0, NoAddr)
                    \/ \E i \in 1..router.n_dst :
                          ConnsMoved(router', f, i, 1) /\ Become(c, "connecting", i, NoAddr)
    BY Zenon DEF FailsOver
  <1>3. SameAddresses(f, router) /\ f.n_dst = router.n_dst
    <2>1. SameAddresses(f, router)
      BY Zenon, <1>2, KeepsAddresses
    <2> QED BY Zenon, <2>1 DEF SameAddresses
  <1>4. H \in [Slots -> 0..router.n_dst] /\ H = Hold /\ Counted(router, H)
    BY HoldType DEF CountsMatch
  <1> HIDE DEF H
  <1>5. Counted(f, G)
    BY Zenon, <1>1, <1>2, <1>4, LeaveCounts
  <1>6. G \in [Slots -> 0..f.n_dst] /\ G[c] = 0
    BY <1>1, <1>3, <1>4
  <1>7. /\ NoAddr \in Addrs \cup {NoAddr} /\ 0 \in Nat
        /\ "idle" \in SlotStates /\ "connecting" \in SlotStates
    BY DEF SlotStates
  <1>8. CASE SameTable(router', f) /\ Become(c, "idle", 0, NoAddr)
    <2>1. SameAddresses(router', router)
      BY <1>3, <1>8, KeepsAddresses, SameAddressesTransitive
    <2>2. Hold' = [Hold EXCEPT ![c] = HoldIn("idle", 0, NoAddr)]
      BY <1>7, <1>8, <2>1, HoldStep
    <2>3. Hold' = G
      BY <1>4, <2>2 DEF HoldIn
    <2>4. Counted(router', G)
      BY <1>5, <1>8, KeepCounts
    <2> QED BY <2>3, <2>4 DEF CountsMatch
  <1>9. ASSUME NEW i \in 1..router.n_dst, ConnsMoved(router', f, i, 1),
               Become(c, "connecting", i, NoAddr)
        PROVE  CountsMatch'
    <2>1. SameAddresses(router', router)
      BY <1>3, <1>9, KeepsAddresses, SameAddressesTransitive
    <2>2. i \in Nat
      BY <1>1
    <2>3. Hold' = [Hold EXCEPT ![c] = HoldIn("connecting", i, NoAddr)]
      BY <1>7, <1>9, <2>1, <2>2, HoldStep
    <2>4. Hold' = [G EXCEPT ![c] = i]
      BY <1>4, <2>3 DEF HoldIn
    <2> HIDE DEF G
    <2>5. Counted(router', [G EXCEPT ![c] = i])
      BY Zenon, <1>2, <1>3, <1>5, <1>6, <1>9, JoinCounts
    <2> QED BY <2>4, <2>5 DEF CountsMatch
  <1> QED BY <1>2, <1>8, <1>9

\* A slot that ends, or that starts over.
LEMMA LeavesCount ==
    ASSUME IndInv, CountsMatch, cnf.glbd, NEW c \in Slots, Leaves(c) \/ GivesUp(c)
    PROVE  CountsMatch'
  <1> DEFINE i == Hold[c]
  <1>1. /\ RouterFields(router) /\ router.n_dst \in Nat
        /\ Hold \in [Slots -> 0..router.n_dst] /\ i \in 0..router.n_dst
    BY HoldType, EntryTypes DEF IndInv, TypeOK
  <1>2. IF i = 0 THEN SameTable(router', router) ELSE ConnsMoved(router', router, i, -1)
    <2>1. CASE Leaves(c)
      <3>1. i = Lookup(router, peer[c])
        BY <2>1 DEF Leaves, Hold
      <3>2. CASE i = 0
        <4>1. router' = router
          BY Zenon, <2>1, <3>1, <3>2 DEF Leaves
        <4> QED BY Zenon, <3>2, <4>1, SameTableReflexive
      <3>3. CASE i # 0
        <4>1. ConnsMoved(router', router, i, -1)
          BY Zenon, <2>1, <3>1, <3>3 DEF Leaves
        <4> QED BY Zenon, <3>3, <4>1
      <3> HIDE DEF i
      <3> QED BY Zenon, <3>2, <3>3
    <2>2. CASE GivesUp(c)
      <3>1. i = 0
        BY <2>2 DEF GivesUp, Hold
      <3> QED BY <2>2, <3>1 DEF GivesUp
    <2> QED BY <2>1, <2>2
  <1>3. SameAddresses(router', router)
    BY <1>2, KeepsAddresses
  <1>4. /\ NoAddr \in Addrs \cup {NoAddr} /\ 0 \in Nat
        /\ "idle" \in SlotStates /\ "again" \in SlotStates
        /\ HoldIn("idle", 0, NoAddr) = 0 /\ HoldIn("again", 0, NoAddr) = 0
    BY DEF SlotStates, HoldIn
  <1>5. Become(c, "idle", 0, NoAddr) \/ Become(c, "again", 0, NoAddr)
    BY Zenon DEF Leaves, GivesUp
  <1>6. Hold' = [Hold EXCEPT ![c] = 0]
    BY <1>3, <1>4, <1>5, HoldStep
  <1>7. CASE i = 0
    <2>1. [Hold EXCEPT ![c] = 0] = Hold
      BY <1>1, <1>7
    <2>2. Counted(router', Hold)
      BY <1>2, <1>7, KeepCounts DEF CountsMatch
    <2> QED BY Zenon, <1>6, <2>1, <2>2 DEF CountsMatch
  <1>8. CASE i # 0
    <2>1. i \in 1..router.n_dst
      BY <1>1, <1>8
    <2>2. Counted(router', [Hold EXCEPT ![c] = 0])
      BY Zenon, <1>1, <1>2, <1>8, <2>1, LeaveCounts DEF CountsMatch
    <2> QED BY <1>6, <2>2 DEF CountsMatch
  <1> QED BY <1>7, <1>8

\* Where an address is that occurs once, and that it is nowhere otherwise.
LEMMA LookupAt ==
    ASSUME NEW r, RouterFields(r), Distinct(r), NEW b, NEW j \in 1..r.n_dst, r.dst[j].addr = b
    PROVE  Lookup(r, b) = j
  BY LookupIs

LEMMA LookupNone ==
    ASSUME NEW r, RouterFields(r), NEW b, \A j \in 1..r.n_dst : r.dst[j].addr # b
    PROVE  Lookup(r, b) = 0
  <1> DEFINE k == Lookup(r, b)
  <1>1. k \in 0..r.n_dst /\ (k # 0 => r.dst[k].addr = b) /\ r.n_dst \in Nat
    BY LookupFinds, EntryTypes
  <1> HIDE DEF k
  <1>2. k # 0 => k \in 1..r.n_dst
    BY <1>1
  <1>3. k = 0
    BY <1>1, <1>2
  <1> QED BY <1>3 DEF k

\* An address is found or it is in no entry.
LEMMA LookupCases ==
    ASSUME NEW r, RouterFields(r), NEW b
    PROVE  \/ Lookup(r, b) = 0 /\ \A j \in 1..r.n_dst : r.dst[j].addr # b
           \/ \E j \in 1..r.n_dst : Lookup(r, b) = j /\ r.dst[j].addr = b
  <1> DEFINE k == Lookup(r, b)
  <1>1. /\ k \in 0..r.n_dst /\ (k # 0 => r.dst[k].addr = b) /\ r.n_dst \in Nat
        /\ k = 0 => \A j \in 1..r.n_dst : r.dst[j].addr # b
    BY LookupFinds, EntryTypes
  <1> HIDE DEF k
  <1>2. k # 0 => k \in 1..r.n_dst
    BY <1>1
  <1>3. \/ k = 0 /\ \A j \in 1..r.n_dst : r.dst[j].addr # b
        \/ \E j \in 1..r.n_dst : k = j /\ r.dst[j].addr = b
    BY <1>1, <1>2
  <1> QED BY Zenon, <1>3 DEF k

\* The addresses of q are those of r and a.
OneMore(q, r, a) ==
    /\ \A j \in 1..q.n_dst : j \in 1..r.n_dst \/ q.dst[j].addr = a
    /\ \A j \in 1..r.n_dst : j \in 1..q.n_dst /\ q.dst[j].addr = r.dst[j].addr

\* The addresses of q are those of r without entry i, whose place has entry n.
OneLess(q, r, i, n) ==
    /\ n = r.n_dst /\ n \in 1..n /\ 0 \notin 1..n /\ i \in 1..n
    /\ \A j \in 1..q.n_dst :
          /\ j \in 1..n /\ j # n
          /\ q.dst[j].addr = IF j = i THEN r.dst[n].addr ELSE r.dst[j].addr
    /\ \A j \in 1..n : j # n => j \in 1..q.n_dst

\* Where the addresses are in q: but for a, as in r; with entry n of r at i.
FoundBut(q, r, a) == \A b : b # a => Lookup(q, b) = Lookup(r, b)

FoundLess(q, r, i, n) ==
    \A b : Lookup(q, b) = LET k == Lookup(r, b)
                          IN  IF k = i THEN 0 ELSE IF k = n THEN i ELSE k

\* An address that is not the one added is where it was.
LEMMA LookupAdded ==
    ASSUME NEW r, NEW q, RouterFields(r), RouterFields(q), Distinct(q),
           NEW a, OneMore(q, r, a)
    PROVE  FoundBut(q, r, a)
  <1> USE DEF OneMore
  <1> SUFFICES ASSUME NEW b, b # a PROVE Lookup(q, b) = Lookup(r, b)
    BY Zenon DEF FoundBut
  <1>1. CASE Lookup(r, b) = 0 /\ \A j \in 1..r.n_dst : r.dst[j].addr # b
    <2>1. \A j \in 1..q.n_dst : q.dst[j].addr # b
      BY <1>1
    <2> QED BY <1>1, <2>1, LookupNone
  <1>2. ASSUME NEW j \in 1..r.n_dst, Lookup(r, b) = j, r.dst[j].addr = b
        PROVE  Lookup(q, b) = Lookup(r, b)
    <2>1. j \in 1..q.n_dst /\ q.dst[j].addr = b
      BY <1>2
    <2> QED BY <1>2, <2>1, LookupAt
  <1> QED BY Zenon, <1>1, <1>2, LookupCases

\* After entry i is removed and the last one, n, has taken its place.
LEMMA LookupRemoved ==
    ASSUME NEW r, NEW q, RouterFields(r), RouterFields(q), Distinct(r), Distinct(q),
           NEW n, NEW i, OneLess(q, r, i, n)
    PROVE  FoundLess(q, r, i, n)
  <1> USE DEF OneLess
  <1> SUFFICES ASSUME NEW b
               PROVE  Lookup(q, b) = LET k == Lookup(r, b)
                                     IN  IF k = i THEN 0 ELSE IF k = n THEN i ELSE k
    BY Zenon DEF FoundLess
  <1>1. CASE Lookup(r, b) = 0 /\ \A j \in 1..r.n_dst : r.dst[j].addr # b
    <2>1. \A j \in 1..q.n_dst : q.dst[j].addr # b
      BY <1>1
    <2>2. Lookup(q, b) = 0
      BY <2>1, LookupNone
    <2> QED BY <1>1, <2>2
  <1>2. ASSUME NEW k \in 1..n, Lookup(r, b) = k, r.dst[k].addr = b
        PROVE  Lookup(q, b) = IF k = i THEN 0 ELSE IF k = n THEN i ELSE k
    <2>0. \A j \in 1..n : r.dst[j].addr = b => j = k
      BY <1>2 DEF Distinct
    <2>1. CASE k = i
      <3>1. \A j \in 1..q.n_dst : q.dst[j].addr # b
        BY <2>0, <2>1
      <3>2. Lookup(q, b) = 0
        BY <3>1, LookupNone
      <3> QED BY <2>1, <3>2
    <2>2. CASE k # i /\ k = n
      <3>1. i \in 1..q.n_dst /\ q.dst[i].addr = b
        BY <1>2, <2>2
      <3>2. Lookup(q, b) = i
        BY <3>1, LookupAt
      <3> QED BY <2>2, <3>2
    <2>3. CASE k # i /\ k # n
      <3>1. k \in 1..q.n_dst /\ q.dst[k].addr = b
        BY <1>2, <2>3
      <3>2. Lookup(q, b) = k
        BY <3>1, LookupAt
      <3> QED BY <2>3, <3>2
    <2> QED BY <2>1, <2>2, <2>3
  <1>3. ASSUME NEW k \in 1..n, Lookup(r, b) = k, r.dst[k].addr = b
        PROVE  Lookup(q, b) = LET l == Lookup(r, b)
                              IN  IF l = i THEN 0 ELSE IF l = n THEN i ELSE l
    BY Zenon, <1>2, <1>3
  <1>4. r.n_dst = n
    OBVIOUS
  <1> QED BY Zenon, <1>1, <1>3, <1>4, LookupCases

\* The slots hold what they held after an entry has been added.
LEMMA AddedHold ==
    ASSUME IndInv, RouterFields(router'), Distinct(router'), UNCHANGED <<st, ptr, peer>>,
           NEW e, SameTable(router', e), NEW a, NEW w, Added(e, router, a, w),
           Connecting = {}, \A c \in Slots : ~(st[c] = "open" /\ peer[c] = a)
    PROVE  Hold' = Hold
  <1>1. RouterFields(router) /\ router.n_dst \in Nat
    BY Zenon, EntryTypes DEF IndInv, TypeOK
  <1>2. OneMore(router', router, a)
    <2> DEFINE n == router.n_dst
    <2>1. /\ e.n_dst = n + 1 /\ e.dst[n + 1].addr = a
          /\ \A j \in 1..n : e.dst[j] = router.dst[j]
      <3>1. NewDst(a, w).addr = a
        BY Zenon DEF NewDst
      <3> QED BY Zenon, <3>1 DEF Added
    <2>2. /\ router'.n_dst = n + 1
          /\ \A j \in 1..(n + 1) : router'.dst[j].addr = e.dst[j].addr
      BY Zenon, <2>1 DEF SameTable
    <2> HIDE DEF n
    <2>3. \A j \in 1..(n + 1) : j \in 1..n \/ j = n + 1
      BY <1>1 DEF n
    <2>4. \A j \in 1..n : j \in 1..(n + 1)
      BY <1>1 DEF n
    <2>5. \A j \in 1..(n + 1) : j \in 1..n \/ router'.dst[j].addr = a
      BY Zenon, <2>1, <2>2, <2>3
    <2>6. \A j \in 1..n : j \in 1..(n + 1) /\ router'.dst[j].addr = router.dst[j].addr
      BY Zenon, <2>1, <2>2, <2>4
    <2> QED BY Zenon, <2>2, <2>5, <2>6 DEF OneMore, n
  <1>3. FoundBut(router', router, a)
    BY Zenon, <1>1, <1>2, LookupAdded
  <1>4. \A c \in Slots : st[c] = "open" => Lookup(router', peer[c]) = Lookup(router, peer[c])
    BY Zenon, <1>3 DEF FoundBut
  <1> QED BY <1>4 DEF Hold

\* What the slots hold after an entry has been removed.
LEMMA RemovedHold ==
    ASSUME IndInv, RouterFields(router'), Distinct(router), Distinct(router'),
           UNCHANGED <<st, ptr, peer>>, NEW e, SameTable(router', e),
           NEW i \in 1..router.n_dst, Removed(e, router, i), Connecting = {}
    PROVE  Hold' = Without(Hold, i, router.n_dst)
  <1> DEFINE n == router.n_dst
  <1>1. RouterFields(router) /\ n \in Nat /\ n \in 1..n /\ 0 \notin 1..n /\ i # 0
    <2>1. RouterFields(router) /\ n \in Nat
      BY Zenon, EntryTypes DEF IndInv, TypeOK
    <2> QED BY Zenon, <2>1, LastPosition
  <1>2. OneLess(router', router, i, n)
    <2>1. /\ e.n_dst = n - 1
          /\ \A j \in 1..(n - 1) : e.dst[j] = IF j = i THEN router.dst[n] ELSE router.dst[j]
      BY Zenon DEF Removed
    <2>2. /\ router'.n_dst = n - 1
          /\ \A j \in 1..(n - 1) : router'.dst[j].addr = e.dst[j].addr
      BY Zenon, <2>1 DEF SameTable
    <2>3. \A j \in 1..(n - 1) :
             router'.dst[j].addr = IF j = i THEN router.dst[n].addr ELSE router.dst[j].addr
      BY Zenon, <2>1, <2>2
    <2>4. /\ \A j \in 1..(n - 1) : j \in 1..n /\ j # n
          /\ \A j \in 1..n : j # n => j \in 1..(n - 1)
      BY Zenon, <1>1, EarlierPositions
    <2> QED BY Zenon, <1>1, <2>2, <2>3, <2>4 DEF OneLess
  <1>4. FoundLess(router', router, i, n)
    BY Zenon, <1>1, <1>2, LookupRemoved
  <1>5. ASSUME NEW c \in Slots
        PROVE  Hold'[c] = IF Hold[c] = i THEN 0 ELSE IF Hold[c] = n THEN i ELSE Hold[c]
    <2>1. st[c] # "connecting"
      BY DEF Connecting
    <2>2. CASE st[c] = "open"
      <3>1. Hold[c] = Lookup(router, peer[c]) /\ Hold'[c] = Lookup(router', peer[c])
        BY <2>1, <2>2 DEF Hold
      <3> QED BY Zenon, <1>4, <3>1 DEF FoundLess
    <2>3. CASE st[c] # "open"
      <3>1. Hold[c] = 0 /\ Hold'[c] = 0
        BY <2>1, <2>3 DEF Hold
      <3>2. n # 0
        BY <1>1
      <3> QED BY <1>1, <3>1, <3>2
    <2> QED BY <2>2, <2>3
  <1>6. Hold' = [c \in Slots |-> Hold'[c]]
    BY Zenon DEF Hold
  <1> QED BY Zenon, <1>5, <1>6 DEF Without

\* A change of the table takes off the router's count what nobody will give back.
LEMMA ChangesCount ==
    ASSUME IndInv, IndInv', Distinct(router), Distinct(router'), CountsMatch, ~ReaddBusy,
           NEW i, NEW a, NEW w, Changes(i, a, w)
    PROVE  CountsMatch'
  <1>1. /\ RouterFields(router) /\ RouterFields(router')
        /\ Hold \in [Slots -> 0..router.n_dst] /\ Counted(router, Hold)
    BY HoldType DEF IndInv, TypeOK, CountsMatch
  <1>2. PICK e :
          /\ SameTable(router', e)
          /\ \/ /\ Added(e, router, a, w) /\ Connecting = {}
                /\ \A c \in Slots : ~(st[c] = "open" /\ peer[c] = a)
             \/ i \in 1..router.n_dst /\ Removed(e, router, i) /\ Connecting = {}
             \/ Reweighed(e, router, i)
    BY Zenon DEF Changes
  <1>3. UNCHANGED <<st, ptr, peer>>
    BY DEF Changes
  <1>4. CASE /\ Added(e, router, a, w) /\ Connecting = {}
             /\ \A c \in Slots : ~(st[c] = "open" /\ peer[c] = a)
    <2>1. Hold' = Hold
      BY Zenon, <1>1, <1>2, <1>3, <1>4, AddedHold
    <2>2. Counted(router', Hold)
      BY Zenon, <1>1, <1>2, <1>4, AddCounts, KeepCounts
    <2> QED BY Zenon, <2>1, <2>2 DEF CountsMatch
  <1>5. CASE i \in 1..router.n_dst /\ Removed(e, router, i) /\ Connecting = {}
    <2>1. Hold' = Without(Hold, i, router.n_dst)
      BY Zenon, <1>1, <1>2, <1>3, <1>5, RemovedHold
    <2>2. Counted(router', Without(Hold, i, router.n_dst))
      <3>1. Counted(e, Without(Hold, i, router.n_dst))
        BY Zenon, <1>1, <1>5, RemoveCounts
      <3> QED BY Zenon, <1>2, <3>1, KeepCounts
    <2> QED BY Zenon, <2>1, <2>2 DEF CountsMatch
  <1>6. CASE Reweighed(e, router, i)
    <2>1. SameAddresses(router', router)
      BY Zenon, <1>2, <1>6, KeepsAddresses, SameAddressesTransitive
    <2>2. Hold' = Hold
      BY Zenon, <1>3, <2>1, HoldSame
    <2>3. Counted(router', Hold)
      <3>1. Counted(e, Hold)
        BY Zenon, <1>1, <1>6, KeepCounts
      <3> QED BY Zenon, <1>2, <3>1, KeepCounts
    <2> QED BY Zenon, <2>2, <2>3 DEF CountsMatch
  <1> QED BY Zenon, <1>2, <1>4, <1>5, <1>6

\* No step leaves a wrong count.
LEMMA CountStep ==
    ASSUME IndInv, IndInv', Distinct(router), Distinct(router'), CountsMatch, cnf.glbd,
           ~ReaddBusy, StepKind
    PROVE  CountsMatch'
  <1>1. CASE Quiet
    <2>1. SameTable(router', router) /\ UNCHANGED <<st, ptr, peer>>
      BY <1>1 DEF Quiet
    <2>2. Hold' = Hold
      BY <2>1, KeepsAddresses, HoldSame
    <2>3. Counted(router', Hold)
      BY <2>1, KeepCounts DEF CountsMatch
    <2> QED BY <2>2, <2>3 DEF CountsMatch
  <1> QED BY <1>1, JoinsCount, ArrivesCount, FailsOverCount, LeavesCount, ChangesCount, Zenon
          DEF StepKind

\* The counts of the slots are those of the property.
LEMMA CountsAccounted ==
    ASSUME IndInv, Distinct(router), CountsMatch
    PROVE  ConnsAccounted
  <1>1. /\ RouterFields(router) /\ router.n_dst \in Nat
        /\ Hold \in [Slots -> 0..router.n_dst]
        /\ \A c \in Slots : st[c] = "connecting" => ptr[c] \in 1..router.n_dst
    BY HoldType, EntryTypes DEF IndInv, TypeOK, PointersInTable
  <1>2. ASSUME NEW i \in 1..router.n_dst
        PROVE  Holders(i) = {c \in Slots : Hold[c] = i}
    <2>1. i # 0
      BY <1>1
    <2>2. \A c \in Slots : peer[c] = router.dst[i].addr => Lookup(router, peer[c]) = i
      BY Zenon, <1>1, LookupIs
    <2>3. \A c \in Slots : Lookup(router, peer[c]) = i => peer[c] = router.dst[i].addr
      BY Zenon, <1>1, <2>1, LookupFinds
    <2> QED BY <2>1, <2>2, <2>3 DEF Holders, Hold
  <1>3. UNION {Holders(i) : i \in 1..router.n_dst} = {c \in Slots : Hold[c] # 0}
    <2>1. \A c \in Slots : Hold[c] # 0 <=> \E i \in 1..router.n_dst : Hold[c] = i
      <3>1. \A c \in Slots : Hold[c] \in 0..router.n_dst
        BY Zenon, <1>1
      <3> QED BY Zenon, <1>1, <3>1, Position, LastPosition
    <2>2. \A i \in 1..router.n_dst : \A c : c \in Holders(i) <=> c \in Slots /\ Hold[c] = i
      BY Zenon, <1>2
    <2>3. \A c : c \in UNION {Holders(i) : i \in 1..router.n_dst}
               <=> \E i \in 1..router.n_dst : c \in Holders(i)
      BY Zenon
    <2>4. \A c : c \in UNION {Holders(i) : i \in 1..router.n_dst} <=> c \in Slots /\ Hold[c] # 0
      BY Zenon, <2>1, <2>2, <2>3
    <2> QED BY Zenon, <2>4
  <1> QED BY <1>2, <1>3 DEF CountsMatch, Counted, ConnsAccounted

-----------------------------------------------------------------------------
(* max_conn                                                                *)

\* There is room for the connection that has been admitted, and nobody
\* reconnects behind the listener's back.
Limit ==
    cnf.glbd /\ cnf.synchronous =>
        /\ router.conns <= cnf.max_conn
        /\ admitted => router.conns < cnf.max_conn
        /\ \A c \in Slots : st[c] # "again"

\* No step but an admitted connect() adds to the connections.
LEMMA LimitStep ==
    ASSUME IndInv, IndInv', CountsMatch, Limit, cnf.glbd, StepKind
    PROVE  Limit'
  <1> SUFFICES ASSUME cnf.synchronous
               PROVE  /\ router'.conns <= cnf.max_conn
                      /\ admitted' => router'.conns < cnf.max_conn
                      /\ \A c \in Slots : st'[c] # "again"
    BY Zenon DEF Limit, StepKind
  <1>1. /\ router.conns \in Int /\ router'.conns \in Int /\ cnf.max_conn \in Nat
        /\ router.n_dst \in Nat /\ TypeOK /\ RouterFields(router)
    BY Zenon, EntryTypes DEF IndInv, TypeOK, RouterFields, CnfType
  <1>2. /\ router.conns <= cnf.max_conn
        /\ admitted => router.conns < cnf.max_conn
        /\ \A c \in Slots : st[c] # "again"
    BY Zenon DEF Limit
  <1>3. ASSUME NEW c \in Slots, NEW s \in SlotStates, NEW i \in Nat,
               NEW a \in Addrs \cup {NoAddr}, Become(c, s, i, a), s # "again"
        PROVE  \A d \in Slots : st'[d] # "again"
    BY Zenon, <1>1, <1>2, <1>3, BecomeSlot
  <1>4. /\ 0 \in Nat /\ NoAddr \in Addrs \cup {NoAddr}
        /\ {"idle", "connecting", "open"} \subseteq SlotStates
        /\ \A j \in 1..router.n_dst : j \in Nat /\ router.dst[j].addr \in Addrs \cup {NoAddr}
    BY <1>1, EntryTypes, DstFields DEF SlotStates
  <1>5. CASE Quiet
    <2>1. router'.conns = router.conns /\ st' = st
      BY <1>5 DEF Quiet, SameTable
    <2>2. admitted' => admitted \/ router.conns < cnf.max_conn
      BY <1>5, Zenon DEF Quiet
    <2> QED BY <1>2, <2>1, <2>2, Zenon
  <1>6. ASSUME NEW c \in Slots, NEW i \in Nat, Joins(c, i)
        PROVE  /\ router'.conns <= cnf.max_conn /\ ~admitted'
               /\ \A d \in Slots : st'[d] # "again"
    <2>1. admitted /\ ~admitted'
      BY <1>2, <1>6, Zenon DEF Joins
    <2>2. router.conns < cnf.max_conn
      BY <1>2, <2>1, Zenon
    <2>3. router'.conns = router.conns + 1
      BY <1>6, Zenon DEF Joins, ConnsMoved
    <2>4. \A d \in Slots : st'[d] # "again"
      BY <1>3, <1>4, <1>6 DEF Joins
    <2>5. router'.conns <= cnf.max_conn
      BY <1>1, <2>2, <2>3
    <2> QED BY <2>1, <2>4, <2>5, Zenon
  <1>7. ASSUME NEW c \in Slots, Arrives(c) \/ FailsOver(c) \/ Leaves(c) \/ GivesUp(c)
        PROVE  router'.conns <= router.conns /\ \A d \in Slots : st'[d] # "again"
    <2>1. \/ router'.conns = router.conns
          \/ router'.conns = router.conns + (-1)
          \/ router'.conns = (router.conns + (-1)) + 1
      <3>1. CASE FailsOver(c)
        BY <3>1, Zenon DEF FailsOver, ConnsMoved, SameTable
      <3>2. CASE Arrives(c) \/ Leaves(c) \/ GivesUp(c)
        BY <3>2, Zenon DEF Arrives, Leaves, GivesUp, ConnsMoved, SameTable
      <3> QED BY <1>7, <3>1, <3>2
    <2>2. router'.conns <= router.conns
      BY <1>1, <2>1
    <2>3. \/ \E a \in Addrs \cup {NoAddr} : Become(c, "open", 0, a)
          \/ Become(c, "idle", 0, NoAddr)
          \/ \E i \in 1..router.n_dst : Become(c, "connecting", i, NoAddr)
      <3>1. st[c] = "connecting" => router.dst[ptr[c]].addr \in Addrs \cup {NoAddr}
        BY <1>4 DEF IndInv, PointersInTable
      <3> QED BY <1>7, <3>1, Zenon DEF Arrives, FailsOver, Leaves, GivesUp
    <2>4. \A d \in Slots : st'[d] # "again"
      BY <1>3, <1>4, <2>3
    <2> QED BY <2>2, <2>4
  <1>8. ASSUME NEW i, NEW a, NEW w, Changes(i, a, w)
        PROVE  router'.conns <= router.conns /\ st' = st
    <2>1. PICK e : /\ SameTable(router', e)
                   /\ \/ Added(e, router, a, w)
                      \/ i \in 1..router.n_dst /\ Removed(e, router, i)
                      \/ Reweighed(e, router, i)
      BY <1>8, Zenon DEF Changes
    <2>2. router'.conns = e.conns /\ st' = st
      <3>1. UNCHANGED <<st, ptr, peer>>
        BY Zenon, <1>8 DEF Changes
      <3>2. router'.conns = e.conns
        BY Zenon, <2>1 DEF SameTable
      <3> QED BY <3>1, <3>2
    <2>3. CASE Added(e, router, a, w) \/ Reweighed(e, router, i)
      <3>1. e.conns = router.conns
        BY Zenon, <2>3 DEF Added, Reweighed
      <3> QED BY <1>1, <2>2, <3>1
    <2>4. CASE i \in 1..router.n_dst /\ Removed(e, router, i)
      <3>1. router.dst[i].conns \in Nat
        BY Zenon, <2>4, SlotSets DEF CountsMatch, Counted
      <3>2. e.conns = router.conns - router.dst[i].conns
        BY <2>4 DEF Removed
      <3> QED BY <1>1, <2>2, <3>1, <3>2
    <2> QED BY <2>1, <2>3, <2>4
  <1>9. ASSUME router'.conns <= router.conns, admitted' = admitted
        PROVE  /\ router'.conns <= cnf.max_conn
               /\ admitted' => router'.conns < cnf.max_conn
    <2>1. /\ router'.conns <= cnf.max_conn
          /\ router.conns < cnf.max_conn => router'.conns < cnf.max_conn
      BY <1>1, <1>2, <1>9
    <2> QED BY <1>2, <1>9, <2>1, Zenon
  <1>10. \A c \in Slots : (Arrives(c) \/ FailsOver(c) \/ Leaves(c) \/ GivesUp(c))
            => admitted' = admitted
    BY Zenon DEF Arrives, FailsOver, Leaves, GivesUp
  <1>11. \A i, a, w : Changes(i, a, w) => admitted' = admitted
    BY Zenon DEF Changes
  <1> QED BY <1>2, <1>5, <1>6, <1>7, <1>8, <1>9, <1>10, <1>11, Zenon DEF StepKind

-----------------------------------------------------------------------------
(* The theorems                                                            *)

\* What makes the counts inductive, beyond IndInv.
CountInv ==
    /\ UsageFresh /\ Distinct(router) /\ ReaddKnown
    /\ cnf.glbd /\ ~ReaddBusy => CountsMatch /\ Limit

\* glb_router_create() leaves nothing to count.
LEMMA InitCountInv == Init => CountInv
  <1> SUFFICES ASSUME Init PROVE CountInv
    OBVIOUS
  <1>1. /\ router.n_dst = 0 /\ router.conns = 0 /\ changer.pc = "idle"
        /\ \A c \in Slots : st[c] = "idle"
    BY DEF Init, NoChange
  <1>2. UsageFresh /\ Distinct(router) /\ ReaddKnown
    BY <1>1 DEF UsageFresh, Distinct, ReaddKnown
  <1>3. \A c \in Slots : Hold[c] = 0
    BY <1>1 DEF Hold
  <1>4. {c \in Slots : Hold[c] # 0} = {}
    BY <1>3
  <1>5. CountsMatch
    BY <1>1, <1>4, FS_EmptySet DEF CountsMatch, Counted
  <1>6. ~admitted
    BY Zenon DEF Init
  <1>7. cnf.max_conn \in Nat
    BY RouterAssumption DEF Init, CnfType
  <1>8. router.conns <= cnf.max_conn
    BY <1>1, <1>7
  <1>9. \A c \in Slots : st[c] # "again"
    BY <1>1
  <1>10. Limit
    BY <1>6, <1>8, <1>9, Zenon DEF Limit
  <1> QED BY <1>2, <1>5, <1>10, Zenon DEF CountInv

\* Every step keeps the counts.
LEMMA NextCountInv == IndInv /\ IndInv' /\ CountInv /\ [Next]_vars => CountInv'
  <1> SUFFICES ASSUME IndInv, IndInv', CountInv, [Next]_vars
               PROVE  CountInv'
    OBVIOUS
  <1>1. StepKind /\ cnf' = cnf
    BY NextKind DEF CountInv, StepKind
  <1>2. UsageFresh' /\ Distinct(router') /\ ReaddKnown'
    BY <1>1, UsageStep, DistinctStep, ReaddStep DEF CountInv
  <1>3. ASSUME cnf.glbd, ~ReaddBusy
        PROVE  CountsMatch' /\ Limit'
    <2>1. Distinct(router) /\ CountsMatch /\ Limit
      BY <1>3, Zenon DEF CountInv
    <2> QED BY <1>1, <1>2, <1>3, <2>1, CountStep, LimitStep
  <1> QED BY <1>1, <1>2, <1>3, Zenon DEF CountInv

\* The counts are right in every state the program can reach.
LEMMA CountInvariance == Spec => [](IndInv /\ CountInv)
  <1>1. IndInv /\ CountInv /\ [Next]_vars => IndInv' /\ CountInv'
    BY NextOK, StutterOK, NextCountInv DEF StepOK
  <1> QED BY <1>1, InitIndInv, InitCountInv, PTL DEF Spec

\* "Least connected" never chooses by an old quotient: router_dst_usage() is
\* called wherever a weight or a count changes.
THEOREM UsageIsFresh == Spec => []UsageFresh
  BY CountInvariance, PTL DEF CountInv

\* The connection counts of glbd are exact, as long as no address comes back
\* while connections made before its removal are still open.
THEOREM CountsExact == Spec => [](~ReaddBusy => ConnsAccounted)
  <1>1. IndInv /\ CountInv => (~ReaddBusy => ConnsAccounted)
    <2> SUFFICES ASSUME IndInv, CountInv, ~ReaddBusy
                 PROVE  ConnsAccounted
      OBVIOUS
    <2>1. CASE cnf.glbd
      <3>1. Distinct(router) /\ CountsMatch
        BY <2>1, Zenon DEF CountInv
      <3> QED BY <3>1, CountsAccounted
    <2>2. CASE ~cnf.glbd
      BY <2>2, Zenon DEF ConnsAccounted
    <2> QED BY <2>1, <2>2
  <1> QED BY <1>1, CountInvariance, PTL

\* With synchronous connects glbd never has more than max_conn connections,
\* though glb_router_connect() checks the limit without the lock.
THEOREM LimitKept == Spec => [](~ReaddBusy => MaxConnRespected)
  <1>1. CountInv => (~ReaddBusy => MaxConnRespected)
    BY Zenon DEF CountInv, Limit, MaxConnRespected
  <1> QED BY <1>1, CountInvariance, PTL
=============================================================================

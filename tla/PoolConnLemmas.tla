--------------------------- MODULE PoolConnLemmas ---------------------------
(***************************************************************************)
(* What the operations of PoolConn do to a pool, for any number of         *)
(* connections, descriptors and addresses and any size of the buffers.     *)
(*                                                                         *)
(* The first half is about the connections, their descriptors and their    *)
(* addresses: the invariant Good, and that data and events do not touch    *)
(* it. The second is about the data: buffers that are in order, and the    *)
(* events that a connection waits for.                                     *)
(***************************************************************************)
EXTENDS PoolConn, TLAPS

\* A condition as a number.
N(b) == IF b THEN 1 ELSE 0

\* The socket of an end in pool p.
Sk(p, c, s) == p.conn[c].end[s].sock

\* The connection is the pool's or on its way to it.
IsLive(p, c) == p.conn[c].stage # "free"

\* The router counts connection c for address a.
Holds(p, c, a) == IsLive(p, c) /\ p.conn[c].addr = a

\* The sockets of a connection.
Ends(p, c) == IF IsLive(p, c) THEN {Sk(p, c, "inc"), Sk(p, c, "dst")} \ {NoFD} ELSE {}

\* What MapMatches says, of the connections S.
Mapped(p, S) ==
    /\ \A c \in S : /\ p.route_map[Sk(p, c, "inc")] = <<c, "dst">>
                    /\ p.route_map[Sk(p, c, "dst")] = <<c, "inc">>
    /\ \A f \in FDs : p.route_map[f] # <<>> => \E c \in S : f \in Ends(p, c)
    /\ \A f \in FDs : p.epoll[f] = Off <=> p.route_map[f] = <<>>
    /\ p.n_conns = Cardinality(S) /\ p.fd_max = 1 + 2 * p.n_conns

\* What SocketsAccounted says.
Sockets(p) ==
    /\ \A f \in FDs : f \in p.open <=> \E c \in Conns : f \in Ends(p, c)
    /\ \A c, d \in Conns : c # d => Ends(p, c) \cap Ends(p, d) = {}
    /\ \A c \in Conns : IsLive(p, c) => Sk(p, c, "inc") # Sk(p, c, "dst")

\* What RouterBalanced says.
Balanced(p) ==
    \A a \in Addrs : p.taken[a] = Cardinality({c \in Conns : Holds(p, c, a)})

\* Only open sockets are known to be connected, and not that of a destination
\* whose connect is in progress.
Known(p) ==
    /\ p.established \subseteq p.open
    /\ \A c \in Conns : IsLive(p, c) /\ ~p.conn[c].complete =>
                         Sk(p, c, "dst") \notin p.established

\* All that is used of cardinalities: how one changes with one connection.
Counting ==
    \A A, B \in SUBSET Conns, c \in Conns :
        (\A d \in Conns : d # c => (d \in A <=> d \in B)) =>
            /\ Cardinality(A) \in Nat
            /\ Cardinality(B) = Cardinality(A) + N(c \in B) - N(c \in A)

\* The pool is in order when it serves the connections S. Inside a handler S is
\* not what the stages say: a connection may be off its descriptors for a while.
\* Counting holds of all finite sets and is proved in PoolConnProofs; it is kept
\* here so that only that module needs the theorems on finite sets.
Good(p, S) ==
    /\ Counting
    /\ p \in PoolType
    /\ S \subseteq Conns
    /\ \A c \in Conns : IsLive(p, c) => p.conn[c].addr \in Addrs /\ Sk(p, c, "inc") \in FDs
    /\ \A c \in S : IsLive(p, c) /\ Sk(p, c, "dst") \in FDs
    /\ Mapped(p, S) /\ Sockets(p) /\ Balanced(p) /\ Known(p)

\* All of a connection that is not its data and its events is the same.
SameView(p, q, d) ==
    /\ q.conn[d].stage = p.conn[d].stage /\ q.conn[d].addr = p.conn[d].addr
    /\ q.conn[d].complete = p.conn[d].complete
    /\ Sk(q, d, "inc") = Sk(p, d, "inc") /\ Sk(q, d, "dst") = Sk(p, d, "dst")

-----------------------------------------------------------------------------
(* The variables other than the pool                                       *)

\* The part of the variables that is not the pool's.
EventsOK ==
    /\ batch \in [FDs -> SUBSET RW] /\ current \in FDs \cup {NoFD}
    /\ ctl \in BOOLEAN /\ crashed \in BOOLEAN /\ shutdown \in BOOLEAN

\* They have their types at first.
LEMMA InitEvents == Init => EventsOK
BY Zenon DEF Init, NoEvents, EventsOK

\* They keep them.
LEMMA NextEvents ==
    ASSUME EventsOK, [Next]_vars
    PROVE  EventsOK'
<1>1. CASE UNCHANGED vars
  BY <1>1 DEF EventsOK, vars
<1>2. ASSUME NEW c \in Conns, AddConn(c) PROVE EventsOK'
  BY <1>2 DEF EventsOK, AddConn
<1>3. CASE pool_fds_wait
  BY <1>3 DEF EventsOK, pool_fds_wait
<1>4. NoEvents \in [FDs -> SUBSET RW]
  BY DEF NoEvents
<1>5. ASSUME Crash PROVE EventsOK'
  BY Zenon, <1>4, <1>5 DEF Crash, EventsOK
<1>6. ASSUME NEW fd \in FDs, HandleRead(fd) PROVE EventsOK'
  <2>1. \/ Crash
        \/ /\ \/ batch' = NoEvents /\ current' = NoFD /\ ctl' = FALSE
              \/ /\ batch' = [batch EXCEPT ![fd] = @ \ {"R"}]
                 /\ current' = IF "W" \in batch[fd] THEN fd ELSE NoFD
                 /\ UNCHANGED ctl
           /\ UNCHANGED <<crashed, shutdown>>
    BY Zenon, <1>6 DEF HandleRead
  <2>2. batch[fd] \ {"R"} \in SUBSET RW
    BY DEF EventsOK
  <2> QED BY Zenon, <1>4, <1>5, <2>1, <2>2 DEF EventsOK
<1>7. ASSUME NEW fd \in FDs, HandleWrite(fd) PROVE EventsOK'
  <2>1. \/ Crash
        \/ /\ batch' = [batch EXCEPT ![fd] = {}] /\ current' = NoFD
           /\ UNCHANGED <<ctl, crashed, shutdown>>
    BY Zenon, <1>7 DEF HandleWrite
  <2> QED BY <1>5, <2>1 DEF EventsOK
<1>8. ASSUME NEW R, Command(R), shutdown' \in BOOLEAN PROVE EventsOK'
  BY Zenon, <1>4, <1>8 DEF Command, EventsOK
<1>9. ASSUME NEW c \in Conns, HandleAddConn(c) PROVE EventsOK'
  <2>1. Command(pool_handle_add_conn(pool, c)) /\ shutdown' \in BOOLEAN
    BY Zenon, <1>9 DEF HandleAddConn, EventsOK
  <2> QED BY <1>8, <2>1
<1>10. ASSUME NEW a \in Addrs, HandleDropDst(a) PROVE EventsOK'
  <2>1. Command(pool_handle_drop_dst(pool, a)) /\ shutdown' \in BOOLEAN
    BY Zenon, <1>10 DEF HandleDropDst, EventsOK
  <2> QED BY <1>8, <2>1
<1>11. CASE HandleStats
  <2>1. Command({pool}) /\ shutdown' \in BOOLEAN
    BY Zenon, <1>11 DEF HandleStats, EventsOK
  <2> QED BY <1>8, <2>1
<1>12. CASE HandleShutdown
  <2>1. Command(pool_handle_shutdown(pool)) /\ shutdown' \in BOOLEAN
    BY <1>12 DEF HandleShutdown
  <2> QED BY <1>8, <2>1
<1> QED BY Zenon, <1>1, <1>2, <1>3, <1>6, <1>7, <1>9, <1>10, <1>11, <1>12 DEF Next

-----------------------------------------------------------------------------
(* Pools, and a step of one connection                                    *)

\* Each end is the other's other.
LEMMA OtherSides == Other("inc") = "dst" /\ Other("dst") = "inc"
  BY DEF Other, Sides

\* How a cardinality changes with one connection.
LEMMA CardMoves ==
    ASSUME Counting, NEW A \in SUBSET Conns, NEW B \in SUBSET Conns, NEW c \in Conns,
           \A d \in Conns : d # c => (d \in A <=> d \in B)
    PROVE  /\ Cardinality(A) \in Nat
           /\ Cardinality(B) = Cardinality(A) + N(c \in B) - N(c \in A)
BY DEF Counting

\* What the fields of a pool are.
LEMMA PoolFields ==
    ASSUME NEW p \in PoolType
    PROVE  /\ p.conn \in [Conns -> ConnType]
           /\ p.route_map \in [FDs -> (Conns \X Sides) \cup {<<>>}]
           /\ p.epoll \in [FDs -> (SUBSET RW) \cup {Off}]
           /\ p.n_conns \in Nat /\ p.fd_max \in Nat
           /\ p.open \in SUBSET FDs /\ p.established \in SUBSET FDs
           /\ p.broken \in SUBSET FDs /\ p.taken \in [Addrs -> Int]
           /\ \A c \in Conns : /\ p.conn[c] \in ConnType
                               /\ \A s \in Sides : /\ p.conn[c].end[s] \in EndType
                                                   /\ Sk(p, c, s) \in FDs \cup {NoFD}
<1>1. /\ p.conn \in [Conns -> ConnType]
      /\ p.route_map \in [FDs -> (Conns \X Sides) \cup {<<>>}]
      /\ p.epoll \in [FDs -> (SUBSET RW) \cup {Off}]
      /\ p.n_conns \in Nat /\ p.fd_max \in Nat
      /\ p.open \in SUBSET FDs /\ p.established \in SUBSET FDs
      /\ p.broken \in SUBSET FDs /\ p.taken \in [Addrs -> Int]
  BY DEF PoolType
<1>2. ASSUME NEW c \in Conns, NEW s \in Sides
      PROVE  p.conn[c] \in ConnType /\ p.conn[c].end[s] \in EndType
             /\ Sk(p, c, s) \in FDs \cup {NoFD}
  BY <1>1 DEF ConnType, EndType, Sk
<1> QED BY <1>1, <1>2

\* The counters of a pool are numbers.
LEMMA PoolNumbers ==
    ASSUME NEW p \in PoolType
    PROVE  p.n_conns \in Nat /\ p.fd_max \in Nat
  BY DEF PoolType

\* The connections the router counts are numbers.
LEMMA PoolTaken ==
    ASSUME NEW p \in PoolType
    PROVE  p.taken \in [Addrs -> Int]
  BY DEF PoolType

\* The connections of a pool are connections.
LEMMA PoolConns ==
    ASSUME NEW p \in PoolType
    PROVE  p.conn \in [Conns -> ConnType]
  BY DEF PoolType

\* Only connection c changes: the others look the same, and everything kept of the
\* connections follows what c was and what it becomes.
OneStep(p, q, S, T, c) ==
    /\ q \in PoolType /\ T \in SUBSET Conns
    /\ \A d \in Conns : d # c => (d \in S <=> d \in T) /\ SameView(p, q, d)
    /\ IsLive(q, c) => /\ q.conn[c].addr \in Addrs /\ Sk(q, c, "inc") \in FDs
                       /\ Sk(q, c, "inc") # Sk(q, c, "dst")
    /\ c \in T => IsLive(q, c) /\ Sk(q, c, "dst") \in FDs
    /\ \A f \in Ends(q, c) : f \in p.open => f \in Ends(p, c)
    /\ q.open = (p.open \ Ends(p, c)) \cup Ends(q, c)
    /\ c \in T => /\ q.route_map[Sk(q, c, "inc")] = <<c, "dst">>
                  /\ q.route_map[Sk(q, c, "dst")] = <<c, "inc">>
    /\ \A f \in FDs : ~(c \in T /\ f \in Ends(q, c)) =>
           q.route_map[f] = IF c \in S /\ f \in Ends(p, c) THEN <<>> ELSE p.route_map[f]
    /\ \A f \in FDs : q.epoll[f] = Off <=> q.route_map[f] = <<>>
    /\ q.n_conns = p.n_conns + N(c \in T) - N(c \in S)
    /\ q.fd_max = p.fd_max + 2 * (N(c \in T) - N(c \in S))
    /\ \A a \in Addrs : q.taken[a] = p.taken[a] + N(Holds(q, c, a)) - N(Holds(p, c, a))
    /\ q.established \subseteq q.open /\ q.established \subseteq p.established \cup Ends(q, c)
    /\ IsLive(q, c) /\ ~q.conn[c].complete => Sk(q, c, "dst") \notin q.established

\* A step that changes one connection keeps the pool in order if everything kept
\* of the connections follows it.
LEMMA OneConn ==
    ASSUME NEW p, NEW q, NEW S, NEW T, NEW c \in Conns, Good(p, S), OneStep(p, q, S, T, c)
    PROVE  Good(q, T)
<1> USE DEF OneStep
<1>0. p \in PoolType /\ S \in SUBSET Conns /\ Counting
  BY DEF Good
<1>1. \A d \in Conns : d # c => Ends(q, d) = Ends(p, d) /\ (IsLive(q, d) <=> IsLive(p, d))
  BY Zenon DEF SameView, Ends, IsLive
<1>2. /\ \A d \in Conns : IsLive(q, d) => q.conn[d].addr \in Addrs /\ Sk(q, d, "inc") \in FDs
      /\ \A d \in T : IsLive(q, d) /\ Sk(q, d, "dst") \in FDs
  BY <1>1 DEF Good, SameView
<1>3. Balanced(q)
  <2> SUFFICES ASSUME NEW a \in Addrs
               PROVE  q.taken[a] = Cardinality({d \in Conns : Holds(q, d, a)})
    BY DEF Balanced
  <2> DEFINE A == {d \in Conns : Holds(p, d, a)}
             B == {d \in Conns : Holds(q, d, a)}
  <2>1. \A d \in Conns : d # c => (d \in A <=> d \in B)
    BY DEF SameView, Holds, IsLive
  <2>2. (c \in A <=> Holds(p, c, a)) /\ (c \in B <=> Holds(q, c, a))
    OBVIOUS
  <2>3. p.taken[a] = Cardinality(A)
    BY DEF Good, Balanced
  <2>4. A \in SUBSET Conns /\ B \in SUBSET Conns
    OBVIOUS
  <2> HIDE DEF A, B
  <2>5. Cardinality(B) = Cardinality(A) + N(c \in B) - N(c \in A)
    BY <1>0, <2>1, <2>4, CardMoves
  <2>6. q.taken[a] = Cardinality(B)
    BY <2>2, <2>3, <2>5 DEF N
  <2> QED BY <2>6 DEF B
<1>4. Sockets(q)
  <2>1. \A f \in FDs : f \in p.open <=> \E d \in Conns : f \in Ends(p, d)
    BY DEF Good, Sockets
  <2>2. \A d, e \in Conns : d # e => Ends(p, d) \cap Ends(p, e) = {}
    BY DEF Good, Sockets
  <2>3. \A d \in Conns : Ends(p, d) \subseteq FDs /\ Ends(q, d) \subseteq FDs
    BY <1>0, PoolFields DEF Ends, Sides
  <2>4. \A f \in FDs : f \in q.open <=> \E d \in Conns : f \in Ends(q, d)
    BY <1>1, <2>1, <2>2, <2>3
  <2>5. \A d \in Conns : d # c => Ends(q, c) \cap Ends(q, d) = {}
    BY <1>1, <2>1, <2>2, <2>3
  <2>6. \A d, e \in Conns : d # e => Ends(q, d) \cap Ends(q, e) = {}
    BY <1>1, <2>2, <2>5
  <2>7. \A d \in Conns : IsLive(q, d) => Sk(q, d, "inc") # Sk(q, d, "dst")
    BY <1>1 DEF Good, Sockets, SameView
  <2> QED BY <2>4, <2>6, <2>7 DEF Sockets
<1>5. Mapped(q, T)
  <2>1. q.n_conns = Cardinality(T) /\ q.fd_max = 1 + 2 * q.n_conns
    <3>1. /\ Cardinality(S) \in Nat
          /\ Cardinality(T) = Cardinality(S) + N(c \in T) - N(c \in S)
      BY <1>0, CardMoves
    <3>2. p.n_conns = Cardinality(S) /\ p.fd_max = 1 + 2 * p.n_conns
      BY DEF Good, Mapped
    <3> QED BY <3>1, <3>2 DEF N
  <2>2. \A d \in Conns : Ends(p, d) \subseteq FDs /\ Ends(q, d) \subseteq FDs
    BY <1>0, PoolFields DEF Ends, Sides
  <2>3. ASSUME NEW d \in T, d # c
        PROVE  /\ q.route_map[Sk(q, d, "inc")] = <<d, "dst">>
               /\ q.route_map[Sk(q, d, "dst")] = <<d, "inc">>
    <3>1. d \in S /\ SameView(p, q, d)
      BY <2>3
    <3>2. /\ p.route_map[Sk(p, d, "inc")] = <<d, "dst">>
          /\ p.route_map[Sk(p, d, "dst")] = <<d, "inc">>
      BY <3>1 DEF Good, Mapped
    <3>3. Sk(q, d, "inc") \in Ends(q, d) /\ Sk(q, d, "dst") \in Ends(q, d)
      BY <1>2, <2>3, PoolConnAssumption DEF Ends
    <3>4. \A f \in Ends(q, d) : f \in FDs /\ f \notin Ends(q, c) /\ f \notin Ends(p, c)
      BY <1>1, <1>4, <2>2, <2>3, <3>1 DEF Sockets, Good
    <3>5. \A f \in Ends(q, d) : q.route_map[f] = p.route_map[f]
      BY <3>4
    <3> QED BY <3>1, <3>2, <3>3, <3>5 DEF SameView
  <2>4. ASSUME NEW f \in FDs, q.route_map[f] # <<>>
        PROVE  \E d \in T : f \in Ends(q, d)
    <3>1. CASE c \in T /\ f \in Ends(q, c)
      BY <3>1
    <3>2. CASE ~(c \in T /\ f \in Ends(q, c))
      <4>1. q.route_map[f] = p.route_map[f] /\ ~(c \in S /\ f \in Ends(p, c))
        BY <2>4, <3>2
      <4>2. PICK d \in S : f \in Ends(p, d)
        BY <2>4, <4>1 DEF Good, Mapped
      <4> QED BY <1>0, <1>1, <4>1, <4>2
    <3> QED BY <3>1, <3>2
  <2> QED BY <2>1, <2>3, <2>4 DEF Mapped
<1>6. Known(q)
  <2> SUFFICES ASSUME NEW d \in Conns, IsLive(q, d), ~q.conn[d].complete
               PROVE  Sk(q, d, "dst") \notin q.established
    BY DEF Known
  <2>1. CASE d = c
    BY <2>1
  <2>2. CASE d # c
    <3>1. IsLive(p, d) /\ ~p.conn[d].complete /\ Sk(q, d, "dst") = Sk(p, d, "dst")
      BY <1>1, <2>2 DEF SameView
    <3>2. Sk(q, d, "dst") \notin p.established
      BY <3>1 DEF Good, Known
    <3>3. Sk(q, d, "dst") \notin Ends(q, c)
      <4>1. CASE Sk(q, d, "dst") = NoFD
        BY <4>1 DEF Ends
      <4>2. CASE Sk(q, d, "dst") # NoFD
        <5>1. Sk(q, d, "dst") \in Ends(q, d)
          BY <4>2 DEF Ends
        <5> QED BY <1>4, <2>2, <5>1 DEF Sockets
      <4> QED BY <4>1, <4>2
    <3> QED BY <3>2, <3>3
  <2> QED BY <2>1, <2>2
<1> QED BY <1>0, <1>2, <1>3, <1>4, <1>5, <1>6 DEF Good

-----------------------------------------------------------------------------
(* Data and events leave the connections alone                             *)

\* Data or events change, and nothing else.
Moves(p, q) ==
    /\ q \in PoolType
    /\ \A d \in Conns : SameView(p, q, d)
    /\ q.route_map = p.route_map /\ q.n_conns = p.n_conns /\ q.fd_max = p.fd_max
    /\ q.open = p.open /\ q.taken = p.taken /\ q.established = p.established
    /\ \A f \in FDs : q.epoll[f] = Off <=> p.epoll[f] = Off

\* Both ends of the connection are known to epoll.
Ready(p, c) ==
    /\ p \in PoolType
    /\ \A s \in Sides : Sk(p, c, s) \in FDs /\ p.epoll[Sk(p, c, s)] # Off

\* Moves may follow each other.
LEMMA MovesTrans ==
    ASSUME NEW p, NEW q, NEW r, Moves(p, q), Moves(q, r)
    PROVE  Moves(p, r)
<1>1. \A d \in Conns : SameView(p, r, d)
  BY DEF Moves, SameView
<1> QED BY <1>1 DEF Moves

\* They leave the ends known to epoll.
LEMMA MovesReady ==
    ASSUME NEW p, NEW q, NEW c \in Conns, Ready(p, c), Moves(p, q)
    PROVE  Ready(q, c)
  BY DEF Moves, SameView, Ready, Sides

\* They keep the pool in order.
LEMMA MovesGood ==
    ASSUME NEW p, NEW q, NEW S, Good(p, S), Moves(p, q)
    PROVE  Good(q, S)
<1>1. \A d \in Conns : /\ SameView(p, q, d) /\ Ends(q, d) = Ends(p, d)
                       /\ IsLive(q, d) <=> IsLive(p, d)
                       /\ \A a : Holds(q, d, a) <=> Holds(p, d, a)
  BY DEF Moves, SameView, Ends, IsLive, Holds
<1>2. S \subseteq Conns
  BY DEF Good
<1>3. Mapped(q, S)
  BY SMTT(30), <1>1, <1>2 DEF Good, Mapped, Moves, SameView
<1>4. Sockets(q)
  BY <1>1 DEF Good, Sockets, Moves, SameView
<1>5. Balanced(q)
  <2> SUFFICES ASSUME NEW a \in Addrs
               PROVE  q.taken[a] = Cardinality({d \in Conns : Holds(q, d, a)})
    BY DEF Balanced
  <2>1. {d \in Conns : Holds(q, d, a)} = {d \in Conns : Holds(p, d, a)}
    BY <1>1
  <2> QED BY <2>1 DEF Good, Balanced, Moves
<1>6. Known(q)
  BY <1>1 DEF Good, Known, Moves, SameView
<1> QED BY <1>1, <1>2, <1>3, <1>4, <1>5, <1>6 DEF Good, Moves, SameView

\* What is known of a connection that is served.
LEMMA ServedReady ==
    ASSUME NEW p, NEW S, NEW c \in S, Good(p, S)
    PROVE  /\ Ready(p, c) /\ c \in Conns /\ p.n_conns > 0 /\ p.fd_max > 2
           /\ \A s \in Sides : p.route_map[Sk(p, c, s)] = <<c, Other(s)>>
<1>1. /\ c \in Conns /\ IsLive(p, c) /\ p \in PoolType
      /\ Sk(p, c, "inc") \in FDs /\ Sk(p, c, "dst") \in FDs
      /\ p.route_map[Sk(p, c, "inc")] = <<c, "dst">>
      /\ p.route_map[Sk(p, c, "dst")] = <<c, "inc">>
      /\ \A f \in FDs : p.epoll[f] = Off <=> p.route_map[f] = <<>>
  BY DEF Good, Mapped
<1>2. <<c, "dst">> # <<>> /\ <<c, "inc">> # <<>>
  OBVIOUS
<1>3. Ready(p, c)
  BY <1>1, <1>2 DEF Ready, Sides
<1>4. p.n_conns > 0 /\ p.fd_max > 2
  <2>1. Counting /\ S \ {c} \in SUBSET Conns /\ S \in SUBSET Conns
    BY DEF Good
  <2>2. Cardinality(S) = Cardinality(S \ {c}) + 1 /\ Cardinality(S \ {c}) \in Nat
    BY <1>1, <2>1, CardMoves DEF N
  <2> QED BY <2>2 DEF Good, Mapped
<1> QED BY <1>1, <1>3, <1>4, OtherSides DEF Sides

\* A connection whose end s is changed.
With(k, s, e, rc, dl) ==
    [k EXCEPT !.end = [k.end EXCEPT ![s] = e], !.rcvd = rc, !.dlvd = dl]

\* What the fields of With() are.
WithIs(w, k, s, e, rc, dl) ==
    /\ w \in ConnType /\ w.stage = k.stage /\ w.addr = k.addr
    /\ w.end \in [Sides -> EndType]
    /\ \A t \in Sides : w.end[t] = IF t = s THEN e ELSE k.end[t]
    /\ w.rcvd = rc /\ w.dlvd = dl /\ w.complete = k.complete

\* Changing an end of a connection changes nothing else of it.
LEMMA WithFields ==
    ASSUME NEW k \in ConnType, NEW s \in Sides, NEW e \in EndType,
           NEW rc \in [Sides -> Nat], NEW dl \in [Sides -> Nat]
    PROVE  WithIs(With(k, s, e, rc, dl), k, s, e, rc, dl)
<1>1. [k.end EXCEPT ![s] = e] \in [Sides -> EndType]
  BY DEF ConnType
<1>2. \A t \in Sides : [k.end EXCEPT ![s] = e][t] = IF t = s THEN e ELSE k.end[t]
  BY DEF ConnType
<1>3. With(k, s, e, rc, dl).end = [k.end EXCEPT ![s] = e]
  BY Zenon DEF ConnType, With
<1> QED BY Zenon, <1>1, <1>2, <1>3 DEF ConnType, With, WithIs

\* A pool whose connection c is k, with these events, and the sockets established
\* and broken.
Put(p, c, k, ep, es, br) ==
    [p EXCEPT !.conn = [p.conn EXCEPT ![c] = k], !.epoll = ep,
              !.established = es, !.broken = br]

\* The data of a connection is the same.
SameData(p, q, d) ==
    /\ q.conn[d].complete = p.conn[d].complete
    /\ q.conn[d].rcvd = p.conn[d].rcvd /\ q.conn[d].dlvd = p.conn[d].dlvd
    /\ \A s \in Sides : /\ q.conn[d].end[s].buf = p.conn[d].end[s].buf
                        /\ q.conn[d].end[s].sent = p.conn[d].end[s].sent

\* What the fields of Put() are.
IsPut(p, q, c, k, ep, es, br) ==
    /\ q \in PoolType /\ q.conn[c] = k /\ q.epoll = ep
    /\ \A d \in Conns : d # c => q.conn[d] = p.conn[d]
    /\ q.established = es /\ q.broken = br
    /\ q.route_map = p.route_map /\ q.n_conns = p.n_conns
    /\ q.fd_max = p.fd_max /\ q.open = p.open /\ q.taken = p.taken

\* Putting a connection changes nothing else of the pool.
LEMMA PutFields ==
    ASSUME NEW p \in PoolType, NEW c \in Conns, NEW k \in ConnType,
           NEW ep \in [FDs -> (SUBSET RW) \cup {Off}],
           NEW es \in SUBSET FDs, NEW br \in SUBSET FDs
    PROVE  IsPut(p, Put(p, c, k, ep, es, br), c, k, ep, es, br)
<1>1. p.conn \in [Conns -> ConnType]
  BY PoolFields
<1>2. [p.conn EXCEPT ![c] = k] \in [Conns -> ConnType]
  BY <1>1
<1> DEFINE cn == [p.conn EXCEPT ![c] = k]
           q == Put(p, c, k, ep, es, br)
<1> HIDE DEF cn
<1>3. /\ q \in PoolType /\ q.conn = cn
      /\ q.epoll = ep /\ q.established = es /\ q.broken = br
      /\ q.route_map = p.route_map /\ q.n_conns = p.n_conns /\ q.fd_max = p.fd_max
      /\ q.open = p.open /\ q.taken = p.taken
  <2>1. q = [p EXCEPT !.conn = cn, !.epoll = ep, !.established = es, !.broken = br]
    BY DEF Put, cn
  <2>2. cn \in [Conns -> ConnType]
    BY <1>2 DEF cn
  <2> QED BY Zenon, <2>1, <2>2 DEF PoolType
<1>4. cn[c] = k /\ \A d \in Conns : d # c => cn[d] = p.conn[d]
  BY <1>1 DEF cn
<1> HIDE DEF q
<1>5. IsPut(p, q, c, k, ep, es, br)
  BY <1>3, <1>4 DEF IsPut
<1> QED BY <1>5 DEF q

\* Putting a connection that looks the same is a move.
LEMMA PutMoves ==
    ASSUME NEW p \in PoolType, NEW c \in Conns, NEW k \in ConnType,
           NEW ep \in [FDs -> (SUBSET RW) \cup {Off}],
           NEW br \in SUBSET FDs,
           k.stage = p.conn[c].stage, k.addr = p.conn[c].addr,
           k.complete = p.conn[c].complete,
           \A s \in Sides : k.end[s].sock = Sk(p, c, s),
           \A f \in FDs : ep[f] = Off <=> p.epoll[f] = Off
    PROVE  Moves(p, Put(p, c, k, ep, p.established, br))
<1> DEFINE q == Put(p, c, k, ep, p.established, br)
<1>1. /\ q \in PoolType /\ q.conn[c] = k /\ q.epoll = ep /\ q.established = p.established
      /\ \A d \in Conns : d # c => q.conn[d] = p.conn[d]
      /\ q.route_map = p.route_map /\ q.n_conns = p.n_conns
      /\ q.fd_max = p.fd_max /\ q.open = p.open /\ q.taken = p.taken
  <2>1. IsPut(p, q, c, k, ep, p.established, br)
    <3>1. p.established \in SUBSET FDs
      BY PoolFields
    <3> QED BY <3>1, PutFields
  <2> QED BY <2>1 DEF IsPut
<1> HIDE DEF q
<1>2. Sk(q, c, "inc") = Sk(p, c, "inc") /\ Sk(q, c, "dst") = Sk(p, c, "dst")
  BY <1>1 DEF Sk, Sides
<1>3. \A d \in Conns : SameView(p, q, d)
  BY <1>1, <1>2 DEF SameView, Sk
<1>4. Moves(p, q)
  BY <1>1, <1>3 DEF Moves
<1> QED BY <1>4 DEF q

\* From p to q, the events of end s of c were set to ev, and epoll was told.
EventsMoved(p, q, c, s, ev) ==
    /\ Moves(p, q) /\ SameData(p, q, c)
    /\ \A d \in Conns : d # c => q.conn[d] = p.conn[d]
    /\ \A t \in Sides : q.conn[c].end[t].events =
                         IF t = s THEN ev ELSE p.conn[c].end[t].events
    /\ q.epoll = [p.epoll EXCEPT ![Sk(p, c, s)] = ev]
    /\ q.established = p.established /\ q.broken = p.broken

\* pool_fds_set_events() is a move and leaves the data alone.
LEMMA SetEvents ==
    ASSUME NEW p, NEW c \in Conns, NEW s \in Sides, NEW ev \in SUBSET RW, Ready(p, c)
    PROVE  EventsMoved(p, pool_fds_set_events(p, c, s, ev), c, s, ev)
<1> DEFINE k == p.conn[c]
           e == [k.end[s] EXCEPT !.events = ev]
           w == With(k, s, e, k.rcvd, k.dlvd)
           ep == [p.epoll EXCEPT ![Sk(p, c, s)] = ev]
<1>0. p \in PoolType /\ Sk(p, c, s) \in FDs /\ p.epoll[Sk(p, c, s)] # Off
  BY DEF Ready
<1>1. k \in ConnType /\ k.end[s] \in EndType
  BY <1>0, PoolFields
<1>2. /\ e \in EndType /\ e.sock = Sk(p, c, s) /\ e.events = ev
      /\ e.buf = k.end[s].buf /\ e.sent = k.end[s].sent
  BY Zenon, <1>1 DEF EndType, Sk
<1>3. k.rcvd \in [Sides -> Nat] /\ k.dlvd \in [Sides -> Nat]
  BY <1>1 DEF ConnType
<1>4. /\ w \in ConnType /\ w.stage = k.stage /\ w.addr = k.addr
      /\ w.complete = k.complete /\ w.rcvd = k.rcvd /\ w.dlvd = k.dlvd
      /\ \A t \in Sides : w.end[t] = IF t = s THEN e ELSE k.end[t]
  <2> HIDE DEF k, e
  <2>1. WithIs(w, k, s, e, k.rcvd, k.dlvd)
    BY Zenon, <1>1, <1>2, <1>3, WithFields
  <2> QED BY Zenon, <2>1 DEF WithIs
<1>5. \A t \in Sides : w.end[t].sock = Sk(p, c, t)
  BY Zenon, <1>2, <1>4 DEF Sk
<1>6. ep \in [FDs -> (SUBSET RW) \cup {Off}] /\ \A f \in FDs : ep[f] = Off <=> p.epoll[f] = Off
  <2>1. ev # Off
    BY DEF Off, RW
  <2> QED BY <1>0, <2>1, PoolFields
<1>7. pool_fds_set_events(p, c, s, ev)
        = Put(p, c, w, ep, p.established, p.broken)
  <2>1. w = [k EXCEPT !.end[s].events = ev]
    BY Zenon, <1>1 DEF With, ConnType
  <2>2. [p.conn EXCEPT ![c].end[s].events = ev] = [p.conn EXCEPT ![c] = w]
    BY <2>1
  <2> QED BY Zenon, <1>0, <2>2 DEF pool_fds_set_events, PoolType, Sk, Put
<1>8. p.established \in SUBSET FDs /\ p.broken \in SUBSET FDs
  BY <1>0, PoolFields
<1> HIDE DEF w, ep
<1> DEFINE q == Put(p, c, w, ep, p.established, p.broken)
<1>9. /\ Moves(p, q) /\ q.conn[c] = w /\ q.epoll = ep
      /\ \A d \in Conns : d # c => q.conn[d] = p.conn[d]
      /\ q.established = p.established /\ q.broken = p.broken
  <2>1. Moves(p, q)
    BY <1>0, <1>4, <1>5, <1>6, <1>8, PutMoves
  <2>2. IsPut(p, q, c, w, ep, p.established, p.broken)
    BY <1>0, <1>4, <1>6, <1>8, PutFields
  <2> QED BY <2>1, <2>2 DEF IsPut
<1>10. SameData(p, q, c)
  <2> HIDE DEF q
  <2> QED BY Zenon, <1>2, <1>4, <1>9 DEF SameData
<1>11. \A t \in Sides : q.conn[c].end[t].events = IF t = s THEN ev ELSE p.conn[c].end[t].events
  <2> HIDE DEF q
  <2> QED BY Zenon, <1>2, <1>4, <1>9
<1> HIDE DEF q
<1>12. EventsMoved(p, q, c, s, ev)
  BY Zenon, <1>9, <1>10, <1>11 DEF EventsMoved, ep
<1> QED BY Zenon, <1>7, <1>12 DEF q

\* End s of connection c is now e, with these counts.
EndMoved(p, q, c, s, e, rc, dl) ==
    /\ Moves(p, q)
    /\ \A d \in Conns : d # c => q.conn[d] = p.conn[d]
    /\ \A t \in Sides : t # s => q.conn[c].end[t] = p.conn[c].end[t]
    /\ q.conn[c].end[s] = e /\ q.conn[c].rcvd = rc /\ q.conn[c].dlvd = dl
    /\ q.conn[c].complete = p.conn[c].complete
    /\ q.epoll = p.epoll /\ q.established = p.established /\ q.broken = p.broken

\* Changing the data of an end is a move.
LEMMA EndMoves ==
    ASSUME NEW p \in PoolType, NEW c \in Conns, NEW s \in Sides, NEW e \in EndType,
           NEW rc \in [Sides -> Nat], NEW dl \in [Sides -> Nat], e.sock = Sk(p, c, s)
    PROVE  EndMoved(p, [p EXCEPT !.conn = [p.conn EXCEPT ![c] = With(p.conn[c], s, e, rc, dl)]],
                    c, s, e, rc, dl)
<1> DEFINE k == p.conn[c]
           w == With(k, s, e, rc, dl)
           q == Put(p, c, w, p.epoll, p.established, p.broken)
<1>0. /\ p.epoll \in [FDs -> (SUBSET RW) \cup {Off}]
      /\ p.established \in SUBSET FDs /\ p.broken \in SUBSET FDs /\ k \in ConnType
  BY PoolFields
<1>1. /\ w \in ConnType /\ w.stage = k.stage /\ w.addr = k.addr
      /\ w.complete = k.complete /\ w.rcvd = rc /\ w.dlvd = dl
      /\ \A t \in Sides : w.end[t] = IF t = s THEN e ELSE k.end[t]
  <2>1. WithIs(w, k, s, e, rc, dl)
    BY Zenon, <1>0, WithFields
  <2> QED BY Zenon, <2>1 DEF WithIs
<1> HIDE DEF w
<1>2. \A t \in Sides : w.end[t].sock = Sk(p, c, t)
  BY <1>1 DEF Sk
<1>3. Moves(p, q)
  BY Zenon, <1>0, <1>1, <1>2, PutMoves
<1>4. IsPut(p, q, c, w, p.epoll, p.established, p.broken)
  BY <1>0, <1>1, PutFields
<1>5. q = [p EXCEPT !.conn = [p.conn EXCEPT ![c] = w]]
  BY Zenon DEF PoolType, Put
<1> HIDE DEF q
<1>6. EndMoved(p, q, c, s, e, rc, dl)
  BY <1>1, <1>3, <1>4 DEF EndMoved, IsPut
<1> QED BY <1>5, <1>6 DEF w

\* From p to q, n bytes were sent to end s of c, which is e afterwards.
SentEnd(p, q, c, s, n, e) ==
    LET o == p.conn[c].end[s]
    IN  /\ EndMoved(p, q, c, s, e, p.conn[c].rcvd, [p.conn[c].dlvd EXCEPT ![s] = @ + n])
        /\ e.events = o.events
        /\ IF o.sent + n = Len(o.buf) THEN e.sent = 0 /\ e.buf = <<>>
           ELSE e.sent = o.sent + n /\ e.buf = o.buf

\* Sending is a move: what it changes.
LEMMA SentMoves ==
    ASSUME NEW p, NEW c \in Conns, NEW s \in Sides, NEW n \in Nat, Ready(p, c)
    PROVE  \E e \in EndType : SentEnd(p, Sent(p, c, s, n), c, s, n, e)
<1> DEFINE k == p.conn[c]
           o == k.end[s]
           left == IF o.sent + n = Len(o.buf) THEN [o EXCEPT !.sent = 0, !.buf = <<>>]
                   ELSE [o EXCEPT !.sent = @ + n]
           dl == [k.dlvd EXCEPT ![s] = @ + n]
<1>0. p \in PoolType
  BY DEF Ready
<1>1. k \in ConnType /\ o \in EndType
  BY <1>0, PoolFields
<1>3. /\ left \in EndType /\ left.sock = Sk(p, c, s) /\ left.events = o.events
      /\ IF o.sent + n = Len(o.buf) THEN left.sent = 0 /\ left.buf = <<>>
         ELSE left.sent = o.sent + n /\ left.buf = o.buf
  <2>1. o.sock = Sk(p, c, s)
    BY DEF Sk
  <2> HIDE DEF k, o
  <2>2. CASE o.sent + n = Len(o.buf)
    <3>1. left = [o EXCEPT !.sent = 0, !.buf = <<>>]
      BY <2>2
    <3> HIDE DEF left
    <3>2. <<>> \in Seq(Nat)
      OBVIOUS
    <3> QED BY Zenon, <1>1, <2>1, <2>2, <3>1, <3>2 DEF EndType
  <2>3. CASE o.sent + n # Len(o.buf)
    <3>1. left = [o EXCEPT !.sent = o.sent + n]
      BY <2>3
    <3> HIDE DEF left
    <3>2. o.sent + n \in Nat
      BY <1>1 DEF EndType
    <3> QED BY Zenon, <1>1, <2>1, <2>3, <3>1, <3>2 DEF EndType
  <2> QED BY <2>2, <2>3
<1>4. k.rcvd \in [Sides -> Nat] /\ dl \in [Sides -> Nat]
  BY <1>1 DEF ConnType
<1> DEFINE w == With(k, s, left, k.rcvd, dl)
<1>5. Sent(p, c, s, n) = [p EXCEPT !.conn = [p.conn EXCEPT ![c] = w]]
  <2>1. w = [k EXCEPT !.dlvd[s] = @ + n, !.end[s] = left]
    <3> DEFINE en == [k.end EXCEPT ![s] = left]
    <3> HIDE DEF left, k, dl, en
    <3>1. w = [k EXCEPT !.end = en, !.rcvd = k.rcvd, !.dlvd = dl]
      BY DEF With, en
    <3>2. w = [k EXCEPT !.dlvd = dl, !.end = en]
      BY Zenon, <1>1, <3>1 DEF ConnType
    <3> QED BY <3>2 DEF en, dl
  <2> HIDE DEF w
  <2> QED BY <2>1 DEF Sent
<1> HIDE DEF left, dl
<1>6. EndMoved(p, Sent(p, c, s, n), c, s, left, k.rcvd, dl)
  <2> DEFINE rc == k.rcvd
  <2>1. left \in EndType /\ left.sock = Sk(p, c, s) /\ rc \in [Sides -> Nat]
    BY <1>3, <1>4
  <2>2. Sent(p, c, s, n) = [p EXCEPT !.conn = [p.conn EXCEPT ![c] = With(p.conn[c], s, left, rc, dl)]]
    BY <1>5
  <2> HIDE DEF rc
  <2>3. EndMoved(p, Sent(p, c, s, n), c, s, left, rc, dl)
    BY <1>0, <1>4, <2>1, <2>2, EndMoves
  <2> QED BY <2>3 DEF rc
<1>7. SentEnd(p, Sent(p, c, s, n), c, s, n, left)
  BY Zenon, <1>3, <1>6 DEF SentEnd, dl
<1> QED BY Zenon, <1>3, <1>7

\* Receiving is a move: what it changes.
LEMMA ReceivedMoves ==
    ASSUME NEW p, NEW c \in Conns, NEW s \in Sides, NEW n \in Nat, Ready(p, c)
    PROVE  \E e \in EndType :
              LET o == p.conn[c].end[s]
              IN  /\ EndMoved(p, Received(p, c, s, n), c, s, e,
                              [p.conn[c].rcvd EXCEPT ![s] = @ + n], p.conn[c].dlvd)
                  /\ e.events = o.events /\ e.sent = o.sent
                  /\ e.buf = o.buf \o [i \in 1..n |-> p.conn[c].rcvd[s] + i]
<1> DEFINE k == p.conn[c]
           o == k.end[s]
           more == [i \in 1..n |-> k.rcvd[s] + i]
           bf == o.buf \o more
           e == [o EXCEPT !.buf = bf]
           rc == [k.rcvd EXCEPT ![s] = @ + n]
<1>0. p \in PoolType
  BY DEF Ready
<1>1. k \in ConnType /\ o \in EndType
  BY <1>0, PoolFields
<1>2. bf \in Seq(Nat)
  <2>1. k.rcvd[s] \in Nat
    BY <1>1 DEF ConnType
  <2>2. \A i \in 1..n : k.rcvd[s] + i \in Nat
    BY <2>1
  <2>3. more \in Seq(Nat)
    BY <2>2
  <2>4. o.buf \in Seq(Nat)
    BY Zenon, <1>1 DEF EndType
  <2> HIDE DEF more, o
  <2> QED BY <2>3, <2>4
<1> HIDE DEF bf
<1>3. /\ e \in EndType /\ e.sock = Sk(p, c, s) /\ e.events = o.events
      /\ e.sent = o.sent /\ e.buf = bf
  BY Zenon, <1>1, <1>2 DEF EndType, Sk
<1>4. k.dlvd \in [Sides -> Nat] /\ rc \in [Sides -> Nat]
  BY <1>1 DEF ConnType
<1> DEFINE w == With(k, s, e, rc, k.dlvd)
<1>5. Received(p, c, s, n) = [p EXCEPT !.conn = [p.conn EXCEPT ![c] = w]]
  <2>1. w = [k EXCEPT !.rcvd[s] = @ + n, !.end[s].buf = bf]
    <3> DEFINE en == [k.end EXCEPT ![s] = e]
    <3> HIDE DEF k, rc, en
    <3>1. w = [k EXCEPT !.end = en, !.rcvd = rc, !.dlvd = k.dlvd]
      BY DEF With, en
    <3>2. w = [k EXCEPT !.rcvd = rc, !.end = en]
      BY Zenon, <1>1, <3>1 DEF ConnType
    <3>3. [k EXCEPT !.rcvd = rc].end = k.end
      BY <1>1 DEF ConnType
    <3> QED BY <3>2, <3>3 DEF en, rc
  <2> HIDE DEF w
  <2> QED BY <2>1 DEF Received, bf
<1> HIDE DEF e, rc
<1>6. EndMoved(p, Received(p, c, s, n), c, s, e, rc, k.dlvd)
  BY <1>0, <1>3, <1>4, <1>5, EndMoves
<1> QED BY Zenon, <1>3, <1>6 DEF rc, bf

\* A send() that fails for good is a move.
LEMMA BrokenMoves ==
    ASSUME NEW p, NEW c \in Conns, NEW s \in Sides, Ready(p, c)
    PROVE  LET q == [p EXCEPT !.broken = @ \cup {p.conn[c].end[s].sock}]
           IN  Moves(p, q) /\ q.conn = p.conn /\ q.epoll = p.epoll
               /\ q.established = p.established /\ q.broken = p.broken \cup {Sk(p, c, s)}
<1> DEFINE q == [p EXCEPT !.broken = @ \cup {p.conn[c].end[s].sock}]
<1>1. p \in PoolType /\ p.conn[c].end[s].sock \in FDs
  BY DEF Ready, Sk
<1>2. /\ q \in PoolType /\ q.conn = p.conn /\ q.epoll = p.epoll
      /\ q.established = p.established /\ q.broken = p.broken \cup {Sk(p, c, s)}
      /\ q.route_map = p.route_map /\ q.n_conns = p.n_conns /\ q.fd_max = p.fd_max
      /\ q.open = p.open /\ q.taken = p.taken
  BY Zenon, <1>1 DEF PoolType, Sk
<1> HIDE DEF q
<1>3. Moves(p, q)
  BY <1>2 DEF Moves, SameView, Sk
<1> QED BY <1>2, <1>3 DEF q

\* The asynchronous connect has succeeded.
DoneSet(p, c) ==
    [p EXCEPT !.conn[c].complete = TRUE,
              !.established = @ \cup {p.conn[c].end["dst"].sock}]

\* What the fields of DoneSet() are.
DoneIs(p, q, c) ==
    /\ q \in PoolType /\ \A d \in Conns : d # c => q.conn[d] = p.conn[d]
    /\ q.conn[c] = [p.conn[c] EXCEPT !.complete = TRUE] /\ q.epoll = p.epoll
    /\ q.established = p.established \cup {Sk(p, c, "dst")} /\ q.broken = p.broken
    /\ q.route_map = p.route_map /\ q.n_conns = p.n_conns
    /\ q.fd_max = p.fd_max /\ q.open = p.open /\ q.taken = p.taken

\* What a successful connect changes.
LEMMA DoneFields ==
    ASSUME NEW p, NEW c \in Conns, Ready(p, c)
    PROVE  DoneIs(p, DoneSet(p, c), c)
<1> DEFINE w == [p.conn[c] EXCEPT !.complete = TRUE]
           es == p.established \cup {p.conn[c].end["dst"].sock}
           q == Put(p, c, w, p.epoll, es, p.broken)
<1>1. p \in PoolType /\ Sk(p, c, "dst") \in FDs
  BY DEF Ready, Sides
<1>2. /\ p.epoll \in [FDs -> (SUBSET RW) \cup {Off}] /\ es \in SUBSET FDs
      /\ p.broken \in SUBSET FDs /\ p.conn[c] \in ConnType
  BY <1>1, PoolFields DEF Sk
<1>3. w \in ConnType
  BY Zenon, <1>2 DEF ConnType
<1>5. q = DoneSet(p, c)
  <2> HIDE DEF w, es
  <2>1. q = [p EXCEPT !.conn = [p.conn EXCEPT ![c] = w], !.established = es]
    BY Zenon, <1>1 DEF Put, PoolType
  <2>2. [p EXCEPT !.conn = [p.conn EXCEPT ![c] = w]].established = p.established
    BY <1>1 DEF PoolType
  <2> QED BY <1>1, <2>1, <2>2 DEF w, es, DoneSet
<1> HIDE DEF w, es
<1>7. IsPut(p, q, c, w, p.epoll, es, p.broken)
  BY <1>1, <1>2, <1>3, PutFields
<1>8. DoneIs(p, q, c)
  <2> HIDE DEF q
  <2> QED BY <1>7 DEF IsPut, DoneIs, w, es, Sk
<1> QED BY <1>5, <1>8

\* The events of an end are events.
LEMMA EventsType ==
    ASSUME NEW p, NEW c \in Conns, NEW s \in Sides, Ready(p, c)
    PROVE  p.conn[c].end[s].events \in SUBSET RW
  BY PoolFields DEF Ready, EndType

\* No step is a move.
LEMMA MovesSame == ASSUME NEW p \in PoolType PROVE Moves(p, p)
  BY DEF Moves, SameView

\* Setting the write flag is a move.
LEMMA SetWriteMoves ==
    ASSUME NEW p, NEW c \in Conns, NEW s \in Sides, NEW b \in BOOLEAN, Ready(p, c)
    PROVE  Moves(p, SetWrite(p, c, s, b))
<1> DEFINE ev == p.conn[c].end[s].events
           flag == IF b THEN ev \cup {"W"} ELSE ev \ {"W"}
<1>1. flag \in SUBSET RW
  <2>1. ev \in SUBSET RW
    BY EventsType
  <2> HIDE DEF ev
  <2> QED BY <2>1 DEF RW
<1>2. SetWrite(p, c, s, b) = IF flag = ev THEN p ELSE pool_fds_set_events(p, c, s, flag)
  BY DEF SetWrite
<1> HIDE DEF flag, ev
<1>3. Moves(p, pool_fds_set_events(p, c, s, flag))
  BY Zenon, <1>1, SetEvents DEF EventsMoved
<1>4. Moves(p, p)
  BY MovesSame DEF Ready
<1> QED BY <1>2, <1>3, <1>4

\* So is listening to a source again.
LEMMA ReestablishMoves ==
    ASSUME NEW p, NEW c \in Conns, NEW s \in Sides, Ready(p, c)
    PROVE  Moves(p, Reestablish(p, c, s))
<1> DEFINE t == Other(s)
           flag == p.conn[c].end[t].events \cup {"R"}
<1>1. t \in Sides
  BY OtherSides DEF Sides
<1> HIDE DEF t
<1>2. flag \in SUBSET RW
  BY <1>1, EventsType DEF RW
<1> HIDE DEF flag
<1>3. Moves(p, pool_fds_set_events(p, c, t, flag))
  BY Zenon, <1>1, <1>2, SetEvents DEF EventsMoved
<1>4. Moves(p, p)
  BY MovesSame DEF Ready
<1> QED BY Zenon, <1>3, <1>4 DEF Reestablish, t, flag

\* So is ceasing to listen to it.
LEMMA StopIfFullMoves ==
    ASSUME NEW p, NEW c \in Conns, NEW s \in Sides, Ready(p, c)
    PROVE  Moves(p, StopIfFull(p, c, s))
<1> DEFINE t == Other(s)
           flag == p.conn[c].end[t].events \ {"R"}
<1>1. t \in Sides
  BY OtherSides DEF Sides
<1> HIDE DEF t
<1>2. flag \in SUBSET RW
  BY <1>1, EventsType DEF RW
<1> HIDE DEF flag
<1>3. Moves(p, pool_fds_set_events(p, c, t, flag))
  BY Zenon, <1>1, <1>2, SetEvents DEF EventsMoved
<1>4. Moves(p, p)
  BY MovesSame DEF Ready
<1> QED BY Zenon, <1>3, <1>4 DEF StopIfFull, t, flag

\* pool_send_data() is a move, or removes the connection: not while its destination
\* is being connected.
LEMMA SendMoves ==
    ASSUME NEW p, NEW c \in Conns, NEW s \in Sides, NEW src \in BOOLEAN, Ready(p, c),
           NEW r \in pool_send_data(p, c, s, src)
    PROVE  \/ Moves(p, r.pool) /\ r.ret # "EPIPE"
           \/ /\ r.ret = "EPIPE" /\ (s = "inc" \/ p.conn[c].complete)
              /\ r.pool = pool_remove_conn(p, Sk(p, c, s), TRUE)
<1> DEFINE n == Len(p.conn[c].end[s].buf) - p.conn[c].end[s].sent
           back(k) == IF src THEN Reestablish(Sent(p, c, s, k), c, s) ELSE Sent(p, c, s, k)
           ok(k) == SetWrite(back(k), c, s, k < n)
<1>1. \/ \E k \in IF Usable(p, c, s) THEN 1..n ELSE {} : r = [pool |-> ok(k), ret |-> "ok"]
      \/ r = [pool |-> SetWrite(p, c, s, TRUE), ret |-> "ok"]
      \/ r = [pool |-> p, ret |-> "ok"]
      \/ /\ ~(s = "dst" /\ ~p.conn[c].complete)
         /\ r = [pool |-> pool_remove_conn(p, Sk(p, c, s), TRUE), ret |-> "EPIPE"]
      \/ r = [pool |-> [p EXCEPT !.broken = @ \cup {p.conn[c].end[s].sock}], ret |-> "error"]
  BY Zenon DEF pool_send_data, Sk
<1>2. ASSUME NEW k \in 1..n, r = [pool |-> ok(k), ret |-> "ok"]
      PROVE  Moves(p, r.pool) /\ r.ret # "EPIPE"
  <2>1. k \in Nat
    OBVIOUS
  <2>2. Moves(p, Sent(p, c, s, k))
    BY Zenon, <2>1, SentMoves DEF SentEnd, EndMoved
  <2>3. Ready(Sent(p, c, s, k), c)
    BY <2>2, MovesReady
  <2>4. Moves(p, back(k))
    BY <2>2, <2>3, ReestablishMoves, MovesTrans
  <2> DEFINE b == k < n
  <2>5. b \in BOOLEAN
    OBVIOUS
  <2> HIDE DEF back, b
  <2>6. Moves(back(k), SetWrite(back(k), c, s, b))
    BY Zenon, <2>4, <2>5, MovesReady, SetWriteMoves
  <2>7. Moves(p, SetWrite(back(k), c, s, b))
    BY <2>4, <2>6, MovesTrans
  <2> QED BY <1>2, <2>7 DEF b
<1>3. CASE r = [pool |-> SetWrite(p, c, s, TRUE), ret |-> "ok"]
  BY Zenon, <1>3, SetWriteMoves
<1>4. CASE r = [pool |-> p, ret |-> "ok"]
  BY <1>4, MovesSame DEF Ready
<1>5. CASE r = [pool |-> [p EXCEPT !.broken = @ \cup {p.conn[c].end[s].sock}], ret |-> "error"]
  BY <1>5, BrokenMoves
<1>6. CASE /\ ~(s = "dst" /\ ~p.conn[c].complete)
           /\ r = [pool |-> pool_remove_conn(p, Sk(p, c, s), TRUE), ret |-> "EPIPE"]
  BY <1>6 DEF Sides
<1> QED BY Zenon, <1>1, <1>2, <1>3, <1>4, <1>5, <1>6

-----------------------------------------------------------------------------
(* Removing and serving a connection                                       *)

\* The pool is in order between two steps.
Kept(p) == Good(p, Served(p))

\* What pool_reset_conn_end() does.
ResetIs(p, q, fd, cl) ==
    /\ q \in PoolType /\ q.conn = p.conn /\ q.n_conns = p.n_conns
    /\ q.fd_max = p.fd_max - 1 /\ q.taken = p.taken
    /\ \A f \in FDs : q.route_map[f] = IF f = fd THEN <<>> ELSE p.route_map[f]
    /\ \A f \in FDs : q.epoll[f] = IF f = fd THEN Off ELSE p.epoll[f]
    /\ q.open = IF cl THEN p.open \ {fd} ELSE p.open
    /\ q.established = IF cl THEN p.established \ {fd} ELSE p.established
    /\ q.broken = IF cl THEN p.broken \ {fd} ELSE p.broken

\* What pool_reset_conn_end() does to the pool.
LEMMA ResetFields ==
    ASSUME NEW p \in PoolType, NEW c \in Conns, NEW s \in Sides, NEW cl \in BOOLEAN,
           Sk(p, c, s) \in FDs, p.fd_max > 0
    PROVE  ResetIs(p, pool_reset_conn_end(p, c, s, cl), Sk(p, c, s), cl)
<1> DEFINE fd == Sk(p, c, s)
           ep == [p.epoll EXCEPT ![fd] = Off]
           rm == [p.route_map EXCEPT ![fd] = <<>>]
           fm == p.fd_max - 1
           r == [p EXCEPT !.epoll = ep, !.fd_max = fm, !.route_map = rm]
           q == pool_reset_conn_end(p, c, s, cl)
<1>1. /\ ep \in [FDs -> (SUBSET RW) \cup {Off}]
      /\ \A f \in FDs : ep[f] = IF f = fd THEN Off ELSE p.epoll[f]
  BY PoolFields
<1>2. /\ rm \in [FDs -> (Conns \X Sides) \cup {<<>>}]
      /\ \A f \in FDs : rm[f] = IF f = fd THEN <<>> ELSE p.route_map[f]
  BY PoolFields
<1>3. fm \in Nat
  BY PoolFields
<1>4. q = IF cl THEN Close(r, fd) ELSE r
  <2>1. [p EXCEPT !.epoll = ep].fd_max = p.fd_max
    BY DEF PoolType
  <2>2. [p EXCEPT !.epoll = ep, !.fd_max = fm].route_map = p.route_map
    BY DEF PoolType
  <2> QED BY <2>1, <2>2 DEF pool_reset_conn_end, Sk
<1> HIDE DEF ep, rm, fm
<1>5. /\ r \in PoolType /\ r.conn = p.conn /\ r.n_conns = p.n_conns
      /\ r.fd_max = fm /\ r.taken = p.taken /\ r.route_map = rm /\ r.epoll = ep
      /\ r.open = p.open /\ r.established = p.established /\ r.broken = p.broken
  BY Zenon, <1>1, <1>2, <1>3 DEF PoolType
<1> HIDE DEF r
<1>6. LET k == Close(r, fd)
      IN  /\ k \in PoolType /\ k.conn = p.conn /\ k.n_conns = p.n_conns
          /\ k.fd_max = fm /\ k.taken = p.taken /\ k.route_map = rm /\ k.epoll = ep
          /\ k.open = p.open \ {fd} /\ k.established = p.established \ {fd}
          /\ k.broken = p.broken \ {fd}
  BY Zenon, <1>5 DEF PoolType, Close
<1> HIDE DEF q, fd
<1>7. ResetIs(p, q, fd, cl)
  BY Zenon, <1>1, <1>2, <1>4, <1>5, <1>6 DEF ResetIs, fm
<1> QED BY <1>7 DEF q, fd

\* Both ends taken off epoll and route_map.
Detached(p, c, full) ==
    pool_reset_conn_end([pool_reset_conn_end(p, c, "dst", TRUE) EXCEPT !.n_conns = @ - 1],
                        c, "inc", full)

\* The sockets pool_remove_conn() closes.
Closed(p, c, full) == IF full THEN {Sk(p, c, "inc"), Sk(p, c, "dst")} ELSE {Sk(p, c, "dst")}

\* What the fields of Detached() are.
DetachedIs(p, q, c, full) ==
    /\ q \in PoolType /\ q.conn = p.conn /\ q.taken = p.taken
    /\ q.n_conns = p.n_conns - 1 /\ q.fd_max = p.fd_max - 2
    /\ \A f \in FDs : q.route_map[f] = IF f \in {Sk(p, c, "inc"), Sk(p, c, "dst")}
                                       THEN <<>> ELSE p.route_map[f]
    /\ \A f \in FDs : q.epoll[f] = IF f \in {Sk(p, c, "inc"), Sk(p, c, "dst")}
                                   THEN Off ELSE p.epoll[f]
    /\ q.open = p.open \ Closed(p, c, full)
    /\ q.established = p.established \ Closed(p, c, full)
    /\ q.broken = p.broken \ Closed(p, c, full)

\* What two of them do.
LEMMA DetachedFields ==
    ASSUME NEW p, NEW c \in Conns, NEW full \in BOOLEAN, Ready(p, c),
           p.n_conns > 0, p.fd_max > 2
    PROVE  DetachedIs(p, Detached(p, c, full), c, full)
<1> DEFINE a == pool_reset_conn_end(p, c, "dst", TRUE)
           b == [a EXCEPT !.n_conns = @ - 1]
           q == pool_reset_conn_end(b, c, "inc", full)
           i == Sk(p, c, "inc")
           d == Sk(p, c, "dst")
<1>0. p \in PoolType /\ i \in FDs /\ d \in FDs /\ "inc" \in Sides /\ "dst" \in Sides
  BY DEF Ready, Sides
<1>1. ResetIs(p, a, d, TRUE)
  <2>1. p.fd_max > 0
    BY <1>0, PoolNumbers
  <2> QED BY Zenon, <1>0, <2>1, ResetFields
<1> HIDE DEF a
<1>2. a \in PoolType /\ a.n_conns - 1 \in Nat /\ a.n_conns = p.n_conns /\ a.conn = p.conn
  BY <1>0, <1>1, PoolNumbers DEF ResetIs
<1>3. /\ b \in PoolType /\ b.conn = a.conn /\ b.n_conns = p.n_conns - 1
      /\ b.fd_max = a.fd_max /\ b.taken = a.taken
      /\ b.route_map = a.route_map /\ b.epoll = a.epoll /\ b.open = a.open
      /\ b.established = a.established /\ b.broken = a.broken
  BY Zenon, <1>2 DEF PoolType
<1> HIDE DEF b
<1>4. Sk(b, c, "inc") = i /\ b.fd_max > 0
  <2>1. a.fd_max = p.fd_max - 1 /\ p.fd_max \in Nat
    BY <1>0, <1>1, PoolNumbers DEF ResetIs
  <2> QED BY <1>2, <1>3, <2>1 DEF Sk
<1>5. ResetIs(b, q, i, full)
  BY <1>0, <1>3, <1>4, ResetFields
<1> HIDE DEF q, i, d
<1>6. /\ q \in PoolType /\ q.conn = p.conn /\ q.taken = p.taken
      /\ q.n_conns = p.n_conns - 1
      /\ \A f \in FDs : q.route_map[f] = IF f \in {i, d} THEN <<>> ELSE p.route_map[f]
      /\ \A f \in FDs : q.epoll[f] = IF f \in {i, d} THEN Off ELSE p.epoll[f]
  BY <1>1, <1>3, <1>5 DEF ResetIs
<1>7. q.fd_max = p.fd_max - 2
  <2>1. a.fd_max = p.fd_max - 1 /\ q.fd_max = b.fd_max - 1
    BY Zenon, <1>1, <1>5 DEF ResetIs
  <2> QED BY <1>0, <1>3, <2>1, PoolNumbers
<1>8. LET cs == IF full THEN {i, d} ELSE {d}
      IN  /\ q.open = p.open \ cs /\ q.established = p.established \ cs
          /\ q.broken = p.broken \ cs
  <2>1. /\ b.open = p.open \ {d} /\ b.established = p.established \ {d}
        /\ b.broken = p.broken \ {d}
    BY Zenon, <1>1, <1>3 DEF ResetIs
  <2>2. /\ q.open = IF full THEN b.open \ {i} ELSE b.open
        /\ q.established = IF full THEN b.established \ {i} ELSE b.established
        /\ q.broken = IF full THEN b.broken \ {i} ELSE b.broken
    BY Zenon, <1>5 DEF ResetIs
  <2> QED BY <2>1, <2>2
<1>9. DetachedIs(p, q, c, full)
  BY <1>6, <1>7, <1>8 DEF DetachedIs, Closed, i, d
<1> QED BY <1>9 DEF q, b, a, Detached

\* What is left when nothing is left of a connection.
Emptied(r, c, a, notify) ==
    [r EXCEPT !.conn[c] = NoConn, !.taken[a] = IF notify THEN @ - 1 ELSE @]

\* pool_remove_conn() takes both ends off, and empties the connection only if it
\* is removed in full.
LEMMA RemoveCases ==
    ASSUME NEW p, NEW c \in Conns, NEW s \in Sides, NEW fd, NEW notify \in BOOLEAN,
           p.route_map[fd] = <<c, s>>, p.conn[c].complete \in BOOLEAN
    PROVE  /\ (s = "dst" \/ p.conn[c].complete) =>
                  pool_remove_conn(p, fd, notify)
                    = Emptied(Detached(p, c, TRUE), c, p.conn[c].addr, notify)
           /\ ~(s = "dst" \/ p.conn[c].complete) =>
                  pool_remove_conn(p, fd, notify) = Detached(p, c, FALSE)
<1>1. p.route_map[fd][1] = c /\ p.route_map[fd][2] = s
  OBVIOUS
<1> DEFINE full == s = "dst" \/ p.conn[c].complete
<1>2. full \in BOOLEAN
  BY Zenon
<1>3. pool_remove_conn(p, fd, notify) =
        IF full THEN Emptied(Detached(p, c, full), c, p.conn[c].addr, notify)
        ELSE Detached(p, c, full)
  BY Zenon, <1>1 DEF pool_remove_conn, Detached, Emptied
<1>4. ASSUME full PROVE full = TRUE
  BY Zenon, <1>2, <1>4
<1>5. ASSUME ~full PROVE full = FALSE
  BY Zenon, <1>2, <1>5
<1> QED BY Zenon, <1>3, <1>4, <1>5

\* What the fields of NoConn are.
NoConnFields ==
    /\ NoConn \in ConnType /\ NoConn.stage = "free" /\ NoConn.addr = NoAddr
    /\ NoConn.complete = FALSE
    /\ \A s \in Sides : /\ NoConn.end[s] = NoEnd /\ NoConn.rcvd[s] = 0 /\ NoConn.dlvd[s] = 0

\* A connection there is not has no fields set.
LEMMA NoConnHas == NoConnFields
<1>1. NoEnd \in EndType
  <2>1. <<>> \in Seq(Nat)
    OBVIOUS
  <2> QED BY <2>1 DEF NoEnd, EndType
<1>2. [s \in Sides |-> NoEnd] \in [Sides -> EndType] /\ [s \in Sides |-> 0] \in [Sides -> Nat]
  BY <1>1
<1> QED BY <1>2 DEF NoConnFields, NoConn, ConnType

\* A connection removed in full, with or without a word to the router.
RemovedIs(p, q, c, notify) ==
    /\ q \in PoolType /\ q.conn = [p.conn EXCEPT ![c] = NoConn]
    /\ q.taken = IF notify THEN [p.taken EXCEPT ![p.conn[c].addr] = @ - 1] ELSE p.taken
    /\ q.n_conns = p.n_conns - 1 /\ q.fd_max = p.fd_max - 2
    /\ \A f \in FDs : q.route_map[f] = IF f \in {Sk(p, c, "inc"), Sk(p, c, "dst")}
                                       THEN <<>> ELSE p.route_map[f]
    /\ \A f \in FDs : q.epoll[f] = IF f \in {Sk(p, c, "inc"), Sk(p, c, "dst")}
                                   THEN Off ELSE p.epoll[f]
    /\ q.open = p.open \ {Sk(p, c, "inc"), Sk(p, c, "dst")}
    /\ q.established = p.established \ {Sk(p, c, "inc"), Sk(p, c, "dst")}
    /\ q.broken = p.broken \ {Sk(p, c, "inc"), Sk(p, c, "dst")}

\* What pool_remove_conn() does when it removes a connection in full.
LEMMA RemovedFields ==
    ASSUME NEW p, NEW c \in Conns, NEW s \in Sides, NEW fd, NEW notify \in BOOLEAN,
           p.route_map[fd] = <<c, s>>, s = "dst" \/ p.conn[c].complete,
           Ready(p, c), p.n_conns > 0, p.fd_max > 2, p.conn[c].addr \in Addrs
    PROVE  RemovedIs(p, pool_remove_conn(p, fd, notify), c, notify)
<1> DEFINE r == Detached(p, c, TRUE)
           a == p.conn[c].addr
           q == pool_remove_conn(p, fd, notify)
           t == IF notify THEN p.taken[a] - 1 ELSE p.taken[a]
           cn == [p.conn EXCEPT ![c] = NoConn]
           tk == [p.taken EXCEPT ![a] = t]
<1>1. DetachedIs(p, r, c, TRUE)
  BY Zenon, DetachedFields
<1>2. q = [r EXCEPT !.conn[c] = NoConn, !.taken[a] = IF notify THEN @ - 1 ELSE @]
  <2>1. p.conn[c].complete \in BOOLEAN
    BY PoolFields DEF Ready, ConnType
  <2>2. q = Emptied(r, c, a, notify)
    BY Zenon, <2>1, RemoveCases
  <2> QED BY Zenon, <2>2 DEF Emptied
<1> HIDE DEF r, q
<1>3. r \in PoolType /\ r.conn = p.conn /\ r.taken = p.taken
  BY <1>1 DEF DetachedIs
<1>4. q = [r EXCEPT !.conn = cn, !.taken = tk]
  <2>1. [r EXCEPT !.conn = cn].taken = p.taken
    BY <1>3 DEF PoolType
  <2>2. q = [r EXCEPT !.conn = cn,
                      !.taken = [@ EXCEPT ![a] = IF notify THEN p.taken[a] - 1 ELSE p.taken[a]]]
    BY Zenon, <1>2, <1>3, <2>1
  <2> QED BY Zenon, <2>1, <2>2
<1>5. cn \in [Conns -> ConnType] /\ tk \in [Addrs -> Int]
  <2>1. NoConn \in ConnType
    BY Zenon, NoConnHas DEF NoConnFields
  <2>2. p.conn \in [Conns -> ConnType] /\ p.taken \in [Addrs -> Int]
    BY Zenon, <1>3, PoolConns, PoolTaken
  <2> QED BY <2>1, <2>2
<1> HIDE DEF cn, tk
<1>6. /\ q \in PoolType /\ q.conn = cn /\ q.taken = tk /\ q.n_conns = r.n_conns
      /\ q.fd_max = r.fd_max /\ q.route_map = r.route_map /\ q.epoll = r.epoll
      /\ q.open = r.open /\ q.established = r.established /\ q.broken = r.broken
  BY Zenon, <1>3, <1>4, <1>5 DEF PoolType
<1>7. tk = IF notify THEN [p.taken EXCEPT ![a] = @ - 1] ELSE p.taken
  <2>1. p.taken \in [Addrs -> Int]
    BY <1>3, PoolTaken
  <2> QED BY <2>1 DEF tk
<1>8. RemovedIs(p, q, c, notify)
  <2>1. Closed(p, c, TRUE) = {Sk(p, c, "inc"), Sk(p, c, "dst")}
    BY Zenon DEF Closed
  <2>2. /\ r.n_conns = p.n_conns - 1 /\ r.fd_max = p.fd_max - 2
        /\ \A f \in FDs : r.route_map[f] = IF f \in {Sk(p, c, "inc"), Sk(p, c, "dst")}
                                           THEN <<>> ELSE p.route_map[f]
        /\ \A f \in FDs : r.epoll[f] = IF f \in {Sk(p, c, "inc"), Sk(p, c, "dst")}
                                       THEN Off ELSE p.epoll[f]
        /\ r.open = p.open \ {Sk(p, c, "inc"), Sk(p, c, "dst")}
        /\ r.established = p.established \ {Sk(p, c, "inc"), Sk(p, c, "dst")}
        /\ r.broken = p.broken \ {Sk(p, c, "inc"), Sk(p, c, "dst")}
    BY Zenon, <1>1, <2>1 DEF DetachedIs
  <2>3. /\ q.conn = [p.conn EXCEPT ![c] = NoConn]
        /\ q.taken = IF notify THEN [p.taken EXCEPT ![p.conn[c].addr] = @ - 1] ELSE p.taken
    BY Zenon, <1>6, <1>7 DEF cn
  <2>4. /\ q \in PoolType /\ q.n_conns = p.n_conns - 1 /\ q.fd_max = p.fd_max - 2
        /\ \A f \in FDs : q.route_map[f] = IF f \in {Sk(p, c, "inc"), Sk(p, c, "dst")}
                                           THEN <<>> ELSE p.route_map[f]
        /\ \A f \in FDs : q.epoll[f] = IF f \in {Sk(p, c, "inc"), Sk(p, c, "dst")}
                                       THEN Off ELSE p.epoll[f]
    <3>1. q.route_map = r.route_map /\ q.epoll = r.epoll
      BY Zenon, <1>6
    <3>2. q \in PoolType /\ q.n_conns = p.n_conns - 1 /\ q.fd_max = p.fd_max - 2
      BY Zenon, <1>6, <2>2
    <3>3. \A f \in FDs : r.route_map[f] = IF f \in {Sk(p, c, "inc"), Sk(p, c, "dst")}
                                         THEN <<>> ELSE p.route_map[f]
      BY Zenon, <2>2
    <3>4. \A f \in FDs : r.epoll[f] = IF f \in {Sk(p, c, "inc"), Sk(p, c, "dst")}
                                     THEN Off ELSE p.epoll[f]
      BY Zenon, <2>2
    <3> QED BY Zenon, <3>1, <3>2, <3>3, <3>4
  <2>5. /\ q.open = p.open \ {Sk(p, c, "inc"), Sk(p, c, "dst")}
        /\ q.established = p.established \ {Sk(p, c, "inc"), Sk(p, c, "dst")}
        /\ q.broken = p.broken \ {Sk(p, c, "inc"), Sk(p, c, "dst")}
    BY Zenon, <1>6, <2>2
  <2> QED BY Zenon, <2>3, <2>4, <2>5 DEF RemovedIs
<1> QED BY Zenon, <1>8 DEF q

\* It keeps the pool in order.
LEMMA RemovedKept ==
    ASSUME NEW p, NEW q, NEW c \in Served(p), Kept(p), RemovedIs(p, q, c, TRUE)
    PROVE  Kept(q)
<1> DEFINE S == Served(p)
           T == S \ {c}
           i == Sk(p, c, "inc")
           d == Sk(p, c, "dst")
<1>0. /\ Good(p, S) /\ c \in Conns /\ p \in PoolType /\ S \in SUBSET Conns
      /\ q \in PoolType /\ p.conn \in [Conns -> ConnType]
  BY PoolFields DEF Kept, Good, Served, RemovedIs
<1>1. i \in FDs /\ d \in FDs /\ IsLive(p, c) /\ p.conn[c].addr \in Addrs
  BY <1>0 DEF Good
<1>2. q.conn[c] = NoConn /\ \A b \in Conns : b # c => q.conn[b] = p.conn[b]
  BY <1>0 DEF RemovedIs
<1>3. ~IsLive(q, c) /\ Ends(q, c) = {} /\ Ends(p, c) = {i, d}
  BY <1>1, <1>2, NoConnHas, PoolConnAssumption DEF IsLive, Ends, NoConnFields
<1>4. \A b \in Conns : b # c => (b \in S <=> b \in T) /\ SameView(p, q, b)
  BY <1>2 DEF SameView, Sk
<1>5. q.open = (p.open \ Ends(p, c)) \cup Ends(q, c)
  BY <1>3 DEF RemovedIs
<1>6. \A f \in FDs : q.route_map[f] = IF f \in Ends(p, c) THEN <<>> ELSE p.route_map[f]
  BY <1>3 DEF RemovedIs
<1>7. \A f \in FDs : q.epoll[f] = Off <=> q.route_map[f] = <<>>
  BY <1>0 DEF Good, Mapped, RemovedIs
<1>8. q.n_conns = p.n_conns + N(c \in T) - N(c \in S)
      /\ q.fd_max = p.fd_max + 2 * (N(c \in T) - N(c \in S))
  <2>1. N(c \in T) = 0 /\ N(c \in S) = 1
    BY DEF N
  <2>2. q.n_conns = p.n_conns - 1 /\ q.fd_max = p.fd_max - 2
    BY DEF RemovedIs
  <2>3. p.n_conns \in Nat /\ p.fd_max \in Nat
    BY <1>0, PoolNumbers
  <2> HIDE DEF S, T
  <2> QED BY <2>1, <2>2, <2>3
<1>9. ASSUME NEW a \in Addrs
      PROVE  q.taken[a] = p.taken[a] + N(Holds(q, c, a)) - N(Holds(p, c, a))
  <2>1. p.taken \in [Addrs -> Int] /\ q.taken = [p.taken EXCEPT ![p.conn[c].addr] = @ - 1]
    BY <1>0, PoolTaken DEF RemovedIs
  <2>2. N(Holds(q, c, a)) = 0
    BY <1>3 DEF Holds, N
  <2>3. N(Holds(p, c, a)) = IF p.conn[c].addr = a THEN 1 ELSE 0
    BY <1>1 DEF Holds, N
  <2>4. q.taken[a] = IF p.conn[c].addr = a THEN p.taken[a] - 1 ELSE p.taken[a]
    BY <1>1, <2>1
  <2>5. p.taken[a] \in Int
    BY <2>1
  <2> QED BY <2>2, <2>3, <2>4, <2>5
<1>10. Good(q, T)
  <2> T \in SUBSET Conns /\ c \notin T /\ c \in S
    BY <1>0
  <2> HIDE DEF T, S
  <2>1. OneStep(p, q, S, T, c)
    <3>1. q.established \subseteq q.open /\ q.established \subseteq p.established
      BY <1>0 DEF Good, Known, RemovedIs
    <3> QED BY Zenon, <1>0, <1>3, <1>4, <1>5, <1>6, <1>7, <1>8, <1>9, <3>1 DEF OneStep
  <2> QED BY <1>0, <2>1, OneConn
<1>11. Served(q) = T
  BY <1>0, <1>2, NoConnHas DEF Served, NoConnFields
<1> QED BY <1>10, <1>11 DEF Kept

\* What pool_set_conn_end() does.
SetEndIs(p, q, c, s, ev) ==
    /\ q \in PoolType
    /\ \A d \in Conns : d # c => q.conn[d] = p.conn[d]
    /\ SameData(p, q, c) /\ \A d \in Conns : SameView(p, q, d)
    /\ \A t \in Sides : q.conn[c].end[t].events = IF t = s THEN ev
                                                  ELSE p.conn[c].end[t].events
    /\ \A f \in FDs : q.epoll[f] = IF f = Sk(p, c, s) THEN ev ELSE p.epoll[f]
    /\ \A f \in FDs : q.route_map[f] = IF f = Sk(p, c, s) THEN <<c, Other(s)>>
                                       ELSE p.route_map[f]
    /\ q.fd_max = p.fd_max + 1 /\ q.n_conns = p.n_conns /\ q.open = p.open
    /\ q.taken = p.taken /\ q.established = p.established /\ q.broken = p.broken

\* The events pool_set_conn_end() asks for.
Asked(p, c, s) == IF s = "dst" /\ ~p.conn[c].complete THEN {"W"} ELSE {"R"}

\* What pool_set_conn_end() does to the pool.
LEMMA SetEndFields ==
    ASSUME NEW p \in PoolType, NEW c \in Conns, NEW s \in Sides, Sk(p, c, s) \in FDs
    PROVE  SetEndIs(p, pool_set_conn_end(p, c, s), c, s, Asked(p, c, s))
<1> DEFINE k == p.conn[c]
           fd == Sk(p, c, s)
           ev == Asked(p, c, s)
           e == [k.end[s] EXCEPT !.events = ev]
           w == With(k, s, e, k.rcvd, k.dlvd)
           cn == [p.conn EXCEPT ![c] = w]
           ep == [p.epoll EXCEPT ![fd] = ev]
           fm == p.fd_max + 1
           rm == [p.route_map EXCEPT ![fd] = <<c, Other(s)>>]
           q == pool_set_conn_end(p, c, s)
<1>1. k \in ConnType /\ k.end[s] \in EndType
  BY PoolFields
<1>2. ev \in SUBSET RW /\ Other(s) \in Sides
  BY OtherSides DEF Asked, RW, Sides
<1>3. q = [p EXCEPT !.conn = cn, !.epoll = ep, !.fd_max = fm, !.route_map = rm]
  <2>1. w = [k EXCEPT !.end[s].events = ev]
    <3> HIDE DEF k, ev
    <3> QED BY Zenon, <1>1 DEF With, ConnType
  <2>2. [p.conn EXCEPT ![c].end[s].events = ev] = cn
    BY <2>1
  <2> HIDE DEF cn, w
  <2>3. [p EXCEPT !.conn = cn].epoll = p.epoll
    BY DEF PoolType
  <2>4. [p EXCEPT !.conn = cn, !.epoll = ep].fd_max = p.fd_max
    BY DEF PoolType
  <2>5. [p EXCEPT !.conn = cn, !.epoll = ep, !.fd_max = fm].route_map = p.route_map
    BY DEF PoolType
  <2>6. q = [p EXCEPT !.conn[c].end[s].events = ev, !.epoll[fd] = ev, !.fd_max = @ + 1,
                      !.route_map[fd] = <<c, Other(s)>>]
    BY Zenon DEF pool_set_conn_end, Asked, Sk
  <2> QED BY Zenon, <2>2, <2>3, <2>4, <2>5, <2>6
<1> HIDE DEF ev
<1>4. /\ e \in EndType /\ e.sock = Sk(p, c, s) /\ e.events = ev
      /\ e.buf = k.end[s].buf /\ e.sent = k.end[s].sent
  BY Zenon, <1>1, <1>2 DEF EndType, Sk
<1> HIDE DEF e
<1>5. k.rcvd \in [Sides -> Nat] /\ k.dlvd \in [Sides -> Nat]
  BY <1>1 DEF ConnType
<1>6. /\ w \in ConnType /\ w.stage = k.stage /\ w.addr = k.addr
      /\ w.complete = k.complete /\ w.rcvd = k.rcvd /\ w.dlvd = k.dlvd
      /\ \A t \in Sides : w.end[t] = IF t = s THEN e ELSE k.end[t]
  <2> HIDE DEF k
  <2>1. WithIs(w, k, s, e, k.rcvd, k.dlvd)
    BY Zenon, <1>1, <1>4, <1>5, WithFields
  <2> QED BY Zenon, <2>1 DEF WithIs
<1> HIDE DEF w
<1>7. /\ cn \in [Conns -> ConnType] /\ cn[c] = w
      /\ \A d \in Conns : d # c => cn[d] = p.conn[d]
  BY <1>6, PoolFields
<1>8. /\ ep \in [FDs -> (SUBSET RW) \cup {Off}]
      /\ \A f \in FDs : ep[f] = IF f = fd THEN ev ELSE p.epoll[f]
  BY <1>2, PoolFields
<1>9. /\ rm \in [FDs -> (Conns \X Sides) \cup {<<>>}]
      /\ \A f \in FDs : rm[f] = IF f = fd THEN <<c, Other(s)>> ELSE p.route_map[f]
  BY <1>2, PoolFields
<1>10. fm \in Nat
  BY PoolNumbers
<1> HIDE DEF cn, ep, rm, fm, q, fd
<1>11. /\ q \in PoolType /\ q.conn = cn /\ q.epoll = ep /\ q.fd_max = fm /\ q.route_map = rm
       /\ q.n_conns = p.n_conns /\ q.open = p.open
       /\ q.taken = p.taken /\ q.established = p.established /\ q.broken = p.broken
  BY Zenon, <1>3, <1>7, <1>8, <1>9, <1>10 DEF PoolType
<1>12. \A t \in Sides : /\ q.conn[c].end[t].sock = p.conn[c].end[t].sock
                        /\ q.conn[c].end[t].buf = p.conn[c].end[t].buf
                        /\ q.conn[c].end[t].sent = p.conn[c].end[t].sent
                        /\ q.conn[c].end[t].events = IF t = s THEN ev
                                                     ELSE p.conn[c].end[t].events
  BY <1>4, <1>6, <1>7, <1>11 DEF Sk
<1>13. SameData(p, q, c) /\ \A d \in Conns : SameView(p, q, d)
  BY Zenon, <1>6, <1>7, <1>11, <1>12 DEF SameData, SameView, Sk, Sides
<1>14. SetEndIs(p, q, c, s, ev)
  BY <1>7, <1>8, <1>9, <1>11, <1>12, <1>13 DEF SetEndIs, fm, fd
<1> QED BY <1>14 DEF q, ev

\* Both ends given to epoll and to route_map.
ServeIs(p, q, c) ==
    /\ q \in PoolType
    /\ \A d \in Conns : d # c => q.conn[d] = p.conn[d]
    /\ SameData(p, q, c)
    /\ q.conn[c].stage = "served" /\ q.conn[c].addr = p.conn[c].addr
    /\ \A t \in Sides : /\ Sk(q, c, t) = Sk(p, c, t)
                        /\ q.conn[c].end[t].events = Asked(p, c, t)
                        /\ q.epoll[Sk(p, c, t)] = Asked(p, c, t)
                        /\ q.route_map[Sk(p, c, t)] = <<c, Other(t)>>
    /\ \A f \in FDs : f \notin {Sk(p, c, "inc"), Sk(p, c, "dst")} =>
           q.epoll[f] = p.epoll[f] /\ q.route_map[f] = p.route_map[f]
    /\ q.fd_max = p.fd_max + 2 /\ q.n_conns = p.n_conns + 1 /\ q.open = p.open
    /\ q.taken = p.taken /\ q.established = p.established /\ q.broken = p.broken

\* What serving a connection does to the pool.
LEMMA ServeFields ==
    ASSUME NEW p \in PoolType, NEW c \in Conns,
           Sk(p, c, "inc") \in FDs, Sk(p, c, "dst") \in FDs, Sk(p, c, "inc") # Sk(p, c, "dst")
    PROVE  ServeIs(p, Serve(p, c), c)
<1> DEFINE a == pool_set_conn_end(p, c, "inc")
           b == pool_set_conn_end(a, c, "dst")
           nc == b.n_conns + 1
           w == [b.conn[c] EXCEPT !.stage = "served"]
           cn == [b.conn EXCEPT ![c] = w]
           q == Serve(p, c)
           i == Sk(p, c, "inc")
           d == Sk(p, c, "dst")
<1>0. "inc" \in Sides /\ "dst" \in Sides /\ Sides = {"inc", "dst"}
  BY DEF Sides
<1>1. SetEndIs(p, a, c, "inc", Asked(p, c, "inc"))
  BY <1>0, SetEndFields
<1> HIDE DEF a
<1>2. a \in PoolType /\ Sk(a, c, "dst") = d /\ Sk(a, c, "inc") = i
      /\ Asked(a, c, "dst") = Asked(p, c, "dst")
  BY <1>1 DEF SetEndIs, SameView, SameData, Asked
<1>3. SetEndIs(a, b, c, "dst", Asked(p, c, "dst"))
  BY <1>0, <1>2, SetEndFields
<1>4. q = [b EXCEPT !.n_conns = nc, !.conn = cn]
  <2>1. b \in PoolType
    BY <1>3 DEF SetEndIs
  <2>2. q = [b EXCEPT !.n_conns = @ + 1, !.conn[c].stage = "served"]
    BY Zenon DEF Serve, a
  <2> HIDE DEF b
  <2>3. [b EXCEPT !.n_conns = nc].conn = b.conn
    BY <2>1 DEF PoolType
  <2> QED BY <2>2, <2>3
<1> HIDE DEF b
<1>5. b \in PoolType /\ b.conn[c] \in ConnType /\ b.conn \in [Conns -> ConnType] /\ nc \in Nat
  <2>1. b \in PoolType
    BY <1>3 DEF SetEndIs
  <2>2. b.conn \in [Conns -> ConnType] /\ b.n_conns \in Nat
    BY Zenon, <2>1, PoolConns, PoolNumbers
  <2> QED BY <2>1, <2>2
<1>6. /\ w \in ConnType /\ w.stage = "served" /\ w.addr = b.conn[c].addr
      /\ w.end = b.conn[c].end /\ w.complete = b.conn[c].complete
      /\ w.rcvd = b.conn[c].rcvd /\ w.dlvd = b.conn[c].dlvd
  BY Zenon, <1>5 DEF ConnType
<1> HIDE DEF w
<1>7. cn \in [Conns -> ConnType] /\ cn[c] = w /\ \A x \in Conns : x # c => cn[x] = b.conn[x]
  BY <1>5, <1>6
<1> HIDE DEF cn, nc, q
<1>8. /\ q \in PoolType /\ q.conn = cn /\ q.n_conns = nc /\ q.epoll = b.epoll
      /\ q.fd_max = b.fd_max /\ q.route_map = b.route_map /\ q.open = b.open
      /\ q.taken = b.taken /\ q.established = b.established /\ q.broken = b.broken
  BY Zenon, <1>4, <1>5, <1>7 DEF PoolType
<1>9. \A t \in Sides : /\ q.conn[c].end[t].sock = p.conn[c].end[t].sock
                       /\ q.conn[c].end[t].buf = p.conn[c].end[t].buf
                       /\ q.conn[c].end[t].sent = p.conn[c].end[t].sent
                       /\ q.conn[c].end[t].events = Asked(p, c, t)
  <2>1. q.conn[c].end = b.conn[c].end
    BY <1>6, <1>7, <1>8
  <2>2. \A t \in Sides : Sk(b, c, t) = Sk(p, c, t)
    <3>1. SameView(p, a, c) /\ SameView(a, b, c)
      BY <1>1, <1>3 DEF SetEndIs
    <3> QED BY <1>0, <3>1 DEF SameView
  <2>3. \A t \in Sides : /\ b.conn[c].end[t].buf = p.conn[c].end[t].buf
                        /\ b.conn[c].end[t].sent = p.conn[c].end[t].sent
    <3>1. SameData(p, a, c) /\ SameData(a, b, c)
      BY <1>1, <1>3 DEF SetEndIs
    <3> QED BY Zenon, <3>1 DEF SameData
  <2>4. \A t \in Sides : b.conn[c].end[t].events = Asked(p, c, t)
    BY Zenon, <1>0, <1>1, <1>3 DEF SetEndIs
  <2> QED BY <2>1, <2>2, <2>3, <2>4 DEF Sk
<1>10. SameData(p, q, c) /\ q.conn[c].stage = "served" /\ q.conn[c].addr = p.conn[c].addr
  <2>1. /\ b.conn[c].complete = p.conn[c].complete /\ b.conn[c].rcvd = p.conn[c].rcvd
        /\ b.conn[c].dlvd = p.conn[c].dlvd
    BY Zenon, <1>1, <1>3 DEF SetEndIs, SameData
  <2>2. b.conn[c].addr = p.conn[c].addr
    <3>1. SameView(p, a, c) /\ SameView(a, b, c)
      BY <1>1, <1>3 DEF SetEndIs
    <3> QED BY <3>1 DEF SameView
  <2>3. q.conn[c] = w
    BY <1>7, <1>8
  <2> QED BY Zenon, <1>6, <1>9, <2>1, <2>2, <2>3 DEF SameData
<1> HIDE DEF i, d
<1>11. \A f \in FDs :
         /\ q.epoll[f] = IF f = d THEN Asked(p, c, "dst")
                         ELSE IF f = i THEN Asked(p, c, "inc") ELSE p.epoll[f]
         /\ q.route_map[f] = IF f = d THEN <<c, "inc">>
                             ELSE IF f = i THEN <<c, "dst">> ELSE p.route_map[f]
  <2>1. \A f \in FDs :
           /\ b.epoll[f] = IF f = d THEN Asked(p, c, "dst") ELSE a.epoll[f]
           /\ b.route_map[f] = IF f = d THEN <<c, "inc">> ELSE a.route_map[f]
    BY Zenon, <1>2, <1>3, OtherSides DEF SetEndIs
  <2>2. \A f \in FDs :
           /\ a.epoll[f] = IF f = i THEN Asked(p, c, "inc") ELSE p.epoll[f]
           /\ a.route_map[f] = IF f = i THEN <<c, "dst">> ELSE p.route_map[f]
    BY Zenon, <1>1, OtherSides DEF SetEndIs, i
  <2> QED BY Zenon, <1>8, <2>1, <2>2
<1>12. q.fd_max = p.fd_max + 2 /\ q.n_conns = p.n_conns + 1
  <2>1. a.fd_max = p.fd_max + 1 /\ a.n_conns = p.n_conns
    BY <1>1 DEF SetEndIs
  <2>2. b.fd_max = a.fd_max + 1 /\ b.n_conns = a.n_conns
    BY <1>3 DEF SetEndIs
  <2> QED BY <1>8, <2>1, <2>2, PoolNumbers DEF nc
<1>13. \A x \in Conns : x # c => q.conn[x] = p.conn[x]
  <2>1. \A x \in Conns : x # c => a.conn[x] = p.conn[x] /\ b.conn[x] = a.conn[x]
    BY Zenon, <1>1, <1>3 DEF SetEndIs
  <2> QED BY Zenon, <1>7, <1>8, <2>1
<1>14. q.open = p.open /\ q.taken = p.taken /\ q.established = p.established
       /\ q.broken = p.broken
  BY <1>1, <1>3, <1>8 DEF SetEndIs
<1>15. \A t \in Sides : /\ Sk(q, c, t) = Sk(p, c, t)
                        /\ q.epoll[Sk(p, c, t)] = Asked(p, c, t)
                        /\ q.route_map[Sk(p, c, t)] = <<c, Other(t)>>
  <2>1. i \in FDs /\ d \in FDs /\ i # d
    BY DEF i, d
  <2>2. /\ q.epoll[i] = Asked(p, c, "inc") /\ q.route_map[i] = <<c, "dst">>
        /\ q.epoll[d] = Asked(p, c, "dst") /\ q.route_map[d] = <<c, "inc">>
    BY <1>11, <2>1
  <2>3. \A t \in Sides : Sk(q, c, t) = Sk(p, c, t)
    BY <1>9 DEF Sk
  <2> QED BY <1>0, <2>2, <2>3, OtherSides DEF i, d
<1>16. ServeIs(p, q, c)
  BY Zenon, <1>8, <1>9, <1>10, <1>11, <1>12, <1>13, <1>14, <1>15 DEF ServeIs, i, d
<1> QED BY <1>16 DEF q

\* It keeps the pool in order, which then serves one connection more.
LEMMA ServeGood ==
    ASSUME NEW p, NEW q, NEW S, NEW c \in Conns, Good(p, S), c \notin S, IsLive(p, c),
           Sk(p, c, "dst") \in FDs, ServeIs(p, q, c)
    PROVE  Good(q, S \cup {c})
<1> DEFINE T == S \cup {c}
           i == Sk(p, c, "inc")
           d == Sk(p, c, "dst")
<1>0. p \in PoolType /\ q \in PoolType /\ S \in SUBSET Conns /\ T \in SUBSET Conns
      /\ i \in FDs /\ d \in FDs /\ i # d /\ p.conn[c].addr \in Addrs
  BY DEF Good, Sockets, ServeIs
<1>1. /\ Sk(q, c, "inc") = i /\ Sk(q, c, "dst") = d /\ q.conn[c].addr = p.conn[c].addr
      /\ IsLive(q, c)
  BY DEF ServeIs, Sides, IsLive
<1>2. Ends(q, c) = Ends(p, c) /\ Ends(p, c) = {i, d}
  BY <1>0, <1>1, PoolConnAssumption DEF Ends
<1>3. \A b \in Conns : b # c => (b \in S <=> b \in T) /\ SameView(p, q, b)
  BY Zenon DEF ServeIs, SameView, Sk
<1>4. q.open = (p.open \ Ends(p, c)) \cup Ends(q, c)
  <2>1. \A f \in FDs : f \in p.open <=> \E b \in Conns : f \in Ends(p, b)
    BY Zenon DEF Good, Sockets
  <2>2. {i, d} \subseteq p.open /\ q.open = p.open
    BY <1>0, <1>2, <2>1 DEF ServeIs
  <2> HIDE DEF i, d
  <2> QED BY <1>2, <2>2
<1>5. q.route_map[i] = <<c, "dst">> /\ q.route_map[d] = <<c, "inc">>
  BY OtherSides DEF ServeIs, Sides
<1>6. \A f \in FDs : f \notin Ends(q, c) => q.route_map[f] = p.route_map[f]
  BY <1>2 DEF ServeIs
<1>7. \A f \in FDs : q.epoll[f] = Off <=> q.route_map[f] = <<>>
  <2>1. \A f \in FDs : p.epoll[f] = Off <=> p.route_map[f] = <<>>
    BY DEF Good, Mapped
  <2>2. q.epoll[i] # Off /\ q.epoll[d] # Off
    BY DEF ServeIs, Sides, Asked, Off
  <2>3. <<c, "dst">> # <<>> /\ <<c, "inc">> # <<>>
    OBVIOUS
  <2>4. ASSUME NEW f \in FDs, f \notin {i, d}
        PROVE  q.epoll[f] = p.epoll[f] /\ q.route_map[f] = p.route_map[f]
    BY <2>4 DEF ServeIs
  <2> HIDE DEF i, d
  <2> QED BY <1>5, <2>1, <2>2, <2>3, <2>4
<1>8. q.n_conns = p.n_conns + N(c \in T) - N(c \in S)
      /\ q.fd_max = p.fd_max + 2 * (N(c \in T) - N(c \in S))
  <2>1. N(c \in T) = 1 /\ N(c \in S) = 0
    BY DEF N
  <2>2. q.n_conns = p.n_conns + 1 /\ q.fd_max = p.fd_max + 2
    BY DEF ServeIs
  <2>3. p.n_conns \in Nat /\ p.fd_max \in Nat
    BY <1>0, PoolNumbers
  <2> HIDE DEF T
  <2> QED BY <2>1, <2>2, <2>3
<1>9. ASSUME NEW a \in Addrs
      PROVE  q.taken[a] = p.taken[a] + N(Holds(q, c, a)) - N(Holds(p, c, a))
  <2>1. p.taken \in [Addrs -> Int] /\ q.taken = p.taken
    BY <1>0, PoolTaken DEF ServeIs
  <2>2. Holds(q, c, a) <=> Holds(p, c, a)
    BY <1>1 DEF Holds
  <2>3. N(Holds(q, c, a)) = N(Holds(p, c, a)) /\ N(Holds(p, c, a)) \in Int
    BY <2>2 DEF N
  <2>4. p.taken[a] \in Int /\ q.taken[a] = p.taken[a]
    BY <2>1
  <2> DEFINE m == N(Holds(p, c, a))
             n == N(Holds(q, c, a))
  <2>5. m \in Int /\ n = m
    BY <2>3
  <2> HIDE DEF m, n
  <2>6. q.taken[a] = p.taken[a] + n - m
    BY <2>4, <2>5
  <2> QED BY <2>6 DEF m, n
<1>10. /\ \A f \in Ends(q, c) : f \in p.open => f \in Ends(p, c)
       /\ IsLive(q, c) => /\ q.conn[c].addr \in Addrs /\ Sk(q, c, "inc") \in FDs
                          /\ Sk(q, c, "inc") # Sk(q, c, "dst")
       /\ c \in T => IsLive(q, c) /\ Sk(q, c, "dst") \in FDs
       /\ c \in T => /\ q.route_map[Sk(q, c, "inc")] = <<c, "dst">>
                     /\ q.route_map[Sk(q, c, "dst")] = <<c, "inc">>
  BY <1>0, <1>1, <1>2, <1>5
<1>11. \A f \in FDs : ~(c \in T /\ f \in Ends(q, c)) =>
         q.route_map[f] = IF c \in S /\ f \in Ends(p, c) THEN <<>> ELSE p.route_map[f]
  BY <1>6
<1>12. Good(q, T)
  <2> HIDE DEF T
  <2>1. OneStep(p, q, S, T, c)
    <3>1. /\ q.established = p.established /\ q.established \subseteq q.open
          /\ q.conn[c].complete = p.conn[c].complete
      BY Zenon DEF Good, Known, ServeIs, SameData
    <3>2. ~q.conn[c].complete => Sk(q, c, "dst") \notin q.established
      BY <1>1, <3>1 DEF Good, Known
    <3> QED BY Zenon, <1>0, <1>3, <1>4, <1>7, <1>8, <1>9, <1>10, <1>11, <3>1, <3>2 DEF OneStep
  <2> QED BY <2>1, OneConn
<1> QED BY <1>12

\* What a removal leaves of the pool, in full or not.
Less(p, q, c) ==
    /\ q \in PoolType /\ q.n_conns = p.n_conns - 1 /\ q.fd_max = p.fd_max - 2
    /\ q.conn[c] = p.conn[c] \/ q.conn[c] = NoConn
    /\ \A d \in Conns : d # c => q.conn[d] = p.conn[d]
    /\ \A f \in FDs : f \notin {Sk(p, c, "inc"), Sk(p, c, "dst")} =>
                          q.route_map[f] = p.route_map[f] /\ q.epoll[f] = p.epoll[f]

\* pool_remove_conn() leaves the other connections alone.
LEMMA RemoveLess ==
    ASSUME NEW p, NEW c \in Conns, NEW s \in Sides, NEW fd, p.route_map[fd] = <<c, s>>,
           Ready(p, c), p.n_conns > 0, p.fd_max > 2, p.conn[c].addr \in Addrs
    PROVE  Less(p, pool_remove_conn(p, fd, FALSE), c)
<1> DEFINE q == pool_remove_conn(p, fd, FALSE)
<1>0. p.conn \in [Conns -> ConnType] /\ p.conn[c].complete \in BOOLEAN
  BY PoolConns DEF Ready, ConnType
<1>1. CASE s = "dst" \/ p.conn[c].complete
  <2>1. RemovedIs(p, q, c, FALSE)
    BY Zenon, <1>1, RemovedFields
  <2> HIDE DEF q
  <2>2. q.conn[c] = NoConn /\ \A d \in Conns : d # c => q.conn[d] = p.conn[d]
    BY <1>0, <2>1 DEF RemovedIs
  <2>3. Less(p, q, c)
    BY Zenon, <2>1, <2>2 DEF RemovedIs, Less
  <2> QED BY Zenon, <2>3 DEF q
<1>2. CASE ~(s = "dst" \/ p.conn[c].complete)
  <2>1. q = Detached(p, c, FALSE)
    BY Zenon, <1>0, <1>2, RemoveCases
  <2>2. DetachedIs(p, Detached(p, c, FALSE), c, FALSE)
    BY Zenon, DetachedFields
  <2>3. DetachedIs(p, q, c, FALSE)
    BY Zenon, <2>1, <2>2
  <2> HIDE DEF q
  <2>4. Less(p, q, c)
    BY Zenon, <2>3 DEF DetachedIs, Less
  <2> QED BY Zenon, <2>4 DEF q
<1> QED BY Zenon, <1>1, <1>2

-----------------------------------------------------------------------------
(* What it means for the data to be in order                              *)

\* The length of a buffer is a number,
LEMMA LenNat == \A x \in Seq(Nat) : Len(x) \in Nat
OBVIOUS

\* lengths add up,
LEMMA LenAdds == \A x, y \in Seq(Nat) : Len(x \o y) = Len(x) + Len(y)
OBVIOUS

\* and are compared and subtracted as numbers.
LEMMA Amounts ==
    /\ \A x, y \in Nat : x <= y => x = y \/ x < y
    /\ \A x, y \in Nat : \A i \in 1..(x - y) : i \in Nat
    /\ \A x, y, z \in Nat : x - y \in Int /\ x - y - z \in Int
OBVIOUS

\* All other connections, and what is known of their sockets, are the same.
Others(p, q, c) ==
    /\ \A d \in Conns : d # c => q.conn[d] = p.conn[d]
    /\ \A f \in FDs : f \in p.open /\ f \notin Ends(p, c) =>
           q.epoll[f] = p.epoll[f] /\ (f \in q.broken <=> f \in p.broken)

\* The bytes of a buffer from sent on are those received and not delivered.
InOrder(buf, sent, rcvd, dlvd) ==
    /\ dlvd <= rcvd /\ sent + (rcvd - dlvd) = Len(buf) /\ Len(buf) <= BufSize
    /\ buf # <<>> => dlvd < rcvd
    /\ \A i \in 1..(rcvd - dlvd) : buf[sent + i] = dlvd + i

\* Both buffers of a connection are in order.
Ordered(p, c) ==
    \A s \in Sides : InOrder(p.conn[c].end[s].buf, p.conn[c].end[s].sent,
                             p.conn[c].rcvd[s], p.conn[c].dlvd[s])

\* Nothing moves over a destination that is not connected.
Fresh(p, c) ==
    ~p.conn[c].complete => p.conn[c].dlvd["dst"] = 0 /\ p.conn[c].rcvd["inc"] = 0

\* Nothing has moved at all.
Quiet(p, c) == p.conn[c].complete => \A s \in Sides : p.conn[c].rcvd[s] = 0

\* epoll has the events of both ends.
Told(p, c) == \A s \in Sides : p.epoll[Sk(p, c, s)] = p.conn[c].end[s].events

\* An end with bytes to send waits until it can send them, unless send() has
\* failed on it for good.
CanSend(p, c, s) ==
    \/ p.conn[c].end[s].buf = <<>> \/ Sk(p, c, s) \in p.broken
    \/ "W" \in p.conn[c].end[s].events

\* An end is read unless the buffer it fills is full, or it is not connected.
CanRead(p, c, s) ==
    \/ "R" \in p.conn[c].end[s].events \/ Len(p.conn[c].end[Other(s)].buf) = BufSize
    \/ s = "dst" /\ ~p.conn[c].complete

\* A destination that is not connected is waited for.
Waits(p, c) == p.conn[c].complete \/ "W" \in p.conn[c].end["dst"].events

\* What holds of a connection whose end s has something to send.
Sending(p, c, s) ==
    /\ Told(p, c) /\ Ordered(p, c) /\ Fresh(p, c) /\ Waits(p, c)
    /\ CanSend(p, c, Other(s)) /\ CanRead(p, c, s)

\* What holds of a connection that is served.
Sound(p, c) ==
    /\ Told(p, c) /\ Ordered(p, c) /\ Fresh(p, c) /\ Waits(p, c)
    /\ \A s \in Sides : CanSend(p, c, s) /\ CanRead(p, c, s)

\* What holds of the data of a connection when those served are S; before it is
\* served nothing has moved over it.
ConnData(p, S, c) ==
    IsLive(p, c) => IF c \in S THEN Sound(p, c)
                    ELSE Ordered(p, c) /\ Fresh(p, c) /\ Quiet(p, c)

\* It holds of all connections.
DataOK(p, S) == \A c \in Conns : ConnData(p, S, c)

\* It holds of all but one.
DataOff(p, S, c) == \A d \in Conns : d # c => ConnData(p, S, d)

-----------------------------------------------------------------------------
(* Buffers                                                                 *)

\* Sending takes bytes from the front; the buffer is reset when none is left.
LEMMA InOrderSent ==
    ASSUME NEW buf \in Seq(Nat), NEW sent \in Nat, NEW rcvd \in Nat, NEW dlvd \in Nat,
           InOrder(buf, sent, rcvd, dlvd), NEW n \in 1..(Len(buf) - sent)
    PROVE  /\ sent + n = Len(buf) => InOrder(<<>>, 0, rcvd, dlvd + n)
           /\ sent + n # Len(buf) => InOrder(buf, sent + n, rcvd, dlvd + n)
<1>1. Len(buf) \in Nat /\ BufSize \in Nat /\ n \in Nat
  BY PoolConnAssumption
<1>2. /\ dlvd <= rcvd /\ sent + (rcvd - dlvd) = Len(buf) /\ Len(buf) <= BufSize
      /\ \A i \in 1..(rcvd - dlvd) : buf[sent + i] = dlvd + i
  BY DEF InOrder
<1>3. ASSUME sent + n = Len(buf) PROVE InOrder(<<>>, 0, rcvd, dlvd + n)
  <2>1. dlvd + n = rcvd
    BY <1>1, <1>2, <1>3
  <2> QED BY <1>1, <2>1 DEF InOrder
<1>4. ASSUME sent + n # Len(buf) PROVE InOrder(buf, sent + n, rcvd, dlvd + n)
  <2>1. dlvd + n < rcvd /\ (sent + n) + (rcvd - (dlvd + n)) = Len(buf)
    <3> DEFINE l == Len(buf)
    <3>1. l \in Nat /\ n \in Nat /\ n <= l - sent /\ sent + n # l /\ sent + (rcvd - dlvd) = l
      BY <1>1, <1>2, <1>4
    <3> HIDE DEF l
    <3>2. dlvd + n < rcvd /\ (sent + n) + (rcvd - (dlvd + n)) = l
      BY <3>1
    <3> QED BY <3>2 DEF l
  <2>2. ASSUME NEW i \in 1..(rcvd - (dlvd + n)) PROVE buf[(sent + n) + i] = (dlvd + n) + i
    <3>1. n + i \in 1..(rcvd - dlvd)
      BY <1>1, <2>1
    <3>2. buf[sent + (n + i)] = dlvd + (n + i)
      BY Zenon, <1>2, <3>1
    <3>3. sent + (n + i) = (sent + n) + i /\ dlvd + (n + i) = (dlvd + n) + i
      BY <1>1, <2>1
    <3> QED BY <3>2, <3>3
  <2> QED BY <1>1, <1>2, <2>1, <2>2 DEF InOrder
<1> QED BY <1>3, <1>4

\* Receiving puts bytes behind those there.
LEMMA InOrderReceived ==
    ASSUME NEW buf \in Seq(Nat), NEW sent \in Nat, NEW rcvd \in Nat, NEW dlvd \in Nat,
           InOrder(buf, sent, rcvd, dlvd), NEW n \in Nat \ {0}, n <= BufSize - Len(buf)
    PROVE  InOrder(buf \o [i \in 1..n |-> rcvd + i], sent, rcvd + n, dlvd)
<1> DEFINE more == [i \in 1..n |-> rcvd + i]
           b == buf \o more
<1>1. Len(buf) \in Nat /\ BufSize \in Nat
  BY PoolConnAssumption
<1>2. /\ dlvd <= rcvd /\ sent + (rcvd - dlvd) = Len(buf)
      /\ \A i \in 1..(rcvd - dlvd) : buf[sent + i] = dlvd + i
  BY DEF InOrder
<1>3. more \in Seq(Nat) /\ Len(more) = n /\ \A i \in 1..n : more[i] = rcvd + i
  <2>1. \A i \in 1..n : rcvd + i \in Nat
    OBVIOUS
  <2> QED BY <2>1
<1> HIDE DEF more
<1>4. /\ Len(b) = Len(buf) + n
      /\ \A i \in 1..Len(buf) : b[i] = buf[i]
      /\ \A i \in 1..n : b[Len(buf) + i] = more[i]
  <2>1. Len(b) = Len(buf) + n
    BY <1>3, LenAdds
  <2>2. \A i \in 1..Len(buf) : b[i] = buf[i]
    BY <1>1, <1>3
  <2>3. ASSUME NEW i \in 1..n PROVE b[Len(buf) + i] = more[i]
    <3>1. Len(buf) + i \in 1..(Len(buf) + Len(more)) /\ ~(Len(buf) + i <= Len(buf))
          /\ (Len(buf) + i) - Len(buf) = i
      BY <1>1, <1>3
    <3> QED BY <1>1, <1>3, <3>1
  <2> QED BY <2>1, <2>2, <2>3
<1> HIDE DEF b
<1>5. ASSUME NEW i \in 1..((rcvd + n) - dlvd) PROVE b[sent + i] = dlvd + i
  <2>1. CASE i <= rcvd - dlvd
    <3>1. i \in 1..(rcvd - dlvd) /\ sent + i \in 1..Len(buf)
      BY <1>1, <1>2, <2>1
    <3> QED BY <1>2, <1>4, <3>1
  <2>2. CASE i > rcvd - dlvd
    <3> DEFINE j == i - (rcvd - dlvd)
    <3>1. j \in 1..n /\ sent + i = Len(buf) + j /\ rcvd + j = dlvd + i
      BY <1>1, <1>2, <2>2
    <3> HIDE DEF j
    <3> QED BY Zenon, <1>3, <1>4, <3>1
  <2> QED BY <2>1, <2>2, <1>2
<1>6. InOrder(b, sent, rcvd + n, dlvd)
  <2>1. /\ dlvd <= rcvd + n /\ dlvd < rcvd + n /\ sent + ((rcvd + n) - dlvd) = Len(b)
        /\ Len(b) <= BufSize
    <3> DEFINE l == Len(buf)
               m == Len(b)
    <3>1. /\ l \in Nat /\ m = l + n /\ n <= BufSize - l /\ BufSize \in Nat
          /\ dlvd <= rcvd /\ sent + (rcvd - dlvd) = l /\ n \in Nat /\ n # 0
      BY <1>1, <1>2, <1>4
    <3> HIDE DEF l, m
    <3>2. dlvd < rcvd + n /\ sent + ((rcvd + n) - dlvd) = m /\ m <= BufSize
      BY <3>1
    <3> QED BY <3>2 DEF m
  <2> QED BY Zenon, <1>5, <2>1 DEF InOrder
<1> QED BY <1>6 DEF b, more

\* The bytes left in a buffer that is in order, as a sequence.
LEMMA InOrderRest ==
    ASSUME NEW buf \in Seq(Nat), NEW sent \in Nat, NEW rcvd \in Nat, NEW dlvd \in Nat,
           InOrder(buf, sent, rcvd, dlvd)
    PROVE  SubSeq(buf, sent + 1, Len(buf)) = [i \in 1..(rcvd - dlvd) |-> dlvd + i]
<1> DEFINE n == rcvd - dlvd
           b == SubSeq(buf, sent + 1, Len(buf))
<1>1. /\ n \in Nat /\ sent + n = Len(buf) /\ Len(buf) \in Nat
      /\ \A i \in 1..n : buf[sent + i] = dlvd + i
  BY DEF InOrder
<1> HIDE DEF n
<1>2. b = [i \in 1..n |-> buf[sent + i]]
  <2>1. Len(buf) - (sent + 1) + 1 = n
    BY <1>1
  <2>2. \A i \in 1..n : (sent + 1) + i - 1 = sent + i
    BY <1>1
  <2> QED BY <1>1, <2>1, <2>2
<1>3. [i \in 1..n |-> buf[sent + i]] = [i \in 1..n |-> dlvd + i]
  BY <1>1
<1> QED BY Zenon, <1>2, <1>3 DEF n

-----------------------------------------------------------------------------
(* Events                                                                  *)

\* A connection whose two sockets are known to epoll.
At(p, c) == Ready(p, c) /\ IsLive(p, c) /\ Sk(p, c, "inc") # Sk(p, c, "dst")

\* Only the connection c changes, in what does not concern its sockets.
Inside(p, q, c) == Moves(p, q) /\ Others(p, q, c)

\* Only the events of end s change, and epoll knows.
EventsSet(p, q, c, s, ev) ==
    /\ Inside(p, q, c) /\ SameData(p, q, c) /\ Told(q, c) /\ q.broken = p.broken
    /\ \A t \in Sides : q.conn[c].end[t].events = IF t = s THEN ev
                                                  ELSE p.conn[c].end[t].events

\* Moves leave the sockets alone.
LEMMA InsideEnds ==
    ASSUME NEW p, NEW q, NEW c \in Conns, Moves(p, q)
    PROVE  /\ Ends(q, c) = Ends(p, c) /\ q.open = p.open
           /\ \A s \in Sides : Sk(q, c, s) = Sk(p, c, s)
           /\ At(p, c) => At(q, c)
<1>1. SameView(p, q, c) /\ q.open = p.open
  BY DEF Moves
<1>2. \A s \in Sides : Sk(q, c, s) = Sk(p, c, s)
  BY <1>1 DEF SameView, Sides
<1>3. Ends(q, c) = Ends(p, c) /\ (IsLive(q, c) <=> IsLive(p, c))
  BY Zenon, <1>1 DEF SameView, Ends, IsLive
<1>4. At(p, c) => At(q, c)
  BY <1>2, <1>3, MovesReady DEF At, Sides
<1> QED BY <1>1, <1>2, <1>3, <1>4

\* A step of one connection may follow its moves.
LEMMA OthersTrans ==
    ASSUME NEW p, NEW q, NEW r, NEW c \in Conns, Inside(p, q, c), Others(q, r, c)
    PROVE  Others(p, r, c)
<1>1. Ends(q, c) = Ends(p, c) /\ q.open = p.open
  BY InsideEnds DEF Inside
<1> QED BY <1>1 DEF Inside, Others

\* Moves of one connection may follow each other.
LEMMA InsideTrans ==
    ASSUME NEW p, NEW q, NEW r, NEW c \in Conns, Inside(p, q, c), Inside(q, r, c)
    PROVE  Inside(p, r, c)
<1>1. Moves(p, r)
  BY MovesTrans DEF Inside
<1>2. Others(p, r, c)
  BY OthersTrans DEF Inside
<1> QED BY <1>1, <1>2 DEF Inside

\* No step is a move of any connection.
LEMMA InsideSame ==
    ASSUME NEW p \in PoolType, NEW c
    PROVE  Inside(p, p, c)
BY MovesSame DEF Inside, Others

\* pool_fds_set_events() sets the events, of which epoll then knows.
LEMMA SetEventsSet ==
    ASSUME NEW p, NEW c \in Conns, NEW s \in Sides, NEW ev \in SUBSET RW, At(p, c), Told(p, c)
    PROVE  EventsSet(p, pool_fds_set_events(p, c, s, ev), c, s, ev)
<1> DEFINE q == pool_fds_set_events(p, c, s, ev)
<1>1. /\ Moves(p, q) /\ SameData(p, q, c)
      /\ \A d \in Conns : d # c => q.conn[d] = p.conn[d]
      /\ \A t \in Sides : q.conn[c].end[t].events =
                           IF t = s THEN ev ELSE p.conn[c].end[t].events
      /\ q.epoll = [p.epoll EXCEPT ![Sk(p, c, s)] = ev] /\ q.broken = p.broken
  <2>1. Ready(p, c)
    BY Zenon DEF At
  <2>2. EventsMoved(p, q, c, s, ev)
    BY Zenon, <2>1, SetEvents
  <2> HIDE DEF q
  <2> QED BY Zenon, <2>2 DEF EventsMoved
<1> HIDE DEF q
<1>2. /\ \A t \in Sides : Sk(p, c, t) \in FDs
      /\ p.epoll \in [FDs -> (SUBSET RW) \cup {Off}]
      /\ \A t \in Sides : Sk(p, c, t) = Sk(p, c, s) => t = s
  BY PoolFields DEF At, Ready, Sides
<1>3. \A f \in FDs : q.epoll[f] = IF f = Sk(p, c, s) THEN ev ELSE p.epoll[f]
  BY <1>1, <1>2
<1>4. \A t \in Sides : Sk(q, c, t) = Sk(p, c, t)
  BY Zenon, <1>1, InsideEnds
<1>5. Told(q, c)
  <2>1. \A t \in Sides : p.epoll[Sk(p, c, t)] = p.conn[c].end[t].events
    BY Zenon DEF Told
  <2>2. \A t \in Sides : q.epoll[Sk(q, c, t)] = q.conn[c].end[t].events
    <3> SUFFICES ASSUME NEW t \in Sides
                 PROVE  q.epoll[Sk(q, c, t)] = q.conn[c].end[t].events
      OBVIOUS
    <3>1. CASE t = s
      BY Zenon, <1>1, <1>2, <1>3, <1>4, <3>1
    <3>2. CASE t # s
      <4>1. Sk(p, c, t) \in FDs /\ Sk(p, c, t) # Sk(p, c, s)
        BY Zenon, <1>2, <3>2
      <4>2. q.epoll[Sk(p, c, t)] = p.epoll[Sk(p, c, t)]
        BY Zenon, <1>3, <4>1
      <4>3. q.conn[c].end[t].events = p.conn[c].end[t].events
        BY Zenon, <1>1, <3>2
      <4> QED BY Zenon, <1>4, <2>1, <4>2, <4>3
    <3> QED BY Zenon, <3>1, <3>2
  <2> QED BY Zenon, <2>2 DEF Told
<1>6. Sk(p, c, s) \in Ends(p, c)
  BY <1>2, PoolConnAssumption DEF Ends, At, Sides
<1>7. Others(p, q, c)
  BY <1>1, <1>3, <1>6 DEF Others
<1>8. EventsSet(p, q, c, s, ev)
  BY Zenon, <1>1, <1>5, <1>7 DEF EventsSet, Inside
<1> QED BY <1>8 DEF q

\* Nothing is done when the events are as they should be.
LEMMA EventsSame ==
    ASSUME NEW p, NEW c \in Conns, NEW s \in Sides, At(p, c), Told(p, c)
    PROVE  EventsSet(p, p, c, s, p.conn[c].end[s].events)
<1>1. Inside(p, p, c)
  BY InsideSame DEF At, Ready
<1> QED BY <1>1 DEF EventsSet, SameData

\* What setting the write flag does to the events.
LEMMA SetWriteIs ==
    ASSUME NEW p, NEW c \in Conns, NEW s \in Sides, NEW b \in BOOLEAN, At(p, c), Told(p, c)
    PROVE  LET ev == p.conn[c].end[s].events
           IN  EventsSet(p, SetWrite(p, c, s, b), c, s,
                         IF b THEN ev \cup {"W"} ELSE ev \ {"W"})
<1> DEFINE ev == p.conn[c].end[s].events
           flag == IF b THEN ev \cup {"W"} ELSE ev \ {"W"}
<1>1. flag \in SUBSET RW
  <2>1. ev \in SUBSET RW
    BY EventsType DEF At
  <2> HIDE DEF ev
  <2> QED BY <2>1 DEF RW
<1>2. SetWrite(p, c, s, b) = IF flag = ev THEN p ELSE pool_fds_set_events(p, c, s, flag)
  BY DEF SetWrite
<1>3. EventsSet(p, p, c, s, ev)
  BY EventsSame
<1> HIDE DEF flag, ev
<1>4. EventsSet(p, pool_fds_set_events(p, c, s, flag), c, s, flag)
  BY Zenon, <1>1, SetEventsSet
<1>5. EventsSet(p, SetWrite(p, c, s, b), c, s, flag)
  BY <1>2, <1>3, <1>4
<1> QED BY <1>5 DEF flag, ev

\* What listening to a source again does to them.
LEMMA ReestablishIs ==
    ASSUME NEW p, NEW c \in Conns, NEW s \in Sides, At(p, c), Told(p, c)
    PROVE  LET ev == p.conn[c].end[Other(s)].events
           IN  EventsSet(p, Reestablish(p, c, s), c, Other(s),
                         IF "R" \notin ev /\ Len(p.conn[c].end[s].buf) < BufSize
                         THEN ev \cup {"R"} ELSE ev)
<1> DEFINE t == Other(s)
           ev == p.conn[c].end[t].events
           flag == ev \cup {"R"}
<1>1. t \in Sides
  BY OtherSides DEF Sides
<1> HIDE DEF t
<1>2. flag \in SUBSET RW
  BY <1>1, EventsType DEF RW, At
<1>3. EventsSet(p, p, c, t, ev)
  BY <1>1, EventsSame
<1>4. Reestablish(p, c, s) = IF "R" \notin ev /\ Len(p.conn[c].end[s].buf) < BufSize
                             THEN pool_fds_set_events(p, c, t, flag) ELSE p
  BY Zenon DEF Reestablish, t
<1> HIDE DEF flag, ev
<1>5. EventsSet(p, pool_fds_set_events(p, c, t, flag), c, t, flag)
  BY Zenon, <1>1, <1>2, SetEventsSet
<1>6. EventsSet(p, Reestablish(p, c, s), c, t,
                IF "R" \notin ev /\ Len(p.conn[c].end[s].buf) < BufSize THEN flag ELSE ev)
  BY Zenon, <1>3, <1>4, <1>5
<1> QED BY Zenon, <1>6 DEF flag, ev, t

\* What ceasing to listen does to them.
LEMMA StopIfFullIs ==
    ASSUME NEW p, NEW c \in Conns, NEW s \in Sides, At(p, c), Told(p, c)
    PROVE  LET ev == p.conn[c].end[Other(s)].events
           IN  EventsSet(p, StopIfFull(p, c, s), c, Other(s),
                         IF Len(p.conn[c].end[s].buf) = BufSize THEN ev \ {"R"} ELSE ev)
<1> DEFINE t == Other(s)
           ev == p.conn[c].end[t].events
           flag == ev \ {"R"}
<1>1. t \in Sides
  BY OtherSides DEF Sides
<1> HIDE DEF t
<1>2. flag \in SUBSET RW
  BY <1>1, EventsType DEF RW, At
<1>3. EventsSet(p, p, c, t, ev)
  BY <1>1, EventsSame
<1>4. StopIfFull(p, c, s) = IF Len(p.conn[c].end[s].buf) = BufSize
                            THEN pool_fds_set_events(p, c, t, flag) ELSE p
  BY Zenon DEF StopIfFull, t
<1> HIDE DEF flag, ev
<1>5. EventsSet(p, pool_fds_set_events(p, c, t, flag), c, t, flag)
  BY Zenon, <1>1, <1>2, SetEventsSet
<1>6. EventsSet(p, StopIfFull(p, c, s), c, t,
                IF Len(p.conn[c].end[s].buf) = BufSize THEN flag ELSE ev)
  BY Zenon, <1>3, <1>4, <1>5
<1> QED BY Zenon, <1>6 DEF flag, ev, t

-----------------------------------------------------------------------------
(* One connection                                                          *)

\* An end and its other are all there are.
LEMMA BothSides ==
    ASSUME NEW s \in Sides
    PROVE  Other(s) \in Sides /\ Other(s) # s /\ Other(Other(s)) = s
           /\ \A t \in Sides : t # s => t = Other(s)
BY OtherSides DEF Sides

\* Bytes have been added to or taken from the buffer of end s.
BufferIs(p, q, c, s) ==
    /\ Inside(p, q, c) /\ Told(q, c) /\ Ordered(q, c) /\ Fresh(q, c)
    /\ q.broken = p.broken /\ q.conn[c].complete = p.conn[c].complete
    /\ \A t \in Sides : /\ q.conn[c].end[t].events = p.conn[c].end[t].events
                        /\ t # s => q.conn[c].end[t].buf = p.conn[c].end[t].buf

\* What the fields of an end are.
LEMMA DataFields ==
    ASSUME NEW p \in PoolType, NEW c \in Conns, NEW s \in Sides
    PROVE  /\ p.conn[c].end[s].buf \in Seq(Nat) /\ p.conn[c].end[s].sent \in Nat
           /\ p.conn[c].rcvd \in [Sides -> Nat] /\ p.conn[c].dlvd \in [Sides -> Nat]
           /\ p.conn[c].complete \in BOOLEAN
<1>1. p.conn[c] \in ConnType /\ p.conn[c].end[s] \in EndType
  BY PoolFields
<1> QED BY Zenon, <1>1 DEF ConnType, EndType

\* Only the data of end s changes.
MovedIn(p, q, c, s) ==
    /\ Inside(p, q, c) /\ Told(q, c) /\ q.broken = p.broken
    /\ q.conn[c].complete = p.conn[c].complete
    /\ \A t \in Sides : /\ q.conn[c].end[t].events = p.conn[c].end[t].events
                        /\ t # s => q.conn[c].end[t].buf = p.conn[c].end[t].buf

\* An end moved without a word to epoll.
LEMMA MovedInside ==
    ASSUME NEW p, NEW q, NEW c \in Conns, NEW s \in Sides, NEW e, NEW rc, NEW dl,
           EndMoved(p, q, c, s, e, rc, dl), e.events = p.conn[c].end[s].events, Told(p, c)
    PROVE  MovedIn(p, q, c, s)
<1>1. Inside(p, q, c)
  BY Zenon DEF EndMoved, Inside, Others
<1>2. \A t \in Sides : q.conn[c].end[t].events = p.conn[c].end[t].events
  BY DEF EndMoved
<1>3. \A t \in Sides : Sk(q, c, t) = Sk(p, c, t)
  BY Zenon, InsideEnds DEF EndMoved
<1>4. Told(q, c)
  BY <1>2, <1>3 DEF Told, EndMoved
<1> QED BY <1>1, <1>2, <1>4 DEF EndMoved, MovedIn

\* Sending keeps the buffer in order and shortens what waits in it; nothing is sent
\* to a destination that is not connected.
LEMMA SentIs ==
    ASSUME NEW p, NEW c \in Conns, NEW s \in Sides, At(p, c), Told(p, c), Ordered(p, c),
           Fresh(p, c), s = "inc" \/ p.conn[c].complete,
           NEW n \in 1..(Len(p.conn[c].end[s].buf) - p.conn[c].end[s].sent)
    PROVE  LET q == Sent(p, c, s, n)
               o == p.conn[c].end[s]
           IN  /\ BufferIs(p, q, c, s)
               /\ q.conn[c].end[s].buf = IF o.sent + n = Len(o.buf) THEN <<>> ELSE o.buf
<1> DEFINE q == Sent(p, c, s, n)
           o == p.conn[c].end[s]
           dl == [p.conn[c].dlvd EXCEPT ![s] = @ + n]
<1>0. p \in PoolType /\ n \in Nat /\ Ready(p, c)
  <2>1. p \in PoolType /\ Ready(p, c)
    BY Zenon DEF At, Ready
  <2>2. o.buf \in Seq(Nat) /\ o.sent \in Nat
    BY <2>1, DataFields
  <2>3. Len(o.buf) \in Nat
    BY Zenon, <2>2, LenNat
  <2> QED BY Zenon, <2>1, <2>2, <2>3, Amounts
<1>1. /\ o.buf \in Seq(Nat) /\ o.sent \in Nat /\ p.conn[c].rcvd \in [Sides -> Nat]
      /\ p.conn[c].dlvd \in [Sides -> Nat]
  BY <1>0, DataFields
<1>a. PICK e \in EndType : SentEnd(p, q, c, s, n, e)
  BY Zenon, <1>0, SentMoves
<1>2. /\ EndMoved(p, q, c, s, e, p.conn[c].rcvd, dl)
      /\ e.events = o.events
      /\ IF o.sent + n = Len(o.buf) THEN e.sent = 0 /\ e.buf = <<>>
         ELSE e.sent = o.sent + n /\ e.buf = o.buf
  BY Zenon, <1>a DEF SentEnd
<1> HIDE DEF q
<1>3. /\ Inside(p, q, c) /\ Told(q, c) /\ q.broken = p.broken
      /\ q.conn[c].complete = p.conn[c].complete
      /\ \A t \in Sides : /\ q.conn[c].end[t].events = p.conn[c].end[t].events
                          /\ t # s => q.conn[c].end[t].buf = p.conn[c].end[t].buf
  <2>1. MovedIn(p, q, c, s)
    BY Zenon, <1>2, MovedInside
  <2> QED BY Zenon, <2>1 DEF MovedIn
<1>4. /\ q.conn[c].end[s] = e /\ q.conn[c].rcvd = p.conn[c].rcvd /\ q.conn[c].dlvd = dl
      /\ \A t \in Sides : t # s => q.conn[c].end[t] = p.conn[c].end[t]
  BY Zenon, <1>2 DEF EndMoved
<1>5. dl[s] = p.conn[c].dlvd[s] + n /\ \A t \in Sides : t # s => dl[t] = p.conn[c].dlvd[t]
  BY Zenon, <1>1
<1> HIDE DEF dl
<1>6. Ordered(q, c)
  <2> SUFFICES ASSUME NEW t \in Sides
               PROVE  InOrder(q.conn[c].end[t].buf, q.conn[c].end[t].sent,
                              q.conn[c].rcvd[t], q.conn[c].dlvd[t])
    BY DEF Ordered
  <2>1. InOrder(p.conn[c].end[t].buf, p.conn[c].end[t].sent, p.conn[c].rcvd[t],
                p.conn[c].dlvd[t])
    BY DEF Ordered
  <2>2. CASE t # s
    BY Zenon, <1>4, <1>5, <2>1, <2>2
  <2>3. CASE t = s
    <3>1. p.conn[c].rcvd[s] \in Nat /\ p.conn[c].dlvd[s] \in Nat
      BY Zenon, <1>1
    <3>2. InOrder(o.buf, o.sent, p.conn[c].rcvd[s], p.conn[c].dlvd[s])
      BY Zenon, <2>1, <2>3
    <3> HIDE DEF o
    <3>3. n \in 1..(Len(o.buf) - o.sent)
      BY DEF o
    <3>4. InOrder(e.buf, e.sent, p.conn[c].rcvd[s], p.conn[c].dlvd[s] + n)
      BY Zenon, <1>1, <1>2, <3>1, <3>2, <3>3, InOrderSent
    <3> QED BY Zenon, <1>4, <1>5, <2>3, <3>4
  <2> QED BY <2>2, <2>3
<1>7. Fresh(q, c)
  BY Zenon, <1>3, <1>4, <1>5 DEF Fresh, Sides
<1>8. q.conn[c].end[s].buf = IF o.sent + n = Len(o.buf) THEN <<>> ELSE o.buf
  BY Zenon, <1>2, <1>4
<1>9. BufferIs(p, q, c, s)
  BY Zenon, <1>3, <1>6, <1>7 DEF BufferIs
<1> QED BY <1>8, <1>9 DEF q

\* Receiving keeps the buffer in order; nothing comes from a destination that is
\* not connected.
LEMMA ReceivedIs ==
    ASSUME NEW p, NEW c \in Conns, NEW s \in Sides, At(p, c), Told(p, c), Ordered(p, c),
           Fresh(p, c), s = "dst" \/ p.conn[c].complete, NEW n \in Nat \ {0},
           n <= BufSize - Len(p.conn[c].end[s].buf)
    PROVE  BufferIs(p, Received(p, c, s, n), c, s)
<1> DEFINE q == Received(p, c, s, n)
           o == p.conn[c].end[s]
           rc == [p.conn[c].rcvd EXCEPT ![s] = @ + n]
           b == o.buf \o [i \in 1..n |-> p.conn[c].rcvd[s] + i]
<1>0. p \in PoolType /\ n \in Nat /\ Ready(p, c)
  BY DEF At, Ready
<1>1. /\ o.buf \in Seq(Nat) /\ o.sent \in Nat /\ p.conn[c].rcvd \in [Sides -> Nat]
      /\ p.conn[c].dlvd \in [Sides -> Nat]
  BY Zenon, <1>0, DataFields
<1>2. PICK e \in EndType :
         /\ EndMoved(p, q, c, s, e, rc, p.conn[c].dlvd)
         /\ e.events = o.events /\ e.sent = o.sent /\ e.buf = b
  BY Zenon, <1>0, ReceivedMoves
<1> HIDE DEF q
<1>3. /\ Inside(p, q, c) /\ Told(q, c) /\ q.broken = p.broken
      /\ q.conn[c].complete = p.conn[c].complete
      /\ \A t \in Sides : /\ q.conn[c].end[t].events = p.conn[c].end[t].events
                          /\ t # s => q.conn[c].end[t].buf = p.conn[c].end[t].buf
  <2>1. MovedIn(p, q, c, s)
    BY Zenon, <1>2, MovedInside
  <2> QED BY Zenon, <2>1 DEF MovedIn
<1>4. /\ q.conn[c].end[s] = e /\ q.conn[c].rcvd = rc /\ q.conn[c].dlvd = p.conn[c].dlvd
      /\ \A t \in Sides : t # s => q.conn[c].end[t] = p.conn[c].end[t]
  BY Zenon, <1>2 DEF EndMoved
<1>5. rc[s] = p.conn[c].rcvd[s] + n /\ \A t \in Sides : t # s => rc[t] = p.conn[c].rcvd[t]
  BY <1>1
<1> HIDE DEF rc
<1>6. Ordered(q, c)
  <2> SUFFICES ASSUME NEW t \in Sides
               PROVE  InOrder(q.conn[c].end[t].buf, q.conn[c].end[t].sent,
                              q.conn[c].rcvd[t], q.conn[c].dlvd[t])
    BY Zenon DEF Ordered
  <2>1. InOrder(p.conn[c].end[t].buf, p.conn[c].end[t].sent, p.conn[c].rcvd[t],
                p.conn[c].dlvd[t])
    BY DEF Ordered
  <2>2. CASE t # s
    BY Zenon, <1>4, <1>5, <2>1, <2>2
  <2>3. CASE t = s
    <3> DEFINE rv == p.conn[c].rcvd[s]
               dv == p.conn[c].dlvd[s]
    <3>1. rv \in Nat /\ dv \in Nat
      BY Zenon, <1>1
    <3>2. InOrder(o.buf, o.sent, rv, dv) /\ n <= BufSize - Len(o.buf)
      BY Zenon, <2>1, <2>3
    <3>3. b = o.buf \o [i \in 1..n |-> rv + i]
      OBVIOUS
    <3> HIDE DEF o, b, rv, dv
    <3>4. InOrder(b, o.sent, rv + n, dv)
      BY Zenon, <1>1, <3>1, <3>2, <3>3, InOrderReceived
    <3> QED BY Zenon, <1>2, <1>4, <1>5, <2>3, <3>4 DEF rv, dv
  <2> QED BY <2>2, <2>3
<1>7. Fresh(q, c)
  <2>1. CASE p.conn[c].complete
    <3>1. q.conn[c].complete
      BY <1>3, <2>1
    <3> QED BY <3>1 DEF Fresh
  <2>2. CASE ~p.conn[c].complete
    <3>1. s = "dst" /\ "inc" \in Sides /\ "inc" # "dst"
      BY <2>2 DEF Sides
    <3> QED BY Zenon, <1>3, <1>4, <1>5, <2>2, <3>1 DEF Fresh
  <2> QED BY <2>1, <2>2
<1>8. BufferIs(p, q, c, s)
  BY Zenon, <1>3, <1>6, <1>7 DEF BufferIs
<1> QED BY <1>8 DEF q

\* Events alone change.
EventsData(p, q, c) ==
    /\ Inside(p, q, c) /\ Told(q, c) /\ Ordered(q, c) /\ Fresh(q, c)
    /\ q.broken = p.broken /\ q.conn[c].complete = p.conn[c].complete
    /\ \A t \in Sides : q.conn[c].end[t].buf = p.conn[c].end[t].buf

\* Setting events leaves the data in order.
LEMMA EventsKeepData ==
    ASSUME NEW p, NEW q, NEW c \in Conns, NEW s, NEW ev, EventsSet(p, q, c, s, ev),
           Ordered(p, c), Fresh(p, c)
    PROVE  EventsData(p, q, c)
<1>1. SameData(p, q, c) /\ "inc" \in Sides /\ "dst" \in Sides
  BY DEF EventsSet, Sides
<1>2. Ordered(q, c)
  BY Zenon, <1>1 DEF Ordered, SameData
<1>3. Fresh(q, c)
  BY <1>1 DEF Fresh, SameData
<1> QED BY Zenon, <1>1, <1>2, <1>3 DEF EventsData, EventsSet, SameData

\* What pool_send_data() leaves when the connection stays.
SendDone(p, q, c, s, src) ==
    /\ Inside(p, q, c) /\ Sending(q, c, s) /\ CanSend(q, c, s)
    /\ src /\ CanRead(p, c, Other(s)) => CanRead(q, c, Other(s))
    /\ ~src => q.conn[c].end[Other(s)].events = p.conn[c].end[Other(s)].events

\* pool_send_data() after a send() that took some bytes: the rest waits for the end
\* to be writable, and its source is read again if there is room.
LEMMA SendOkDone ==
    ASSUME NEW p, NEW c \in Conns, NEW s \in Sides, NEW src \in BOOLEAN, At(p, c),
           Sending(p, c, s), s = "inc" \/ p.conn[c].complete,
           NEW k \in 1..(Len(p.conn[c].end[s].buf) - p.conn[c].end[s].sent)
    PROVE  LET q == Sent(p, c, s, k)
               r == IF src THEN Reestablish(q, c, s) ELSE q
           IN  SendDone(p, SetWrite(r, c, s, k < Len(p.conn[c].end[s].buf) - p.conn[c].end[s].sent),
                        c, s, src)
<1> DEFINE t == Other(s)
           o == p.conn[c].end[s]
           q1 == Sent(p, c, s, k)
           q2 == IF src THEN Reestablish(q1, c, s) ELSE q1
           b == k < Len(o.buf) - o.sent
           q3 == SetWrite(q2, c, s, b)
<1>1. t \in Sides /\ t # s /\ Other(t) = s /\ \A u \in Sides : u = s \/ u = t
  BY BothSides
<1>2. /\ Told(p, c) /\ Ordered(p, c) /\ Fresh(p, c) /\ Waits(p, c) /\ CanSend(p, c, t)
      /\ CanRead(p, c, s)
  BY DEF Sending
<1>3. /\ BufferIs(p, q1, c, s)
      /\ q1.conn[c].end[s].buf = IF o.sent + k = Len(o.buf) THEN <<>> ELSE o.buf
  BY Zenon, <1>2, SentIs
<1> HIDE DEF q1, t
<1>4. At(q1, c) /\ Told(q1, c) /\ Ordered(q1, c) /\ Fresh(q1, c)
  BY Zenon, <1>3, InsideEnds DEF BufferIs, Inside
<1> DEFINE e1 == q1.conn[c].end[t].events
           e2 == IF src /\ "R" \notin e1 /\ Len(q1.conn[c].end[s].buf) < BufSize
                 THEN e1 \cup {"R"} ELSE e1
<1>5. EventsSet(q1, q2, c, t, e2)
  <2>1. EventsSet(q1, q1, c, t, e1)
    BY Zenon, <1>1, <1>4, EventsSame
  <2>2. EventsSet(q1, Reestablish(q1, c, s), c, t,
                  IF "R" \notin e1 /\ Len(q1.conn[c].end[s].buf) < BufSize
                  THEN e1 \cup {"R"} ELSE e1)
    BY Zenon, <1>4, ReestablishIs DEF t
  <2> QED BY Zenon, <2>1, <2>2
<1> HIDE DEF q2, e2
<1>6. EventsData(q1, q2, c) /\ At(q2, c)
  <2>1. EventsData(q1, q2, c)
    BY Zenon, <1>4, <1>5, EventsKeepData
  <2> QED BY Zenon, <1>4, <2>1, InsideEnds DEF EventsData, Inside
<1> DEFINE e3 == q2.conn[c].end[s].events
           e4 == IF b THEN e3 \cup {"W"} ELSE e3 \ {"W"}
<1>7. EventsSet(q2, q3, c, s, e4)
  <2>1. b \in BOOLEAN
    OBVIOUS
  <2> HIDE DEF b
  <2>2. Told(q2, c)
    BY Zenon, <1>6 DEF EventsData
  <2> QED BY Zenon, <1>6, <2>1, <2>2, SetWriteIs
<1> HIDE DEF q3, e4, b
<1>8. EventsData(q2, q3, c)
  <2>1. Ordered(q2, c) /\ Fresh(q2, c)
    BY Zenon, <1>6 DEF EventsData
  <2> QED BY Zenon, <1>7, <2>1, EventsKeepData
<1>9. Inside(p, q3, c)
  BY Zenon, <1>3, <1>6, <1>8, InsideTrans DEF BufferIs, EventsData
<1>10. /\ q3.conn[c].complete = p.conn[c].complete /\ q3.broken = p.broken
       /\ q3.conn[c].end[s].buf = q1.conn[c].end[s].buf
       /\ q3.conn[c].end[t].buf = p.conn[c].end[t].buf
       /\ Sk(q3, c, s) = Sk(p, c, s) /\ Sk(q3, c, t) = Sk(p, c, t)
  <2>1. Sk(q3, c, s) = Sk(p, c, s) /\ Sk(q3, c, t) = Sk(p, c, t)
    <3>1. Moves(p, q3)
      BY Zenon, <1>9 DEF Inside
    <3>2. \A u \in Sides : Sk(q3, c, u) = Sk(p, c, u)
      BY Zenon, <3>1, InsideEnds
    <3> QED BY Zenon, <1>1, <3>2
  <2>2. /\ q1.conn[c].complete = p.conn[c].complete /\ q1.broken = p.broken
        /\ q1.conn[c].end[t].buf = p.conn[c].end[t].buf
    BY Zenon, <1>1, <1>3 DEF BufferIs
  <2>3. /\ q2.conn[c].complete = q1.conn[c].complete /\ q2.broken = q1.broken
        /\ \A u \in Sides : q2.conn[c].end[u].buf = q1.conn[c].end[u].buf
    BY Zenon, <1>6 DEF EventsData
  <2>4. /\ q3.conn[c].complete = q2.conn[c].complete /\ q3.broken = q2.broken
        /\ \A u \in Sides : q3.conn[c].end[u].buf = q2.conn[c].end[u].buf
    BY Zenon, <1>8 DEF EventsData
  <2> QED BY Zenon, <1>1, <2>1, <2>2, <2>3, <2>4
<1>11. /\ q3.conn[c].end[s].events = e4 /\ e3 = p.conn[c].end[s].events
       /\ q3.conn[c].end[t].events = e2 /\ e1 = p.conn[c].end[t].events
  BY Zenon, <1>1, <1>3, <1>5, <1>7 DEF BufferIs, EventsSet
<1>12. CanSend(q3, c, s)
  <2>1. CASE b
    BY <1>11, <2>1 DEF CanSend, e4
  <2>2. CASE ~b
    <3>1. o.buf \in Seq(Nat) /\ o.sent \in Nat
      BY Zenon, DataFields DEF At, Ready
    <3>2. o.sent + k = Len(o.buf)
      <4> DEFINE l == Len(o.buf)
                 m == o.sent
      <4>1. l \in Nat /\ m \in Nat /\ k \in 1..(l - m) /\ ~(k < l - m)
        BY Zenon, <2>2, <3>1, LenNat DEF b
      <4> HIDE DEF l, m
      <4>2. m + k = l
        BY <4>1
      <4> QED BY <4>2 DEF l, m
    <3> QED BY Zenon, <1>3, <1>10, <3>2 DEF CanSend
  <2> QED BY Zenon, <2>1, <2>2
<1>13. CanSend(q3, c, t)
  BY Zenon, <1>2, <1>10, <1>11 DEF CanSend, e2
<1>14. CanRead(q3, c, s)
  BY Zenon, <1>2, <1>10, <1>11 DEF CanRead, e4, t
<1>15. Waits(q3, c)
  BY Zenon, <1>1, <1>2, <1>10, <1>11 DEF Waits, e2, e4, Sides
<1>16. src => CanRead(q3, c, t)
  <2>1. Len(q3.conn[c].end[s].buf) <= BufSize /\ Len(q3.conn[c].end[s].buf) \in Nat
    <3>1. Ordered(q3, c)
      BY <1>8 DEF EventsData
    <3>2. q3 \in PoolType
      BY <1>9 DEF Inside, Moves
    <3>3. q3.conn[c].end[s].buf \in Seq(Nat)
      BY <3>2, DataFields
    <3>4. Len(q3.conn[c].end[s].buf) <= BufSize
      BY Zenon, <3>1 DEF Ordered, InOrder
    <3> QED BY Zenon, <3>3, <3>4, LenNat
  <2>2. Len(q3.conn[c].end[s].buf) = BufSize \/ Len(q3.conn[c].end[s].buf) < BufSize
    <3>1. BufSize \in Nat
      BY Zenon, PoolConnAssumption
    <3> QED BY Zenon, <2>1, <3>1, Amounts
  <2>3. CASE Len(q3.conn[c].end[s].buf) = BufSize
    BY <1>1, <2>3 DEF CanRead
  <2>4. ASSUME Len(q3.conn[c].end[s].buf) < BufSize, src PROVE CanRead(q3, c, t)
    <3>1. "R" \in e2
      BY <1>10, <2>4 DEF e2
    <3> QED BY <1>11, <3>1 DEF CanRead
  <2> QED BY <2>2, <2>3, <2>4
<1>17. ~src => q3.conn[c].end[t].events = p.conn[c].end[t].events
  BY <1>11 DEF e2
<1>18. Sending(q3, c, s)
  BY Zenon, <1>8, <1>13, <1>14, <1>15 DEF Sending, EventsData, t
<1>19. SendDone(p, q3, c, s, src)
  BY Zenon, <1>9, <1>12, <1>16, <1>17, <1>18 DEF SendDone, t
<1> QED BY Zenon, <1>19 DEF q3, q2, q1, b

\* pool_send_data(), unless it removes the connection.
LEMMA SendData ==
    ASSUME ~Early, NEW p, NEW c \in Conns, NEW s \in Sides, NEW src \in BOOLEAN, At(p, c),
           Sending(p, c, s), p.conn[c].complete \/ Sk(p, c, "dst") \notin p.established,
           NEW r \in pool_send_data(p, c, s, src), r.ret # "EPIPE"
    PROVE  SendDone(p, r.pool, c, s, src)
<1> DEFINE n == Len(p.conn[c].end[s].buf) - p.conn[c].end[s].sent
           back(k) == IF src THEN Reestablish(Sent(p, c, s, k), c, s) ELSE Sent(p, c, s, k)
           ok(k) == SetWrite(back(k), c, s, k < n)
           br == [p EXCEPT !.broken = @ \cup {p.conn[c].end[s].sock}]
           t == Other(s)
<1>1. \/ Usable(p, c, s) /\ \E k \in 1..n : r = [pool |-> ok(k), ret |-> "ok"]
      \/ r = [pool |-> SetWrite(p, c, s, TRUE), ret |-> "ok"]
      \/ s = "dst" /\ ~p.conn[c].complete /\ r = [pool |-> p, ret |-> "ok"]
      \/ r = [pool |-> pool_remove_conn(p, Sk(p, c, s), TRUE), ret |-> "EPIPE"]
      \/ r = [pool |-> br, ret |-> "error"]
  BY Zenon DEF pool_send_data, Sk
<1>2. /\ Told(p, c) /\ Ordered(p, c) /\ Fresh(p, c) /\ Waits(p, c) /\ CanSend(p, c, t)
      /\ CanRead(p, c, s) /\ p \in PoolType
  BY Zenon DEF Sending, At, Ready
<1>3. t \in Sides /\ t # s /\ Other(t) = s /\ \A u \in Sides : u = s \/ u = t
  BY BothSides
<1>4. ASSUME Usable(p, c, s), NEW k \in 1..n, r = [pool |-> ok(k), ret |-> "ok"]
      PROVE  SendDone(p, r.pool, c, s, src)
  <2>1. s = "inc" \/ p.conn[c].complete
    BY Zenon, <1>4 DEF Usable, Sk, Sides
  <2>2. r.pool = ok(k)
    BY Zenon, <1>4
  <2>3. SendDone(p, ok(k), c, s, src)
    BY Zenon, <2>1, SendOkDone
  <2> QED BY Zenon, <2>2, <2>3
<1>5. CASE r = [pool |-> SetWrite(p, c, s, TRUE), ret |-> "ok"]
  <2> DEFINE q == SetWrite(p, c, s, TRUE)
             ev == p.conn[c].end[s].events \cup {"W"}
  <2>1. EventsSet(p, q, c, s, ev)
    BY Zenon, <1>2, SetWriteIs
  <2>2. r.pool = q
    BY Zenon, <1>5
  <2> HIDE DEF q
  <2>3. EventsData(p, q, c)
    BY Zenon, <1>2, <2>1, EventsKeepData
  <2>4. \A u \in Sides : Sk(q, c, u) = Sk(p, c, u)
    BY Zenon, <2>3, InsideEnds DEF EventsData, Inside
  <2>5. /\ q.conn[c].end[s].events = ev
        /\ q.conn[c].end[t].events = p.conn[c].end[t].events
    BY Zenon, <1>3, <2>1 DEF EventsSet
  <2>6. CanSend(q, c, s) /\ CanSend(q, c, t)
    BY Zenon, <1>2, <1>3, <2>3, <2>4, <2>5 DEF CanSend, EventsData
  <2>7. CanRead(q, c, s) /\ (CanRead(p, c, t) => CanRead(q, c, t)) /\ Waits(q, c)
    BY Zenon, <1>2, <1>3, <2>3, <2>5 DEF CanRead, Waits, EventsData, Sides
  <2> QED BY Zenon, <2>2, <2>3, <2>5, <2>6, <2>7 DEF SendDone, Sending, EventsData
<1>6. CASE s = "dst" /\ ~p.conn[c].complete /\ r = [pool |-> p, ret |-> "ok"]
  <2>1. Inside(p, p, c) /\ CanSend(p, c, s)
    BY Zenon, <1>2, <1>6, InsideSame DEF Waits, CanSend
  <2>2. r.pool = p
    BY <1>6
  <2> QED BY Zenon, <2>1, <2>2 DEF SendDone
<1>7. CASE r = [pool |-> br, ret |-> "error"]
  <2>1. /\ Moves(p, br) /\ br.conn = p.conn /\ br.epoll = p.epoll
        /\ br.broken = p.broken \cup {Sk(p, c, s)}
    BY BrokenMoves DEF At
  <2>2. r.pool = br
    BY <1>7
  <2> HIDE DEF br
  <2>3. Sk(p, c, s) \in Ends(p, c)
    <3>1. Sk(p, c, s) \in FDs /\ IsLive(p, c)
      BY DEF At, Ready
    <3> QED BY <3>1, PoolConnAssumption DEF Ends, Sides
  <2>4. Inside(p, br, c)
    BY Zenon, <2>1, <2>3 DEF Inside, Others
  <2>5. Sending(br, c, s) /\ CanSend(br, c, s) /\ (CanRead(p, c, t) => CanRead(br, c, t))
    <3>1. \A u \in Sides : Sk(br, c, u) = Sk(p, c, u)
      BY <2>1 DEF Sk
    <3>2. Told(br, c) /\ Ordered(br, c) /\ Fresh(br, c) /\ Waits(br, c)
      BY Zenon, <1>2, <2>1, <3>1 DEF Told, Ordered, Fresh, Waits
    <3>3. CanSend(br, c, s) /\ CanSend(br, c, t)
      BY Zenon, <1>2, <1>3, <2>1, <3>1 DEF CanSend
    <3>4. CanRead(br, c, s) /\ (CanRead(p, c, t) => CanRead(br, c, t))
      BY Zenon, <1>2, <2>1 DEF CanRead
    <3> QED BY Zenon, <3>2, <3>3, <3>4 DEF Sending
  <2> QED BY Zenon, <2>1, <2>2, <2>4, <2>5 DEF SendDone
<1>8. CASE r = [pool |-> pool_remove_conn(p, Sk(p, c, s), TRUE), ret |-> "EPIPE"]
  BY Zenon, <1>8
<1> QED BY Zenon, <1>1, <1>4, <1>5, <1>6, <1>7, <1>8

\* What is not served has nothing to send: it can be served with a fresh set of
\* events.
LEMMA EmptyUnserved ==
    ASSUME NEW p \in PoolType, NEW c \in Conns, NEW s \in Sides, Ordered(p, c),
           p.conn[c].rcvd[s] = 0
    PROVE  p.conn[c].end[s].buf = <<>>
<1>1. p.conn[c].dlvd[s] \in Nat
  BY DataFields
<1>2. p.conn[c].end[s].buf # <<>> => p.conn[c].dlvd[s] < p.conn[c].rcvd[s]
  BY Zenon DEF Ordered, InOrder
<1> QED BY <1>1, <1>2

\* The same data is in the same order.
LEMMA SameDataKeeps ==
    ASSUME NEW p, NEW q, NEW c, SameData(p, q, c), Ordered(p, c), Fresh(p, c)
    PROVE  /\ Ordered(q, c) /\ Fresh(q, c)
           /\ Quiet(p, c) => Quiet(q, c)
<1>1. Ordered(q, c)
  BY Zenon DEF Ordered, SameData
<1>2. Fresh(q, c)
  BY DEF Fresh, SameData, Sides
<1>3. Quiet(p, c) => Quiet(q, c)
  BY DEF Quiet, SameData
<1> QED BY <1>1, <1>2, <1>3
=============================================================================

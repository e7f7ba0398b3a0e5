--------------------------- MODULE PoolConnSteps ---------------------------
(***************************************************************************)
(* The handlers of PoolConn and its steps keep the pool in order; a step   *)
(* of one connection leaves the data of the others alone, and one that     *)
(* reads or sends keeps its own in order.                                  *)
(***************************************************************************)
EXTENDS PoolConnLemmas

\* A connection that is not served changes, with the sockets it has.
OutsideStep(p, q, S, c) ==
    /\ q \in PoolType /\ c \notin S
    /\ \A d \in Conns : d # c => q.conn[d] = p.conn[d]
    /\ IsLive(q, c) => /\ q.conn[c].addr \in Addrs /\ Sk(q, c, "inc") \in FDs
                       /\ Sk(q, c, "inc") # Sk(q, c, "dst")
    /\ \A f \in Ends(q, c) : f \in p.open => f \in Ends(p, c)
    /\ q.open = (p.open \ Ends(p, c)) \cup Ends(q, c)
    /\ q.route_map = p.route_map /\ q.epoll = p.epoll
    /\ q.n_conns = p.n_conns /\ q.fd_max = p.fd_max
    /\ \A a \in Addrs : q.taken[a] = p.taken[a] + N(Holds(q, c, a)) - N(Holds(p, c, a))
    /\ q.established \subseteq q.open /\ q.established \subseteq p.established \cup Ends(q, c)
    /\ IsLive(q, c) /\ ~q.conn[c].complete => Sk(q, c, "dst") \notin q.established

\* Such a step keeps the pool in order.
LEMMA Outside ==
    ASSUME NEW p, NEW q, NEW S, NEW c \in Conns, Good(p, S), OutsideStep(p, q, S, c)
    PROVE  Good(q, S)
<1> USE DEF OutsideStep
<1>1. p \in PoolType /\ S \in SUBSET Conns
  BY DEF Good
<1>2. \A d \in Conns : d # c => SameView(p, q, d)
  BY DEF SameView, Sk
<1>3. \A f \in FDs : q.epoll[f] = Off <=> q.route_map[f] = <<>>
  BY DEF Good, Mapped
<1>4. /\ q.n_conns = p.n_conns + N(c \in S) - N(c \in S)
      /\ q.fd_max = p.fd_max + 2 * (N(c \in S) - N(c \in S))
  BY <1>1, PoolFields DEF N
<1>5. \A f \in FDs : ~(c \in S /\ f \in Ends(q, c)) =>
         q.route_map[f] = IF c \in S /\ f \in Ends(p, c) THEN <<>> ELSE p.route_map[f]
  OBVIOUS
<1>6. OneStep(p, q, S, S, c)
  BY <1>1, <1>2, <1>3, <1>4, <1>5 DEF OneStep
<1> QED BY <1>6, OneConn

\* pool_handle_async_conn() gives the connection a socket of its own.
LEMMA AsyncGood ==
    ASSUME NEW p, NEW S, NEW c \in Conns, Good(p, S), c \notin S, IsLive(p, c),
           Sk(p, c, "dst") = NoFD, NEW q \in pool_handle_async_conn(p, c)
    PROVE  /\ Good(q, S) /\ IsLive(q, c) /\ Sk(q, c, "dst") \in FDs
           /\ \A d \in Conns : q.conn[d].stage = p.conn[d].stage
           /\ SameData(p, q, c) /\ Others(p, q, c)
<1>1. PICK fd \in FDs \ p.open :
         q = [p EXCEPT !.conn[c].end["dst"].sock = fd, !.open = @ \cup {fd}]
  BY Zenon DEF pool_handle_async_conn, Free
<1> DEFINE k == p.conn[c]
           e == [k.end["dst"] EXCEPT !.sock = fd]
           w == With(k, "dst", e, k.rcvd, k.dlvd)
           cn == [p.conn EXCEPT ![c] = w]
           op == p.open \cup {fd}
<1>2. p \in PoolType /\ "dst" \in Sides /\ "inc" \in Sides
  BY DEF Good, Sides
<1>3. k \in ConnType /\ k.end["dst"] \in EndType /\ p.conn \in [Conns -> ConnType]
      /\ op \in SUBSET FDs
  BY <1>2, PoolFields
<1>4. e \in EndType /\ e.sock = fd /\ e.buf = k.end["dst"].buf /\ e.sent = k.end["dst"].sent
  BY Zenon, <1>3 DEF EndType
<1>5. k.rcvd \in [Sides -> Nat] /\ k.dlvd \in [Sides -> Nat]
  BY <1>3 DEF ConnType
<1>6. /\ w \in ConnType /\ w.stage = k.stage /\ w.addr = k.addr
      /\ w.complete = k.complete /\ w.rcvd = k.rcvd /\ w.dlvd = k.dlvd
      /\ \A t \in Sides : w.end[t] = IF t = "dst" THEN e ELSE k.end[t]
  <2> HIDE DEF k, e
  <2>1. WithIs(w, k, "dst", e, k.rcvd, k.dlvd)
    BY Zenon, <1>2, <1>3, <1>4, <1>5, WithFields
  <2> QED BY Zenon, <2>1 DEF WithIs
<1>7. q = [p EXCEPT !.conn = cn, !.open = op]
  <2>1. w = [k EXCEPT !.end["dst"].sock = fd]
    BY Zenon, <1>3 DEF With, ConnType
  <2>2. [p.conn EXCEPT ![c].end["dst"].sock = fd] = cn
    BY <2>1
  <2> HIDE DEF w, cn
  <2>3. [p EXCEPT !.conn = cn].open = p.open
    BY <1>2 DEF PoolType
  <2> QED BY Zenon, <1>1, <2>2, <2>3
<1> HIDE DEF w, e
<1>8. cn \in [Conns -> ConnType] /\ cn[c] = w /\ \A d \in Conns : d # c => cn[d] = p.conn[d]
  BY <1>3, <1>6
<1> HIDE DEF cn, op
<1>9. /\ q \in PoolType /\ q.conn = cn /\ q.open = op /\ q.epoll = p.epoll
      /\ q.route_map = p.route_map /\ q.n_conns = p.n_conns /\ q.fd_max = p.fd_max
      /\ q.taken = p.taken /\ q.established = p.established /\ q.broken = p.broken
  BY Zenon, <1>2, <1>3, <1>7, <1>8 DEF PoolType
<1>10. /\ Sk(q, c, "dst") = fd /\ Sk(q, c, "inc") = Sk(p, c, "inc")
       /\ q.conn[c].stage = p.conn[c].stage /\ q.conn[c].addr = p.conn[c].addr
  BY <1>2, <1>4, <1>6, <1>8, <1>9 DEF Sk
<1>11. p.conn[c].addr \in Addrs /\ Sk(p, c, "inc") \in FDs
  BY DEF Good
<1>12. Ends(p, c) = {Sk(p, c, "inc")} /\ Ends(q, c) = {Sk(p, c, "inc"), fd} /\ IsLive(q, c)
  BY <1>1, <1>10, <1>11, PoolConnAssumption DEF Ends, IsLive
<1>13. Ends(p, c) \subseteq p.open
  BY <1>11, <1>12 DEF Good, Sockets
<1>14. q.open = (p.open \ Ends(p, c)) \cup Ends(q, c) /\ Sk(p, c, "inc") # fd
  BY <1>1, <1>9, <1>12, <1>13 DEF op
<1>15. ASSUME NEW a \in Addrs
       PROVE  q.taken[a] = p.taken[a] + N(Holds(q, c, a)) - N(Holds(p, c, a))
  <2>1. p.taken \in [Addrs -> Int]
    BY <1>2, PoolFields
  <2>2. Holds(q, c, a) <=> Holds(p, c, a)
    BY <1>10, <1>12 DEF Holds
  <2> QED BY <1>9, <2>1, <2>2 DEF N
<1>16. /\ IsLive(q, c) => /\ q.conn[c].addr \in Addrs /\ Sk(q, c, "inc") \in FDs
                          /\ Sk(q, c, "inc") # Sk(q, c, "dst")
       /\ \A f \in Ends(q, c) : f \in p.open => f \in Ends(p, c)
       /\ \A d \in Conns : d # c => q.conn[d] = p.conn[d]
  BY <1>1, <1>8, <1>9, <1>10, <1>11, <1>12, <1>14
<1>17. Good(q, S)
  <2>1. p.established \subseteq p.open
    BY DEF Good, Known
  <2>2. q.established \subseteq q.open /\ fd \notin q.established
    BY <1>1, <1>9, <2>1 DEF op
  <2>3. OutsideStep(p, q, S, c)
    BY Zenon, <1>9, <1>10, <1>14, <1>15, <1>16, <2>2 DEF OutsideStep
  <2> QED BY Zenon, <2>3, Outside
<1>18. SameData(p, q, c)
  BY <1>4, <1>6, <1>8, <1>9 DEF SameData
<1>19. Others(p, q, c)
  BY Zenon, <1>9, <1>16 DEF Others
<1> QED BY <1>1, <1>10, <1>12, <1>16, <1>17, <1>18, <1>19

\* A connect that fails at once leaves nothing of the connection.
LEMMA GiveUpGood ==
    ASSUME NEW p, NEW S, NEW c \in Conns, Good(p, S), c \notin S, IsLive(p, c),
           Sk(p, c, "dst") = NoFD
    PROVE  LET q == GiveUp(p, c)
           IN  Good(q, S) /\ q.conn[c] = NoConn /\ Others(p, q, c)
<1> DEFINE a0 == p.conn[c].addr
           i == Sk(p, c, "inc")
           tk == [p.taken EXCEPT ![a0] = @ - 1]
           op == p.open \ {i}
           es == p.established \ {i}
           br == p.broken \ {i}
           cn == [p.conn EXCEPT ![c] = NoConn]
           q == GiveUp(p, c)
<1>0. p \in PoolType /\ a0 \in Addrs /\ i \in FDs
  BY DEF Good
<1>1. /\ tk \in [Addrs -> Int] /\ cn \in [Conns -> ConnType] /\ cn[c] = NoConn
      /\ op \in SUBSET FDs /\ es \in SUBSET FDs /\ br \in SUBSET FDs
      /\ \A d \in Conns : d # c => cn[d] = p.conn[d]
  BY <1>0, PoolFields, NoConnHas DEF NoConnFields
<1>2. q = [p EXCEPT !.taken = tk, !.open = op, !.established = es, !.broken = br, !.conn = cn]
  <2> DEFINE x == [p EXCEPT !.taken = tk]
             y == [x EXCEPT !.open = op, !.established = es, !.broken = br]
  <2> HIDE DEF tk
  <2>1. x.open = p.open /\ x.established = p.established /\ x.broken = p.broken
        /\ x.conn = p.conn
    BY <1>0 DEF PoolType
  <2>2. y.conn = p.conn
    <3> HIDE DEF op, es, br
    <3> QED BY <1>0 DEF PoolType
  <2>3. Close(x, i) = y
    <3>1. Close(x, i) = [x EXCEPT !.open = x.open \ {i}, !.established = x.established \ {i},
                                  !.broken = x.broken \ {i}]
      <4>1. [x EXCEPT !.open = x.open \ {i}].established = x.established
        BY <1>0 DEF PoolType
      <4>2. [x EXCEPT !.open = x.open \ {i},
                      !.established = x.established \ {i}].broken = x.broken
        BY <1>0 DEF PoolType
      <4> HIDE DEF x
      <4> QED BY <4>1, <4>2 DEF Close
    <3> QED BY <2>1, <3>1
  <2>4. q = [Close(x, i) EXCEPT !.conn = [@ EXCEPT ![c] = NoConn]]
    BY DEF GiveUp, Sk, tk
  <2> HIDE DEF y
  <2>5. q = [y EXCEPT !.conn = cn]
    BY <2>2, <2>3, <2>4
  <2> QED BY <2>5 DEF y
<1> HIDE DEF tk, op, es, br, cn, q
<1>3. /\ q \in PoolType /\ q.conn = cn /\ q.open = op /\ q.taken = tk /\ q.epoll = p.epoll
      /\ q.route_map = p.route_map /\ q.n_conns = p.n_conns /\ q.fd_max = p.fd_max
      /\ q.established = es /\ q.broken = br
  BY Zenon, <1>0, <1>1, <1>2 DEF PoolType
<1>4. ~IsLive(q, c) /\ Ends(q, c) = {} /\ Ends(p, c) = {i}
  BY <1>0, <1>1, <1>3, NoConnHas, PoolConnAssumption DEF Ends, IsLive, NoConnFields
<1>5. q.open = (p.open \ Ends(p, c)) \cup Ends(q, c)
  BY <1>3, <1>4 DEF op
<1>6. ASSUME NEW a \in Addrs
      PROVE  q.taken[a] = p.taken[a] + N(Holds(q, c, a)) - N(Holds(p, c, a))
  <2>1. p.taken \in [Addrs -> Int]
    BY <1>0, PoolFields
  <2>2. N(Holds(q, c, a)) = 0
    BY <1>4 DEF Holds, N
  <2>3. N(Holds(p, c, a)) = IF a0 = a THEN 1 ELSE 0
    BY DEF Holds, N
  <2> QED BY <1>0, <1>3, <2>1, <2>2, <2>3 DEF tk
<1>7. Good(q, S)
  <2>1. q.established \subseteq q.open /\ q.established \subseteq p.established
    BY <1>3 DEF Good, Known, op, es
  <2>2. OutsideStep(p, q, S, c)
    BY Zenon, <1>1, <1>3, <1>4, <1>5, <1>6, <2>1 DEF OutsideStep
  <2> QED BY Zenon, <2>2, Outside
<1>8. Others(p, q, c)
  <2>1. \A f \in FDs : f \notin Ends(p, c) => (f \in q.broken <=> f \in p.broken)
    BY <1>3, <1>4 DEF br
  <2> QED BY Zenon, <1>1, <1>3, <2>1 DEF Others
<1> QED BY <1>1, <1>3, <1>7, <1>8 DEF q

\* pool_handle_add_conn(), whatever the kernel answers.
LEMMA AddKept ==
    ASSUME NEW p, NEW c \in Conns, Good(p, Served(p) \ {c}), IsLive(p, c),
           NEW q \in pool_handle_add_conn(p, c)
    PROVE  Kept(q)
<1> DEFINE S == Served(p) \ {c}
<1>1. ASSUME NEW m, Good(m, S), IsLive(m, c), Sk(m, c, "dst") \in FDs, q = Serve(m, c),
             \A d \in Conns : m.conn[d].stage = p.conn[d].stage
      PROVE  Kept(q)
  <2>1. m \in PoolType /\ Sk(m, c, "inc") \in FDs /\ Sk(m, c, "inc") # Sk(m, c, "dst")
    BY <1>1 DEF Good, Sockets
  <2>2. ServeIs(m, q, c)
    BY <1>1, <2>1, ServeFields
  <2>3. Good(q, S \cup {c})
    BY <1>1, <2>2, ServeGood
  <2>4. Served(q) = S \cup {c}
    BY <1>1, <2>2 DEF Served, ServeIs
  <2> QED BY <2>3, <2>4 DEF Kept
<1>2. CASE Sk(p, c, "dst") = NoFD
  <2>1. \/ \E m \in pool_handle_async_conn(p, c) : q = Serve(m, c)
        \/ q = GiveUp(p, c)
    BY Zenon, <1>2 DEF pool_handle_add_conn, Sk
  <2>2. CASE q = GiveUp(p, c)
    <3>1. /\ Good(q, S) /\ q.conn[c] = NoConn
          /\ \A d \in Conns : d # c => q.conn[d] = p.conn[d]
      BY <1>2, <2>2, GiveUpGood DEF Others
    <3>2. Served(q) = S
      BY <3>1, NoConnHas DEF Served, NoConnFields
    <3> QED BY <3>1, <3>2 DEF Kept
  <2>3. ASSUME NEW m \in pool_handle_async_conn(p, c), q = Serve(m, c) PROVE Kept(q)
    <3>1. /\ Good(m, S) /\ IsLive(m, c) /\ Sk(m, c, "dst") \in FDs
          /\ \A d \in Conns : m.conn[d].stage = p.conn[d].stage
      <4> HIDE DEF S
      <4> QED BY Zenon, <1>2, AsyncGood DEF S
    <3> QED BY Zenon, <1>1, <2>3, <3>1
  <2> QED BY <2>1, <2>2, <2>3
<1>3. CASE Sk(p, c, "dst") # NoFD
  <2>1. q = Serve(p, c)
    BY Zenon, <1>3 DEF pool_handle_add_conn, Sk
  <2>2. Sk(p, c, "dst") \in FDs
    BY <1>3, PoolFields DEF Good, Sides
  <2> QED BY <1>1, <2>1, <2>2
<1> QED BY <1>2, <1>3

\* What glb_router_choose_dst_again() changes.
LEMMA ChooseAgainIs ==
    ASSUME NEW p \in PoolType, NEW c \in Conns, NEW a \in Addrs, p.conn[c].addr \in Addrs
    PROVE  LET q == ChooseAgain(p, c, a)
           IN  /\ q \in PoolType /\ q.conn = [p.conn EXCEPT ![c] = [p.conn[c] EXCEPT !.addr = a]]
               /\ \A b \in Addrs : q.taken[b] = p.taken[b] + N(b = a) - N(b = p.conn[c].addr)
               /\ q.epoll = p.epoll /\ q.route_map = p.route_map /\ q.n_conns = p.n_conns
               /\ q.fd_max = p.fd_max /\ q.open = p.open
               /\ q.established = p.established /\ q.broken = p.broken
<1> DEFINE old == p.conn[c].addr
           t1 == [p.taken EXCEPT ![old] = @ - 1]
           t2 == [t1 EXCEPT ![a] = @ + 1]
           cn == [p.conn EXCEPT ![c] = [p.conn[c] EXCEPT !.addr = a]]
           q == ChooseAgain(p, c, a)
<1>1. p.taken \in [Addrs -> Int] /\ p.conn \in [Conns -> ConnType]
  BY PoolFields
<1>2. t1 \in [Addrs -> Int] /\ \A b \in Addrs : t1[b] = IF b = old THEN p.taken[b] - 1 ELSE p.taken[b]
  BY <1>1
<1> HIDE DEF t1
<1>3. t2 \in [Addrs -> Int] /\ \A b \in Addrs : t2[b] = IF b = a THEN t1[b] + 1 ELSE t1[b]
  BY <1>2
<1>4. \A b \in Addrs : t2[b] = p.taken[b] + N(b = a) - N(b = old)
  <2> HIDE DEF t2, old
  <2> QED BY <1>1, <1>2, <1>3 DEF N
<1>5. cn \in [Conns -> ConnType]
  <2>1. [p.conn[c] EXCEPT !.addr = a] \in ConnType
    BY <1>1 DEF ConnType
  <2> QED BY <1>1, <2>1
<1>6. q = [p EXCEPT !.taken = t2, !.conn = cn]
  <2> DEFINE x == [p EXCEPT !.taken = t1]
  <2>1. x.taken = t1 /\ x.conn = p.conn /\ x \in PoolType
    BY Zenon, <1>2 DEF PoolType
  <2>2. q = [x EXCEPT !.taken[a] = @ + 1, !.conn[c].addr = a]
    BY Zenon DEF ChooseAgain, t1
  <2> HIDE DEF x
  <2>3. [x EXCEPT !.taken = t2].conn = p.conn
    BY <2>1 DEF PoolType
  <2>4. q = [x EXCEPT !.taken = t2, !.conn = cn]
    BY Zenon, <2>1, <2>2, <2>3
  <2> HIDE DEF t2, cn
  <2> QED BY Zenon, <2>4 DEF x, PoolType
<1> HIDE DEF t2, cn, q
<1>7. /\ q \in PoolType /\ q.conn = cn /\ q.taken = t2 /\ q.epoll = p.epoll
      /\ q.route_map = p.route_map /\ q.n_conns = p.n_conns
      /\ q.fd_max = p.fd_max /\ q.open = p.open
      /\ q.established = p.established /\ q.broken = p.broken
  BY Zenon, <1>3, <1>5, <1>6 DEF PoolType
<1> QED BY <1>4, <1>7 DEF q, cn

\* m is p with connection c off its destination, which is not served.
Parted(p, m, c) ==
    /\ Good(m, Served(p) \ {c}) /\ Served(m) = Served(p)
    /\ IsLive(m, c) /\ Sk(m, c, "dst") = NoFD
    /\ SameData(p, m, c) /\ Others(p, m, c)

\* The asynchronous connect has failed, and the router has another destination.
LEMMA ReconnectVia ==
    ASSUME NEW p, NEW c \in Served(p), Kept(p), ~p.conn[c].complete, NEW a \in Addrs,
           NEW q \in Reconnect(ChooseAgain(p, c, a), c)
    PROVE  \E m : Parted(p, m, c) /\ q \in pool_handle_add_conn(m, c)
<1> DEFINE S == Served(p)
           p1 == ChooseAgain(p, c, a)
           k1 == [p.conn[c] EXCEPT !.addr = a]
           i == Sk(p, c, "inc")
           d == Sk(p, c, "dst")
           p2 == Detached(p1, c, FALSE)
           p3 == [p2 EXCEPT !.conn[c].end["dst"].sock = NoFD]
<1>0. /\ c \in S /\ Good(p, S) /\ c \in Conns /\ p \in PoolType /\ S \in SUBSET Conns
      /\ "inc" \in Sides /\ "dst" \in Sides
  BY DEF Kept, Good, Served, Sides
<1>1. /\ Ready(p, c) /\ p.n_conns > 0 /\ p.fd_max > 2
      /\ p.route_map[i] = <<c, "dst">> /\ p.route_map[d] = <<c, "inc">>
  BY <1>0, ServedReady, OtherSides
<1>2. /\ i \in FDs /\ d \in FDs /\ i # d /\ IsLive(p, c) /\ p.conn[c].addr \in Addrs
      /\ p.conn[c] \in ConnType /\ p.conn \in [Conns -> ConnType]
  BY <1>0, PoolFields DEF Good, Sockets
<1>3. /\ p1 \in PoolType /\ p1.conn = [p.conn EXCEPT ![c] = k1]
      /\ \A b \in Addrs : p1.taken[b] = p.taken[b] + N(b = a) - N(b = p.conn[c].addr)
      /\ p1.epoll = p.epoll /\ p1.route_map = p.route_map /\ p1.n_conns = p.n_conns
      /\ p1.fd_max = p.fd_max /\ p1.open = p.open /\ p1.established = p.established
      /\ p1.broken = p.broken
  BY <1>0, <1>2, ChooseAgainIs
<1>4. /\ k1.end = p.conn[c].end /\ k1.stage = p.conn[c].stage /\ k1.addr = a
      /\ k1.rcvd = p.conn[c].rcvd /\ k1.dlvd = p.conn[c].dlvd
      /\ k1.complete = p.conn[c].complete /\ k1 \in ConnType
  BY Zenon, <1>2 DEF ConnType
<1> HIDE DEF p1, k1
<1>5. /\ p1.conn[c] = k1 /\ Sk(p1, c, "inc") = i /\ Sk(p1, c, "dst") = d
      /\ \A b \in Conns : b # c => p1.conn[b] = p.conn[b]
  BY <1>0, <1>2, <1>3, <1>4 DEF Sk
<1>6. Ready(p1, c) /\ p1.n_conns > 0 /\ p1.fd_max > 2 /\ p1.route_map[d] = <<c, "inc">>
  BY <1>1, <1>3, <1>5 DEF Ready, Sides
<1>7. pool_remove_conn(p1, d, FALSE) = p2
  <2>1. p1.conn[c].complete \in BOOLEAN /\ ~p1.conn[c].complete
    BY <1>4, <1>5 DEF ConnType
  <2>2. "inc" # "dst"
    OBVIOUS
  <2> QED BY Zenon, <1>0, <1>6, <2>1, <2>2, RemoveCases
<1>8. DetachedIs(p1, p2, c, FALSE)
  BY Zenon, <1>0, <1>6, DetachedFields
<1>9. q \in pool_handle_add_conn(p3, c)
  <2>1. q \in Reconnect(p1, c)
    BY Zenon DEF p1
  <2>2. p1.conn[c].end["dst"].sock = d
    BY <1>5 DEF Sk
  <2> QED BY Zenon, <1>7, <2>1, <2>2 DEF Reconnect
<1> HIDE DEF p2
<1>10. p2 \in PoolType /\ p2.conn = p1.conn /\ p2.conn[c] = k1
  BY <1>5, <1>8 DEF DetachedIs
<1>10a. /\ \A f \in FDs : p2.route_map[f] = IF f \in {i, d} THEN <<>> ELSE p.route_map[f]
        /\ \A f \in FDs : p2.epoll[f] = IF f \in {i, d} THEN Off ELSE p.epoll[f]
        /\ p2.n_conns = p.n_conns - 1 /\ p2.fd_max = p.fd_max - 2 /\ p2.taken = p1.taken
  <2>1. /\ \A f \in FDs : p2.route_map[f] = IF f \in {Sk(p1, c, "inc"), Sk(p1, c, "dst")}
                                           THEN <<>> ELSE p1.route_map[f]
        /\ \A f \in FDs : p2.epoll[f] = IF f \in {Sk(p1, c, "inc"), Sk(p1, c, "dst")}
                                       THEN Off ELSE p1.epoll[f]
        /\ p2.n_conns = p1.n_conns - 1 /\ p2.fd_max = p1.fd_max - 2 /\ p2.taken = p1.taken
    BY Zenon, <1>8 DEF DetachedIs
  <2> HIDE DEF i, d
  <2> QED BY <1>3, <1>5, <2>1
<1>10b. p2.open = p.open \ {d} /\ p2.established = p.established \ {d} /\ p2.broken = p.broken \ {d}
  <2>1. Closed(p1, c, FALSE) = {d}
    BY Zenon, <1>5 DEF Closed
  <2> QED BY Zenon, <1>3, <1>8, <2>1 DEF DetachedIs
<1> DEFINE e == [k1.end["dst"] EXCEPT !.sock = NoFD]
           w == With(k1, "dst", e, k1.rcvd, k1.dlvd)
           cn == [p2.conn EXCEPT ![c] = w]
<1>11. /\ e \in EndType /\ e.sock = NoFD
       /\ e.buf = k1.end["dst"].buf /\ e.sent = k1.end["dst"].sent
  <2>1. k1.end["dst"] \in EndType
    BY <1>0, <1>4 DEF ConnType
  <2> QED BY Zenon, <2>1 DEF EndType
<1>12. p3 = [p2 EXCEPT !.conn = cn]
  <2>1. w = [k1 EXCEPT !.end["dst"].sock = NoFD]
    BY Zenon, <1>4 DEF With, ConnType
  <2> QED BY <1>10, <2>1
<1> HIDE DEF e
<1>13. /\ w \in ConnType /\ w.stage = p.conn[c].stage /\ w.addr = a
       /\ w.complete = p.conn[c].complete
       /\ w.rcvd = p.conn[c].rcvd /\ w.dlvd = p.conn[c].dlvd
       /\ \A t \in Sides : w.end[t] = IF t = "dst" THEN e ELSE p.conn[c].end[t]
  <2>1. k1.rcvd \in [Sides -> Nat] /\ k1.dlvd \in [Sides -> Nat]
    BY <1>4 DEF ConnType
  <2>2. WithIs(w, k1, "dst", e, k1.rcvd, k1.dlvd)
    BY Zenon, <1>0, <1>4, <1>11, <2>1, WithFields
  <2> QED BY Zenon, <1>4, <2>2 DEF WithIs
<1> HIDE DEF w
<1>14. cn \in [Conns -> ConnType] /\ cn[c] = w /\ \A b \in Conns : b # c => cn[b] = p.conn[b]
  BY <1>0, <1>5, <1>10, <1>13, PoolFields
<1> HIDE DEF cn, p3
<1>15. /\ p3 \in PoolType /\ p3.conn = cn /\ p3.taken = p2.taken /\ p3.n_conns = p2.n_conns
       /\ p3.fd_max = p2.fd_max /\ p3.route_map = p2.route_map /\ p3.epoll = p2.epoll
       /\ p3.open = p2.open /\ p3.established = p2.established /\ p3.broken = p2.broken
  BY Zenon, <1>10, <1>12, <1>14 DEF PoolType
<1>16. /\ Sk(p3, c, "inc") = i /\ Sk(p3, c, "dst") = NoFD /\ p3.conn[c].addr = a
       /\ IsLive(p3, c) /\ p3.conn[c].stage = p.conn[c].stage
  BY <1>0, <1>2, <1>11, <1>13, <1>14, <1>15 DEF Sk, IsLive
<1> DEFINE T == S \ {c}
<1>17. Ends(p, c) = {i, d} /\ Ends(p3, c) = {i}
  BY <1>2, <1>16, PoolConnAssumption DEF Ends
<1>18. Ends(p, c) \subseteq p.open
  <2>1. \A f \in FDs : f \in p.open <=> \E b \in Conns : f \in Ends(p, b)
    BY Zenon, <1>0 DEF Good, Sockets
  <2> HIDE DEF i, d
  <2> QED BY <1>0, <1>2, <1>17, <2>1
<1>19. /\ p3.open = (p.open \ Ends(p, c)) \cup Ends(p3, c)
       /\ \A f \in FDs : p3.route_map[f] = IF f \in Ends(p, c) THEN <<>> ELSE p.route_map[f]
  <2>1. p3.open = p.open \ {d}
    BY Zenon, <1>10b, <1>15
  <2>2. \A f \in FDs : p3.route_map[f] = IF f \in {i, d} THEN <<>> ELSE p.route_map[f]
    BY Zenon, <1>10a, <1>15
  <2> HIDE DEF i, d
  <2> QED BY <1>2, <1>17, <1>18, <2>1, <2>2
<1>20. \A f \in FDs : p3.epoll[f] = Off <=> p3.route_map[f] = <<>>
  <2>1. \A f \in FDs : p.epoll[f] = Off <=> p.route_map[f] = <<>>
    BY <1>0 DEF Good, Mapped
  <2>2. \A f \in FDs : p3.epoll[f] = IF f \in {i, d} THEN Off ELSE p.epoll[f]
    BY Zenon, <1>10a, <1>15
  <2> HIDE DEF i, d
  <2> QED BY <1>17, <1>19, <2>1, <2>2
<1>21. /\ p3.n_conns = p.n_conns + N(c \in T) - N(c \in S)
       /\ p3.fd_max = p.fd_max + 2 * (N(c \in T) - N(c \in S))
  <2>1. N(c \in T) = 0 /\ N(c \in S) = 1
    BY <1>0 DEF N
  <2>2. p3.n_conns = p.n_conns - 1 /\ p3.fd_max = p.fd_max - 2
    BY Zenon, <1>10a, <1>15
  <2> QED BY <1>0, <2>1, <2>2, PoolNumbers
<1>22. ASSUME NEW b \in Addrs
       PROVE  p3.taken[b] = p.taken[b] + N(Holds(p3, c, b)) - N(Holds(p, c, b))
  <2>1. p3.taken[b] = p.taken[b] + N(b = a) - N(b = p.conn[c].addr)
    BY <1>3, <1>10a, <1>15
  <2>2. N(Holds(p3, c, b)) = N(b = a) /\ N(Holds(p, c, b)) = N(b = p.conn[c].addr)
    BY <1>2, <1>16 DEF Holds, N
  <2> QED BY <2>1, <2>2
<1>23. OneStep(p, p3, S, T, c)
  <2>1. \A b \in Conns : b # c => (b \in S <=> b \in T) /\ SameView(p, p3, b)
    BY <1>14, <1>15 DEF SameView, Sk
  <2>2. T \in SUBSET Conns /\ c \notin T
    BY <1>0
  <2>3. i # NoFD
    BY <1>2, PoolConnAssumption
  <2>4. /\ p3.established \subseteq p3.open /\ p3.established \subseteq p.established
        /\ NoFD \notin p3.established
    <3>1. p3.open = p.open \ {d} /\ p3.established = p.established \ {d}
      BY Zenon, <1>10b, <1>15
    <3>2. p.established \subseteq p.open /\ p.established \in SUBSET FDs
      BY <1>0, PoolFields DEF Good, Known
    <3> QED BY <3>1, <3>2, PoolConnAssumption
  <2> HIDE DEF S, T
  <2> QED BY Zenon, <1>0, <1>2, <1>15, <1>16, <1>17, <1>19, <1>20, <1>21, <1>22, <2>1, <2>2, <2>3,
          <2>4 DEF OneStep
<1>24. Good(p3, T)
  BY <1>0, <1>23, OneConn
<1>25. Served(p3) = S
  BY <1>0, <1>14, <1>15, <1>16 DEF Served
<1>26. SameData(p, p3, c)
  BY Zenon, <1>4, <1>11, <1>13, <1>14, <1>15 DEF SameData
<1>27. Others(p, p3, c)
  <2>1. \A f \in FDs : f \notin Ends(p, c) => p3.epoll[f] = p.epoll[f]
    <3>1. \A f \in FDs : p3.epoll[f] = IF f \in {i, d} THEN Off ELSE p.epoll[f]
      BY Zenon, <1>10a, <1>15
    <3> HIDE DEF i, d
    <3> QED BY <1>17, <3>1
  <2>2. \A f \in FDs : f \notin Ends(p, c) => (f \in p3.broken <=> f \in p.broken)
    <3>1. p3.broken = p.broken \ {d}
      BY Zenon, <1>10b, <1>15
    <3> HIDE DEF i, d
    <3> QED BY <1>17, <3>1
  <2> QED BY Zenon, <1>14, <1>15, <2>1, <2>2 DEF Others
<1>28. Parted(p, p3, c)
  BY Zenon, <1>16, <1>24, <1>25, <1>26, <1>27 DEF Parted
<1> QED BY Zenon, <1>9, <1>28

\* Failing over to another destination keeps the pool in order.
LEMMA ReconnectKept ==
    ASSUME NEW p, NEW c \in Served(p), Kept(p), ~p.conn[c].complete, NEW a \in Addrs,
           NEW q \in Reconnect(ChooseAgain(p, c, a), c)
    PROVE  Kept(q)
<1>1. PICK m : Parted(p, m, c) /\ q \in pool_handle_add_conn(m, c)
  BY Zenon, ReconnectVia
<1>2. c \in Conns
  BY DEF Served
<1> QED BY Zenon, <1>1, <1>2, AddKept DEF Parted

\* It has failed, and the router has none.
LEMMA NoDestinationIs ==
    ASSUME NEW p, NEW c \in Served(p), Kept(p)
    PROVE  RemovedIs(p, NoDestination(p, c), c, TRUE)
<1> DEFINE S == Served(p)
           a == p.conn[c].addr
           k1 == [p.conn[c] EXCEPT !.complete = TRUE]
           tk == [p.taken EXCEPT ![a] = @ - 1]
           cn == [p.conn EXCEPT ![c] = k1]
           i == Sk(p, c, "inc")
           d == Sk(p, c, "dst")
           p1 == [p EXCEPT !.taken[p.conn[c].addr] = @ - 1, !.conn[c].complete = TRUE]
           q == pool_remove_conn(p1, d, FALSE)
<1>0. /\ c \in S /\ Good(p, S) /\ c \in Conns /\ p \in PoolType
      /\ "inc" \in Sides /\ "dst" \in Sides
  BY DEF Kept, Good, Served, Sides
<1>1. /\ Ready(p, c) /\ p.n_conns > 0 /\ p.fd_max > 2
      /\ p.route_map[i] = <<c, "dst">> /\ p.route_map[d] = <<c, "inc">>
  BY <1>0, ServedReady, OtherSides
<1>2. /\ a \in Addrs /\ p.conn[c] \in ConnType /\ p.conn \in [Conns -> ConnType]
      /\ p.taken \in [Addrs -> Int]
  BY <1>0, PoolFields DEF Good
<1>3. /\ k1 \in ConnType /\ k1.end = p.conn[c].end /\ k1.addr = a /\ k1.complete = TRUE
  BY Zenon, <1>2 DEF ConnType
<1>4. p1 = [p EXCEPT !.taken = tk, !.conn = cn]
  <2>1. [p EXCEPT !.taken = tk].conn = p.conn
    BY <1>0 DEF PoolType
  <2> QED BY <2>1
<1>5. NoDestination(p, c) = q
  BY Zenon DEF NoDestination, Sk
<1> HIDE DEF k1, p1
<1>6. /\ cn \in [Conns -> ConnType] /\ cn[c] = k1 /\ tk \in [Addrs -> Int]
      /\ \A b \in Conns : b # c => cn[b] = p.conn[b]
  BY <1>0, <1>2, <1>3
<1>7. [cn EXCEPT ![c] = NoConn] = [p.conn EXCEPT ![c] = NoConn]
  BY <1>2
<1> HIDE DEF cn, tk
<1>8. /\ p1 \in PoolType /\ p1.conn = cn /\ p1.taken = tk /\ p1.route_map = p.route_map
      /\ p1.epoll = p.epoll /\ p1.n_conns = p.n_conns /\ p1.fd_max = p.fd_max
      /\ p1.open = p.open /\ p1.established = p.established /\ p1.broken = p.broken
  BY Zenon, <1>0, <1>4, <1>6 DEF PoolType
<1>9. Sk(p1, c, "inc") = i /\ Sk(p1, c, "dst") = d /\ p1.conn[c] = k1
  BY <1>3, <1>6, <1>8 DEF Sk
<1>10. Ready(p1, c)
  BY <1>1, <1>8, <1>9 DEF Ready, Sides
<1>11. RemovedIs(p1, q, c, FALSE)
  <2>1. p1.conn[c].addr \in Addrs /\ p1.conn[c].complete
    BY <1>2, <1>3, <1>9
  <2> HIDE DEF d
  <2> QED BY Zenon, <1>0, <1>1, <1>8, <1>10, <2>1, RemovedFields DEF d
<1> HIDE DEF q
<1>12. RemovedIs(p, q, c, TRUE)
  <2>1. q.conn = [p.conn EXCEPT ![c] = NoConn] /\ q.taken = tk
    BY <1>7, <1>8, <1>11 DEF RemovedIs
  <2>2. tk = [p.taken EXCEPT ![p.conn[c].addr] = @ - 1]
    BY DEF tk
  <2> QED BY <1>8, <1>9, <1>11, <2>1, <2>2 DEF RemovedIs
<1> QED BY Zenon, <1>5, <1>12

\* So does giving up.
LEMMA NoDestinationKept ==
    ASSUME NEW p, NEW c \in Served(p), Kept(p)
    PROVE  Kept(NoDestination(p, c))
BY Zenon, NoDestinationIs, RemovedKept

-----------------------------------------------------------------------------
(* The handlers                                                            *)

\* Moves keep the pool in order, with the same connections served.
LEMMA MovesKept ==
    ASSUME NEW p, NEW q, Kept(p), Moves(p, q)
    PROVE  Kept(q) /\ Served(q) = Served(p)
<1>1. Served(q) = Served(p)
  BY DEF Served, Moves, SameView
<1> QED BY <1>1, MovesGood DEF Kept

\* What pool_remove_conn() does to a connection that is served.
LEMMA RemoveIs ==
    ASSUME NEW p, NEW c \in Served(p), NEW s \in Sides, Kept(p),
           s = "inc" \/ p.conn[c].complete
    PROVE  RemovedIs(p, pool_remove_conn(p, Sk(p, c, s), TRUE), c, TRUE)
<1>1. /\ Good(p, Served(p)) /\ c \in Conns /\ p.conn[c].addr \in Addrs
      /\ Other(s) \in Sides /\ (s = "inc" => Other(s) = "dst")
  BY OtherSides DEF Kept, Good, Served, Sides
<1>2. /\ Ready(p, c) /\ p.n_conns > 0 /\ p.fd_max > 2
      /\ p.route_map[Sk(p, c, s)] = <<c, Other(s)>>
  BY <1>1, ServedReady
<1> DEFINE fd == Sk(p, c, s)
           q == pool_remove_conn(p, fd, TRUE)
<1>3. RemovedIs(p, q, c, TRUE)
  <2>1. Other(s) = "dst" \/ p.conn[c].complete
    BY <1>1
  <2> HIDE DEF fd
  <2> QED BY Zenon, <1>1, <1>2, <2>1, RemovedFields DEF fd
<1> QED BY Zenon, <1>3

\* It keeps the pool in order.
LEMMA RemoveKept ==
    ASSUME NEW p, NEW c \in Served(p), NEW s \in Sides, Kept(p),
           s = "inc" \/ p.conn[c].complete
    PROVE  Kept(pool_remove_conn(p, Sk(p, c, s), TRUE))
BY Zenon, RemoveIs, RemovedKept

\* A descriptor that is mapped is an end of a connection that is served.
LEMMA MappedEnd ==
    ASSUME NEW p, Kept(p), NEW fd \in FDs, p.route_map[fd] # <<>>
    PROVE  \E c \in Served(p), s \in Sides :
              fd = Sk(p, c, s) /\ p.route_map[fd] = <<c, Other(s)>>
<1>1. Good(p, Served(p))
  BY DEF Kept
<1>2. PICK c \in Served(p) : fd \in Ends(p, c)
  BY <1>1 DEF Good, Mapped
<1>3. PICK s \in Sides : fd = Sk(p, c, s)
  BY <1>2 DEF Ends, Sides
<1>4. p.route_map[Sk(p, c, s)] = <<c, Other(s)>>
  BY <1>1, ServedReady
<1> QED BY <1>3, <1>4

\* pool_send_data() keeps the pool in order, and the connection unless it returns
\* EPIPE.
LEMMA SendKept ==
    ASSUME NEW p, NEW c \in Served(p), NEW s \in Sides, NEW src \in BOOLEAN, Kept(p),
           NEW r \in pool_send_data(p, c, s, src)
    PROVE  Kept(r.pool) /\ (r.ret # "EPIPE" => c \in Served(r.pool))
<1>1. c \in Conns /\ Ready(p, c)
  BY ServedReady DEF Kept, Served
<1>2. \/ Moves(p, r.pool) /\ r.ret # "EPIPE"
      \/ /\ r.ret = "EPIPE" /\ (s = "inc" \/ p.conn[c].complete)
         /\ r.pool = pool_remove_conn(p, Sk(p, c, s), TRUE)
  BY Zenon, <1>1, SendMoves
<1>3. CASE Moves(p, r.pool) /\ r.ret # "EPIPE"
  BY <1>3, MovesKept
<1>4. CASE /\ r.ret = "EPIPE" /\ (s = "inc" \/ p.conn[c].complete)
           /\ r.pool = pool_remove_conn(p, Sk(p, c, s), TRUE)
  BY Zenon, <1>4, RemoveKept
<1> QED BY Zenon, <1>2, <1>3, <1>4

\* pool_handle_read() and pool_handle_write() for the end s of connection c.
ReadData(p, c, s, k) ==
    {IF r.ret = "EPIPE" THEN [pool |-> r.pool, ret |-> "fail"]
     ELSE [pool |-> StopIfFull(r.pool, c, s), ret |-> "ok"] :
         r \in pool_send_data(Received(p, c, s, k), c, s, FALSE)}

\* The most that recv() may return.
Room(p, c, s) ==
    Min({BufSize - Len(p.conn[c].end[s].buf),
         MaxBytes - p.conn[c].rcvd["inc"] - p.conn[c].rcvd["dst"]})

\* The whole of pool_handle_read() ...
ReadEnd(p, c, s, fd) ==
    IF Len(p.conn[c].end[s].buf) = BufSize THEN {[pool |-> p, ret |-> "ok"]}
    ELSE {[pool |-> p, ret |-> "fail"]}
         \cup (IF Usable(p, c, Other(s))
               THEN {[pool |-> pool_remove_conn(p, fd, TRUE), ret |-> "fail"]}
                    \cup UNION {ReadData(p, c, s, k) : k \in 1..Room(p, c, s)}
               ELSE {})

\* ... the sending in pool_handle_write() ...
SendEnd(q, c, s) ==
    IF q.conn[c].end[s].buf = <<>> THEN {q}
    ELSE {r.pool : r \in pool_send_data(q, c, s, TRUE)}

\* ... and the whole of it.
WriteEnd(p, c, s) ==
    IF s = "dst" /\ ~p.conn[c].complete
    THEN UNION {IF r.ret = "fail" THEN {r.pool} ELSE SendEnd(r.pool, c, s) :
                    r \in pool_handle_conn_complete(p, c)}
    ELSE SendEnd(p, c, s)

\* The ways out of pool_handle_read().
LEMMA ReadCases ==
    ASSUME NEW p, NEW c, NEW s, NEW fd, p.route_map[fd] = <<c, s>>,
           NEW r \in pool_handle_read(p, fd)
    PROVE  \/ r.pool = p
           \/ Usable(p, c, Other(s)) /\ r.pool = pool_remove_conn(p, fd, TRUE)
           \/ /\ Len(p.conn[c].end[s].buf) # BufSize /\ Usable(p, c, Other(s))
              /\ \E k \in 1..Room(p, c, s) : r \in ReadData(p, c, s, k)
<1>1. p.route_map[fd][1] = c /\ p.route_map[fd][2] = s
  OBVIOUS
<1>2. pool_handle_read(p, fd) = ReadEnd(p, p.route_map[fd][1], p.route_map[fd][2], fd)
  BY Zenon DEF pool_handle_read, ReadEnd, ReadData, Room
<1>3. r \in ReadEnd(p, c, s, fd)
  BY <1>1, <1>2
<1>4. \/ r = [pool |-> p, ret |-> "ok"]
      \/ r = [pool |-> p, ret |-> "fail"]
      \/ /\ Usable(p, c, Other(s))
         /\ r = [pool |-> pool_remove_conn(p, fd, TRUE), ret |-> "fail"]
      \/ /\ Len(p.conn[c].end[s].buf) # BufSize /\ Usable(p, c, Other(s))
         /\ \E k \in 1..Room(p, c, s) : r \in ReadData(p, c, s, k)
  BY Zenon, <1>3 DEF ReadEnd
<1>5. ASSUME NEW x, NEW y, r = [pool |-> x, ret |-> y] PROVE r.pool = x
  BY <1>5
<1> QED BY Zenon, <1>4, <1>5

\* pool_handle_read() keeps the pool in order. That data moves only over connections
\* the thread knows to be established is needed here: an end of a stream met on a
\* connect in progress takes the client's socket off the pool and keeps it open.
LEMMA ReadKept ==
    ASSUME NEW p, Kept(p), ~Early, NEW fd \in FDs, p.route_map[fd] # <<>>,
           NEW r \in pool_handle_read(p, fd)
    PROVE  Kept(r.pool)
<1>1. PICK c \in Served(p), t \in Sides : fd = Sk(p, c, t) /\ p.route_map[fd] = <<c, Other(t)>>
  BY MappedEnd
<1> DEFINE s == Other(t)
<1>2. c \in Conns /\ Ready(p, c) /\ s \in Sides /\ Other(s) = t
  BY ServedReady, OtherSides DEF Kept, Served, Sides
<1>3. CASE r.pool = p
  BY <1>3
<1>4. CASE Usable(p, c, Other(s)) /\ r.pool = pool_remove_conn(p, fd, TRUE)
  <2>1. Sk(p, c, t) \in p.established
    BY <1>2, <1>4 DEF Usable, Sk
  <2>2. t = "inc" \/ p.conn[c].complete
    BY <1>2, <2>1 DEF Kept, Good, Known, Sides
  <2> QED BY Zenon, <1>1, <1>4, <2>2, RemoveKept
<1>5. ASSUME NEW k \in 1..Room(p, c, s), r \in ReadData(p, c, s, k),
             Len(p.conn[c].end[s].buf) # BufSize
      PROVE  Kept(r.pool)
  <2> DEFINE p1 == Received(p, c, s, k)
  <2>1. k \in Nat
    BY <1>5
  <2>2. Moves(p, p1)
    BY Zenon, <1>2, <2>1, ReceivedMoves DEF EndMoved
  <2>3. Kept(p1) /\ c \in Served(p1)
    BY <2>2, MovesKept
  <2> HIDE DEF p1, s
  <2>4. PICK x \in pool_send_data(p1, c, s, FALSE) :
          r = IF x.ret = "EPIPE" THEN [pool |-> x.pool, ret |-> "fail"]
              ELSE [pool |-> StopIfFull(x.pool, c, s), ret |-> "ok"]
    BY Zenon, <1>5 DEF ReadData, p1
  <2>5. Kept(x.pool) /\ (x.ret # "EPIPE" => c \in Served(x.pool))
    BY Zenon, <1>2, <2>3, SendKept
  <2>6. CASE x.ret = "EPIPE"
    BY <2>4, <2>5, <2>6
  <2>7. CASE x.ret # "EPIPE"
    <3>1. Ready(x.pool, c)
      BY <1>2, <2>5, <2>7, ServedReady DEF Kept
    <3>2. Moves(x.pool, StopIfFull(x.pool, c, s))
      BY <1>2, <3>1, StopIfFullMoves
    <3> QED BY <2>4, <2>5, <2>7, <3>2, MovesKept
  <2> QED BY <2>6, <2>7
<1>6. \/ r.pool = p
      \/ Usable(p, c, Other(s)) /\ r.pool = pool_remove_conn(p, fd, TRUE)
      \/ /\ Len(p.conn[c].end[s].buf) # BufSize /\ Usable(p, c, Other(s))
         /\ \E k \in 1..Room(p, c, s) : r \in ReadData(p, c, s, k)
  BY Zenon, <1>1, ReadCases
<1> QED BY Zenon, <1>3, <1>4, <1>5, <1>6

\* The asynchronous connect has succeeded.
LEMMA DoneKept ==
    ASSUME NEW p, NEW c \in Served(p), Kept(p)
    PROVE  Kept(DoneSet(p, c)) /\ c \in Served(DoneSet(p, c))
<1> DEFINE q == DoneSet(p, c)
           S == Served(p)
           d == Sk(p, c, "dst")
<1>0. /\ c \in S /\ Good(p, S) /\ c \in Conns /\ p \in PoolType /\ S \in SUBSET Conns
      /\ Ready(p, c) /\ p.conn[c] \in ConnType /\ "dst" \in Sides /\ "inc" \in Sides
      /\ p.conn[c].addr \in Addrs /\ Sk(p, c, "inc") # d /\ IsLive(p, c)
      /\ Sk(p, c, "inc") \in FDs /\ d \in FDs
  BY Zenon, ServedReady, PoolFields DEF Kept, Good, Served, Sides, Sockets
<1>1. /\ q \in PoolType /\ \A b \in Conns : b # c => q.conn[b] = p.conn[b]
      /\ q.conn[c] = [p.conn[c] EXCEPT !.complete = TRUE] /\ q.epoll = p.epoll
      /\ q.established = p.established \cup {d}
      /\ q.route_map = p.route_map /\ q.n_conns = p.n_conns
      /\ q.fd_max = p.fd_max /\ q.open = p.open /\ q.taken = p.taken
  BY <1>0, DoneFields DEF DoneIs
<1> HIDE DEF q
<1>2. /\ q.conn[c].stage = p.conn[c].stage /\ q.conn[c].addr = p.conn[c].addr
      /\ q.conn[c].end = p.conn[c].end /\ q.conn[c].complete = TRUE
  BY <1>0, <1>1 DEF ConnType
<1>3. /\ Sk(q, c, "inc") = Sk(p, c, "inc") /\ Sk(q, c, "dst") = d /\ IsLive(q, c)
      /\ Ends(q, c) = Ends(p, c) /\ \A a : Holds(q, c, a) <=> Holds(p, c, a)
  BY Zenon, <1>0, <1>2 DEF Sk, IsLive, Ends, Holds
<1>4. Ends(p, c) = {Sk(p, c, "inc"), d} /\ Ends(p, c) \subseteq p.open
  <2>1. Ends(p, c) = {Sk(p, c, "inc"), d}
    BY <1>0, PoolConnAssumption DEF Ends
  <2>2. \A f \in FDs : f \in p.open <=> \E b \in Conns : f \in Ends(p, b)
    BY Zenon, <1>0 DEF Good, Sockets
  <2> HIDE DEF d
  <2> QED BY <1>0, <2>1, <2>2
<1>5. \A b \in Conns : b # c => SameView(p, q, b)
  BY <1>1 DEF SameView, Sk
<1>6. /\ p.established \subseteq p.open
      /\ p.route_map[Sk(p, c, "inc")] = <<c, "dst">> /\ p.route_map[d] = <<c, "inc">>
      /\ \A f \in FDs : p.epoll[f] = Off <=> p.route_map[f] = <<>>
  BY <1>0 DEF Good, Known, Mapped
<1>7. ASSUME NEW a \in Addrs
      PROVE  q.taken[a] = p.taken[a] + N(Holds(q, c, a)) - N(Holds(p, c, a))
  <2>1. p.taken[a] \in Int
    BY <1>0, PoolFields
  <2>2. N(Holds(q, c, a)) = N(Holds(p, c, a)) /\ N(Holds(p, c, a)) \in Int
    BY <1>3 DEF N
  <2> QED BY <1>1, <2>1, <2>2
<1>8. /\ q.n_conns = p.n_conns + N(c \in S) - N(c \in S)
      /\ q.fd_max = p.fd_max + 2 * (N(c \in S) - N(c \in S))
  BY <1>0, <1>1, PoolFields DEF N
<1>9. OneStep(p, q, S, S, c)
  <2> HIDE DEF S, d
  <2>1. \A f \in FDs : ~(c \in S /\ f \in Ends(q, c)) =>
          q.route_map[f] = IF c \in S /\ f \in Ends(p, c) THEN <<>> ELSE p.route_map[f]
    BY <1>0, <1>1, <1>3
  <2>2. q.established \subseteq q.open /\ q.established \subseteq p.established \cup Ends(q, c)
        /\ q.open = (p.open \ Ends(p, c)) \cup Ends(q, c)
    BY <1>1, <1>3, <1>4, <1>6
  <2> QED BY <1>0, <1>1, <1>2, <1>3, <1>5, <1>6, <1>7, <1>8, <2>1, <2>2 DEF OneStep, d
<1>10. Good(q, S)
  BY <1>0, <1>9, OneConn
<1>11. Served(q) = S
  BY Zenon, <1>1, <1>2 DEF Served
<1> QED BY <1>0, <1>10, <1>11 DEF Kept, q

\* So does sending what waits,
LEMMA SendEndKept ==
    ASSUME NEW p, NEW c \in Served(p), NEW s \in Sides, Kept(p), NEW q \in SendEnd(p, c, s)
    PROVE  Kept(q)
<1>1. q = p \/ \E r \in pool_send_data(p, c, s, TRUE) : q = r.pool
  BY Zenon DEF SendEnd
<1> QED BY Zenon, <1>1, SendKept

\* and pool_handle_conn_complete(), however the connect ended.
LEMMA CompleteKept ==
    ASSUME NEW p, NEW c \in Served(p), Kept(p), ~p.conn[c].complete,
           NEW r \in pool_handle_conn_complete(p, c)
    PROVE  Kept(r.pool) /\ (r.ret # "fail" => c \in Served(r.pool))
<1>1. \/ r = [pool |-> pool_fds_set_events(DoneSet(p, c), c, "dst", {"R"}), ret |-> "ok"]
      \/ \E a \in Addrs : \E q \in Reconnect(ChooseAgain(p, c, a), c) :
            r = [pool |-> q, ret |-> "fail"]
      \/ r = [pool |-> NoDestination(p, c), ret |-> "fail"]
  BY Zenon DEF pool_handle_conn_complete, DoneSet
<1>2. CASE r = [pool |-> pool_fds_set_events(DoneSet(p, c), c, "dst", {"R"}), ret |-> "ok"]
  <2> DEFINE p1 == DoneSet(p, c)
  <2>1. Kept(p1) /\ c \in Served(p1)
    BY DoneKept
  <2> HIDE DEF p1
  <2>2. Ready(p1, c) /\ c \in Conns /\ "dst" \in Sides /\ {"R"} \in SUBSET RW
    BY <2>1, ServedReady DEF Kept, Served, Sides, RW
  <2>3. Moves(p1, pool_fds_set_events(p1, c, "dst", {"R"}))
    BY Zenon, <2>2, SetEvents DEF EventsMoved
  <2> QED BY <1>2, <2>1, <2>3, MovesKept DEF p1
<1>3. ASSUME NEW a \in Addrs, NEW q \in Reconnect(ChooseAgain(p, c, a), c),
             r = [pool |-> q, ret |-> "fail"]
      PROVE  Kept(r.pool) /\ r.ret = "fail"
  BY <1>3, ReconnectKept
<1>4. CASE r = [pool |-> NoDestination(p, c), ret |-> "fail"]
  BY <1>4, NoDestinationKept
<1> QED BY <1>1, <1>2, <1>3, <1>4

\* pool_handle_write() keeps the pool in order.
LEMMA WriteKept ==
    ASSUME NEW p, Kept(p), NEW fd \in FDs, p.route_map[fd] # <<>>,
           NEW q \in pool_handle_write(p, fd)
    PROVE  Kept(q)
<1>1. PICK c \in Served(p), s \in Sides : fd = Sk(p, c, s) /\ p.route_map[fd] = <<c, Other(s)>>
  BY MappedEnd
<1>2. p.route_map[fd][1] = c /\ Other(p.route_map[fd][2]) = s
  <2>1. Other(Other(s)) = s
    BY OtherSides DEF Sides
  <2> QED BY <1>1, <2>1
<1>3. pool_handle_write(p, fd) = WriteEnd(p, p.route_map[fd][1], Other(p.route_map[fd][2]))
  BY Zenon DEF pool_handle_write, WriteEnd, SendEnd
<1>4. q \in WriteEnd(p, c, s)
  BY <1>2, <1>3
<1>5. CASE s = "dst" /\ ~p.conn[c].complete
  <2>1. PICK r \in pool_handle_conn_complete(p, c) :
          q \in IF r.ret = "fail" THEN {r.pool} ELSE SendEnd(r.pool, c, s)
    BY Zenon, <1>4, <1>5 DEF WriteEnd
  <2>2. Kept(r.pool) /\ (r.ret # "fail" => c \in Served(r.pool))
    BY <1>5, CompleteKept
  <2> QED BY <2>1, <2>2, SendEndKept
<1>6. CASE ~(s = "dst" /\ ~p.conn[c].complete)
  <2>1. q \in SendEnd(p, c, s)
    BY Zenon, <1>4, <1>6 DEF WriteEnd
  <2> QED BY <2>1, SendEndKept
<1> QED BY <1>5, <1>6

-----------------------------------------------------------------------------
(* The steps                                                               *)

\* What the fields of NewConn() are.
NewConnIs(k, complete, a, inc, dst) ==
    /\ k \in ConnType /\ k.stage = "piped" /\ k.addr = a /\ k.complete = complete
    /\ k.end["inc"].sock = inc /\ k.end["dst"].sock = dst
    /\ \A s \in Sides : /\ k.end[s].buf = <<>> /\ k.end[s].sent = 0
                        /\ k.rcvd[s] = 0 /\ k.dlvd[s] = 0

\* A new connection has its sockets and nothing else.
LEMMA NewConnFields ==
    ASSUME NEW complete \in BOOLEAN, NEW a \in Addrs, NEW inc \in FDs,
           NEW dst \in FDs \cup {NoFD}
    PROVE  NewConnIs(NewConn(complete, a, inc, dst), complete, a, inc, dst)
<1> DEFINE sock == [s \in Sides |-> IF s = "inc" THEN inc ELSE dst]
           en == [s \in Sides |-> [NoEnd EXCEPT !.sock = sock[s]]]
<1>1. <<>> \in Seq(Nat)
  OBVIOUS
<1>2. \A s \in Sides : /\ [NoEnd EXCEPT !.sock = sock[s]] \in EndType
                       /\ [NoEnd EXCEPT !.sock = sock[s]].sock = sock[s]
                       /\ [NoEnd EXCEPT !.sock = sock[s]].buf = <<>>
                       /\ [NoEnd EXCEPT !.sock = sock[s]].sent = 0
  BY Zenon, <1>1 DEF NoEnd, EndType
<1>3. /\ en \in [Sides -> EndType] /\ en["inc"].sock = inc /\ en["dst"].sock = dst
      /\ \A s \in Sides : en[s].buf = <<>> /\ en[s].sent = 0
  BY Zenon, <1>2 DEF Sides
<1>4. NewConn(complete, a, inc, dst)
        = [NoConn EXCEPT !.stage = "piped", !.complete = complete, !.addr = a, !.end = en]
  BY Zenon DEF NewConn
<1> HIDE DEF en
<1> DEFINE none == [s \in Sides |-> 0]
           k == NewConn(complete, a, inc, dst)
<1>5. k = [stage |-> "piped", complete |-> complete, addr |-> a, end |-> en,
           rcvd |-> none, dlvd |-> none]
  BY Zenon, <1>4 DEF NoConn
<1>6. none \in [Sides -> Nat] /\ \A s \in Sides : none[s] = 0
  OBVIOUS
<1> HIDE DEF none, k
<1>7. k \in ConnType
  BY Zenon, <1>3, <1>5, <1>6 DEF ConnType
<1>8. /\ k.stage = "piped" /\ k.addr = a /\ k.complete = complete /\ k.end = en
      /\ k.rcvd = none /\ k.dlvd = none
  BY <1>5
<1>9. \A s \in Sides : k.rcvd[s] = 0 /\ k.dlvd[s] = 0
  BY Zenon, <1>6, <1>8
<1>10. NewConnIs(k, complete, a, inc, dst)
  BY Zenon, <1>3, <1>7, <1>8, <1>9 DEF NewConnIs
<1> QED BY <1>10 DEF k

\* A connection over which nothing has moved.
Unused(p, c) ==
    \A s \in Sides : /\ p.conn[c].end[s].buf = <<>> /\ p.conn[c].end[s].sent = 0
                     /\ p.conn[c].rcvd[s] = 0 /\ p.conn[c].dlvd[s] = 0

\* The listener's step keeps the pool in order: the sockets are new, and the pool
\* thread does not have the connection yet.
LEMMA AddConnKept ==
    ASSUME Kept(pool), NEW c \in Conns, AddConn(c)
    PROVE  /\ Kept(pool') /\ Others(pool, pool', c) /\ Unused(pool', c)
           /\ c \notin Served(pool) /\ Served(pool') = Served(pool)
<1>1. PICK complete \in Modes, a \in Addrs, inc \in FDs \ pool.open :
      \E dst \in IF complete THEN (FDs \ pool.open) \ {inc} ELSE {NoFD} :
         pool' = [pool EXCEPT !.conn[c] = NewConn(complete, a, inc, dst),
                              !.open = @ \cup ({inc, dst} \ {NoFD}),
                              !.established = @ \cup ({inc, dst} \ {NoFD}),
                              !.taken[a] = @ + 1]
  BY Zenon DEF AddConn, Free
<1>2. PICK dst \in IF complete THEN (FDs \ pool.open) \ {inc} ELSE {NoFD} :
         pool' = [pool EXCEPT !.conn[c] = NewConn(complete, a, inc, dst),
                              !.open = @ \cup ({inc, dst} \ {NoFD}),
                              !.established = @ \cup ({inc, dst} \ {NoFD}),
                              !.taken[a] = @ + 1]
  BY Zenon, <1>1
<1>3. /\ complete \in BOOLEAN /\ inc \in FDs /\ inc \notin pool.open /\ dst \in FDs \cup {NoFD}
      /\ inc # dst /\ dst \notin pool.open /\ (~complete => dst = NoFD)
      /\ pool.conn[c].stage = "free"
  <2>1. Good(pool, Served(pool)) /\ pool \in PoolType
    BY Zenon DEF Kept, Good
  <2>2. pool.open \in SUBSET FDs
    BY <2>1, PoolFields
  <2> QED BY <2>2, PoolConnAssumption DEF AddConn
<1> DEFINE k == NewConn(complete, a, inc, dst)
           new == {inc, dst} \ {NoFD}
           cn == [pool.conn EXCEPT ![c] = k]
           op == pool.open \cup new
           es == pool.established \cup new
           tk == [pool.taken EXCEPT ![a] = @ + 1]
           S == Served(pool)
<1>4. /\ k \in ConnType /\ k.stage = "piped" /\ k.addr = a /\ k.complete = complete
      /\ k.end["inc"].sock = inc /\ k.end["dst"].sock = dst
      /\ \A s \in Sides : /\ k.end[s].buf = <<>> /\ k.end[s].sent = 0
                          /\ k.rcvd[s] = 0 /\ k.dlvd[s] = 0
  <2>1. NewConnIs(k, complete, a, inc, dst)
    BY Zenon, <1>3, NewConnFields
  <2> HIDE DEF k
  <2> QED BY Zenon, <2>1 DEF NewConnIs
<1> HIDE DEF k
<1>5. Good(pool, S) /\ pool \in PoolType
  BY DEF Kept, Good
<1>6. /\ cn \in [Conns -> ConnType] /\ cn[c] = k /\ \A d \in Conns : d # c => cn[d] = pool.conn[d]
      /\ op \in SUBSET FDs /\ es \in SUBSET FDs /\ tk \in [Addrs -> Int]
      /\ \A b \in Addrs : tk[b] = IF b = a THEN pool.taken[b] + 1 ELSE pool.taken[b]
  <2>1. /\ pool.conn \in [Conns -> ConnType] /\ pool.taken \in [Addrs -> Int]
        /\ pool.open \in SUBSET FDs /\ pool.established \in SUBSET FDs
    BY Zenon, <1>5, PoolFields
  <2>2. cn \in [Conns -> ConnType] /\ cn[c] = k /\ \A d \in Conns : d # c => cn[d] = pool.conn[d]
    BY <1>4, <2>1
  <2>3. op \in SUBSET FDs /\ es \in SUBSET FDs
    BY <1>3, <2>1
  <2>4. /\ tk \in [Addrs -> Int]
        /\ \A b \in Addrs : tk[b] = IF b = a THEN pool.taken[b] + 1 ELSE pool.taken[b]
    BY <2>1
  <2> QED BY <2>2, <2>3, <2>4
<1>7. pool' = [pool EXCEPT !.conn = cn, !.open = op, !.established = es, !.taken = tk]
  <2>1. [pool EXCEPT !.conn = cn].open = pool.open
    BY <1>5 DEF PoolType
  <2>2. [pool EXCEPT !.conn = cn, !.open = op].established = pool.established
    BY <1>5 DEF PoolType
  <2>3. [pool EXCEPT !.conn = cn, !.open = op, !.established = es].taken = pool.taken
    BY <1>5 DEF PoolType
  <2> QED BY <1>2, <2>1, <2>2, <2>3 DEF k
<1> HIDE DEF cn, op, es, tk
<1>8. /\ pool' \in PoolType /\ pool'.conn = cn /\ pool'.open = op /\ pool'.established = es
      /\ pool'.taken = tk /\ pool'.route_map = pool.route_map /\ pool'.epoll = pool.epoll
      /\ pool'.n_conns = pool.n_conns /\ pool'.fd_max = pool.fd_max
      /\ pool'.broken = pool.broken
  BY Zenon, <1>5, <1>6, <1>7 DEF PoolType
<1> DEFINE q == pool'
<1>9. /\ Sk(q, c, "inc") = inc /\ Sk(q, c, "dst") = dst /\ q.conn[c].addr = a /\ IsLive(q, c)
      /\ ~IsLive(pool, c) /\ Ends(pool, c) = {} /\ Ends(q, c) = new
      /\ (~q.conn[c].complete => dst = NoFD) /\ q.conn[c].stage = "piped"
  BY Zenon, <1>3, <1>4, <1>6, <1>8 DEF Sk, IsLive, Ends
<1>10. /\ q.open = (pool.open \ Ends(pool, c)) \cup Ends(q, c)
       /\ \A f \in Ends(q, c) : f \notin pool.open
       /\ q.established \subseteq q.open /\ q.established \subseteq pool.established \cup Ends(q, c)
       /\ NoFD \notin q.established
  <2>1. pool.established \subseteq pool.open
    BY Zenon, <1>5 DEF Good, Known
  <2>2. NoFD \notin es
    BY <1>6, PoolConnAssumption
  <2> QED BY Zenon, <1>3, <1>8, <1>9, <2>1, <2>2 DEF op, es
<1>11. ASSUME NEW b \in Addrs
       PROVE  q.taken[b] = pool.taken[b] + N(Holds(q, c, b)) - N(Holds(pool, c, b))
  <2>1. pool.taken[b] \in Int
    BY <1>5, PoolFields
  <2>2. N(Holds(pool, c, b)) = 0 /\ N(Holds(q, c, b)) = IF b = a THEN 1 ELSE 0
    BY <1>9 DEF Holds, N
  <2> QED BY <1>6, <1>8, <2>1, <2>2
<1>12. c \notin S /\ Served(q) = S
  <2>1. \A d \in Conns : d # c => q.conn[d].stage = pool.conn[d].stage
    BY Zenon, <1>6, <1>8
  <2>2. q.conn[c].stage # "served" /\ pool.conn[c].stage # "served"
    BY <1>3, <1>9
  <2> HIDE DEF q
  <2> QED BY Zenon, <2>1, <2>2 DEF Served
<1>13. Good(q, S)
  <2>1. \A d \in Conns : d # c => q.conn[d] = pool.conn[d]
    BY <1>6, <1>8
  <2> HIDE DEF S, q, new
  <2>2. OutsideStep(pool, q, S, c)
    BY Zenon, <1>3, <1>8, <1>9, <1>10, <1>11, <1>12, <2>1 DEF OutsideStep, q
  <2> QED BY Zenon, <1>5, <2>2, Outside
<1>14. Others(pool, q, c)
  <2>1. \A d \in Conns : d # c => q.conn[d] = pool.conn[d]
    BY <1>6, <1>8
  <2> QED BY Zenon, <1>8, <2>1 DEF Others
<1>15. Unused(q, c)
  <2>1. q.conn[c] = k
    BY <1>6, <1>8
  <2> QED BY Zenon, <1>4, <2>1 DEF Unused
<1> QED BY <1>12, <1>13, <1>14, <1>15 DEF Kept

\* g has the pools of a walk over route_map, from p on through n removals.
Walked(p, fds, n, g) ==
    g = [k \in 0..n |-> IF k = 0 THEN p ELSE pool_remove_conn(g[k - 1], fds[k], FALSE)]

\* A walk starts with the pool there is.
LEMMA WalkStarts ==
    ASSUME NEW p, NEW fds
    PROVE  \E g : Walked(p, fds, 0, g)
<1> DEFINE g == [k \in 0..0 |-> p]
<1>1. \A k \in 0..0 : k = 0
  OBVIOUS
<1>2. g = [k \in 0..0 |-> IF k = 0 THEN p ELSE pool_remove_conn(g[k - 1], fds[k], FALSE)]
  BY Zenon, <1>1
<1> HIDE DEF g
<1> QED BY Zenon, <1>2 DEF Walked

\* Removing no connection changes nothing.
LEMMA WalkNowhere ==
    ASSUME NEW p
    PROVE  RemoveAll(p, <<>>) = p
<1>1. Len(<<>>) = 0 /\ 0 \in 0..0
  OBVIOUS
<1> DEFINE g == CHOOSE h : Walked(p, <<>>, 0, h)
<1>2. RemoveAll(p, <<>>) = g[0]
  BY Zenon, <1>1 DEF RemoveAll, Walked
<1>3. Walked(p, <<>>, 0, g)
  BY Zenon, WalkStarts
<1> HIDE DEF g
<1>4. g[0] = p
  BY Zenon, <1>1, <1>3 DEF Walked
<1> QED BY Zenon, <1>2, <1>4

\* pool_handle_drop_dst() changes nothing: no connection has the address it looks
\* for.
LEMMA DropKept ==
    ASSUME NEW p, NEW a \in Addrs, NEW q \in pool_handle_drop_dst(p, a)
    PROVE  q = p
<1>1. {c \in Served(p) : pool_conn_end_dstaddr(p, c) = a} = {}
  BY PoolConnAssumption DEF pool_conn_end_dstaddr
<1>2. PICK fds \in Walks(p, {}) : q = RemoveAll(p, fds)
  BY <1>1, Zenon DEF pool_handle_drop_dst
<1>3. fds = <<>>
  <2>1. /\ fds \in [1..Cardinality({}) -> FDs]
        /\ \A i \in DOMAIN fds : \E c \in {}, s \in Sides : p.route_map[fds[i]] = <<c, s>>
    BY Zenon DEF Walks
  <2>2. DOMAIN fds = {}
    BY Zenon, <2>1
  <2>3. fds \in [{} -> FDs]
    BY Zenon, <2>1, <2>2
  <2> QED BY <2>3
<1> QED BY Zenon, <1>2, <1>3, WalkNowhere

\* pool_handle_add_conn() keeps the pool in order.
LEMMA AddedKept ==
    ASSUME Kept(pool), NEW c \in Conns, pool.conn[c].stage = "piped",
           NEW q \in pool_handle_add_conn(pool, c)
    PROVE  Kept(q)
<1>1. Served(pool) \ {c} = Served(pool) /\ IsLive(pool, c)
  BY DEF Served, IsLive
<1> QED BY <1>1, AddKept DEF Kept

\* The inductive invariant of the connections.
KeptInv == ~shutdown => Kept(pool)

\* Every step keeps it, but a shutdown, which ends the thread.
LEMMA NextKept ==
    ASSUME ~Early, KeptInv, [Next]_vars
    PROVE  KeptInv'
<1> SUFFICES ASSUME ~shutdown' PROVE Kept(pool')
  BY Zenon DEF KeptInv, Kept, Good, Served, Mapped, Sockets, Balanced, Known, IsLive, Holds, Ends, Sk
<1>1. CASE UNCHANGED vars
  <2>1. ~shutdown /\ pool' = pool
    BY <1>1 DEF vars
  <2> QED BY <2>1 DEF KeptInv
<1>2. CASE Next
  <2>0. ~shutdown /\ Kept(pool)
    <3>1. ~shutdown
      BY Zenon, <1>2 DEF Next, AddConn, pool_fds_wait, HandleRead, HandleWrite, HandleAddConn,
                HandleDropDst, HandleStats, HandleShutdown, Command, Running
    <3> QED BY <3>1 DEF KeptInv
  <2>1. ASSUME NEW c \in Conns, AddConn(c) PROVE Kept(pool')
    BY <2>0, <2>1, AddConnKept
  <2>2. CASE pool_fds_wait \/ HandleStats
    <3>1. pool' = pool
      BY <2>2, Zenon DEF pool_fds_wait, HandleStats, Command
    <3> QED BY <2>0, <3>1
  <2>3. ASSUME NEW fd \in FDs, HandleRead(fd) PROVE Kept(pool')
    <3>1. \/ pool' = pool
          \/ pool.route_map[fd] # <<>> /\ \E r \in pool_handle_read(pool, fd) : pool' = r.pool
      BY <2>3, Zenon DEF HandleRead, Crash
    <3> QED BY <2>0, <3>1, ReadKept
  <2>4. ASSUME NEW fd \in FDs, HandleWrite(fd) PROVE Kept(pool')
    <3>1. \/ pool' = pool
          \/ pool.route_map[fd] # <<>> /\ pool' \in pool_handle_write(pool, fd)
      BY <2>4, Zenon DEF HandleWrite, Crash
    <3> QED BY <2>0, <3>1, WriteKept
  <2>5. ASSUME NEW c \in Conns, HandleAddConn(c) PROVE Kept(pool')
    <3>1. pool.conn[c].stage = "piped" /\ pool' \in pool_handle_add_conn(pool, c)
      BY <2>5, Zenon DEF HandleAddConn, Command
    <3> QED BY <2>0, <3>1, AddedKept
  <2>6. ASSUME NEW a \in Addrs, HandleDropDst(a) PROVE Kept(pool')
    <3>1. pool' \in pool_handle_drop_dst(pool, a)
      BY <2>6, Zenon DEF HandleDropDst, Command
    <3>2. pool' = pool
      BY <3>1, DropKept
    <3> QED BY <2>0, <3>2
  <2>7. ~HandleShutdown
    BY DEF HandleShutdown
  <2> QED BY Zenon, <1>2, <2>1, <2>2, <2>3, <2>4, <2>5, <2>6, <2>7 DEF Next
<1> QED BY <1>1, <1>2

\* What the invariant says of route_map,
LEMMA KeptMap == KeptInv => MapMatches
<1> SUFFICES ASSUME ~shutdown, Kept(pool) PROVE MapMatches
  BY Zenon DEF KeptInv, MapMatches
<1>1. /\ Mapped(pool, Served(pool)) /\ \A c \in Served(pool) : IsLive(pool, c) /\ c \in Conns
      /\ \A c \in Served(pool) : Sk(pool, c, "inc") \in FDs /\ Sk(pool, c, "dst") \in FDs
  BY DEF Kept, Good
<1>2. \A c \in Served(pool), s \in Sides : pool.route_map[Sock(c, s)] = <<c, Other(s)>>
  BY Zenon, <1>1, OtherSides DEF Mapped, Sides, Sk, Sock
<1>3. ASSUME NEW f \in FDs
      PROVE  pool.route_map[f] # <<>> <=> \E c \in Served(pool), s \in Sides : f = Sock(c, s)
  <2>1. ASSUME pool.route_map[f] # <<>>
        PROVE  \E c \in Served(pool), s \in Sides : f = Sock(c, s)
    <3>1. PICK c \in Served(pool), s \in Sides : f = Sk(pool, c, s)
      BY <2>1, MappedEnd
    <3> QED BY <3>1 DEF Sk, Sock
  <2>2. ASSUME NEW c \in Served(pool), NEW s \in Sides, f = Sock(c, s)
        PROVE  pool.route_map[f] # <<>>
    BY <1>2, <2>2
  <2> QED BY <2>1, <2>2
<1> QED BY Zenon, <1>1, <1>2, <1>3 DEF MapMatches, Mapped

\* of the sockets,
LEMMA KeptSockets == KeptInv => SocketsAccounted
<1> SUFFICES ASSUME ~shutdown, Kept(pool) PROVE SocketsAccounted
  BY DEF KeptInv, SocketsAccounted
<1>1. /\ pool \in PoolType /\ Sockets(pool)
  BY DEF Kept, Good
<1>2. /\ pool.open \in SUBSET FDs
      /\ \A c \in Conns, s \in Sides : Sock(c, s) \in FDs \cup {NoFD}
      /\ \A c \in Conns, s \in Sides : Sock(c, s) = Sk(pool, c, s)
  <2>1. \A c \in Conns, s \in Sides : Sk(pool, c, s) \in FDs \cup {NoFD}
    BY <1>1, PoolFields
  <2> QED BY Zenon, <1>1, <2>1, PoolFields DEF Sk, Sock
<1>3. \A c \in Conns : c \in Live <=> IsLive(pool, c)
  BY DEF Live, IsLive
<1>4. \A c \in Conns, f \in FDs :
         f \in Ends(pool, c) <=> c \in Live /\ \E s \in Sides : f = Sock(c, s)
  BY <1>2, <1>3, PoolConnAssumption DEF Ends, Sides
<1>5. pool.open = {Sock(c, s) : c \in Live, s \in Sides} \ {NoFD}
  <2>1. \A f \in FDs : f \in pool.open <=> \E c \in Live, s \in Sides : f = Sock(c, s)
    BY <1>1, <1>4 DEF Sockets, Live
  <2>2. \A c \in Live, s \in Sides : Sock(c, s) # NoFD => Sock(c, s) \in FDs
    BY <1>2 DEF Live
  <2> QED BY <1>2, <2>1, <2>2, PoolConnAssumption
<1>6. ASSUME NEW c \in Live, NEW d \in Live, NEW s \in Sides, NEW t \in Sides,
             Sock(c, s) = Sock(d, t), Sock(c, s) # NoFD
      PROVE  c = d /\ s = t
  <2>1. c \in Conns /\ d \in Conns /\ Sock(c, s) \in FDs
    BY <1>2, <1>6 DEF Live
  <2>2. Sock(c, s) \in Ends(pool, c) /\ Sock(c, s) \in Ends(pool, d)
    BY <1>4, <1>6, <2>1
  <2>3. c = d
    BY <1>1, <2>1, <2>2 DEF Sockets
  <2>4. Sock(c, "inc") # Sock(c, "dst")
    BY <1>1, <1>2, <1>3, <2>1 DEF Sockets, Sides
  <2> QED BY <1>6, <2>3, <2>4 DEF Sides
<1> QED BY <1>5, <1>6 DEF SocketsAccounted

\* and of the router's counts.
LEMMA KeptBalance == KeptInv => RouterBalanced
<1> SUFFICES ASSUME ~shutdown, Kept(pool), NEW a \in Addrs
             PROVE  pool.taken[a] = Cardinality({c \in Live : pool.conn[c].addr = a})
  BY DEF KeptInv, RouterBalanced
<1>1. {c \in Live : pool.conn[c].addr = a} = {c \in Conns : Holds(pool, c, a)}
  BY DEF Live, Holds, IsLive
<1> QED BY <1>1 DEF Kept, Good, Balanced

-----------------------------------------------------------------------------
(* All connections                                                         *)

\* A step of connection c leaves the data of the others in order.
LEMMA OthersOff ==
    ASSUME NEW p, NEW q, NEW S, NEW T, NEW c \in Conns, Good(p, S), Others(p, q, c),
           \A d \in Conns : d # c => (d \in S <=> d \in T), DataOff(p, S, c)
    PROVE  DataOff(q, T, c)
<1> SUFFICES ASSUME NEW d \in Conns, d # c PROVE ConnData(q, T, d)
  BY Zenon DEF DataOff
<1>1. ConnData(p, S, d) /\ q.conn[d] = p.conn[d] /\ (d \in S <=> d \in T)
  BY Zenon DEF DataOff, Others
<1>2. (IsLive(q, d) <=> IsLive(p, d)) /\ \A s \in Sides : Sk(q, d, s) = Sk(p, d, s)
  BY Zenon, <1>1 DEF IsLive, Sk
<1>3. CASE ~IsLive(q, d)
  BY <1>3 DEF ConnData
<1>4. CASE IsLive(q, d) /\ d \notin T
  <2>1. Ordered(p, d) /\ Fresh(p, d) /\ Quiet(p, d)
    BY Zenon, <1>1, <1>2, <1>4 DEF ConnData
  <2>2. Ordered(q, d) /\ Fresh(q, d) /\ Quiet(q, d)
    BY Zenon, <1>1, <2>1 DEF Ordered, Fresh, Quiet
  <2> QED BY Zenon, <1>4, <2>2 DEF ConnData
<1>5. CASE IsLive(q, d) /\ d \in T
  <2>1. Sound(p, d) /\ d \in S
    BY Zenon, <1>1, <1>2, <1>5 DEF ConnData
  <2>2. \A s \in Sides : Sk(p, d, s) \in FDs /\ Sk(p, d, s) \in Ends(p, d)
    BY <1>2, <1>5, <2>1, PoolConnAssumption DEF Good, Ends, Sides
  <2>3. \A s \in Sides : Sk(p, d, s) \in p.open /\ Sk(p, d, s) \notin Ends(p, c)
    BY Zenon, <2>2 DEF Good, Sockets
  <2>4. \A s \in Sides : /\ q.epoll[Sk(p, d, s)] = p.epoll[Sk(p, d, s)]
                         /\ Sk(p, d, s) \in q.broken <=> Sk(p, d, s) \in p.broken
    BY Zenon, <2>2, <2>3 DEF Others
  <2>5. Ordered(q, d) /\ Fresh(q, d) /\ Waits(q, d)
    BY Zenon, <1>1, <2>1 DEF Ordered, Fresh, Waits, Sound
  <2>6. Told(q, d)
    BY Zenon, <1>1, <1>2, <2>1, <2>4 DEF Told, Sound
  <2>7. \A s \in Sides : CanSend(q, d, s)
    BY Zenon, <1>1, <1>2, <2>1, <2>4 DEF CanSend, Sound
  <2>8. \A s \in Sides : CanRead(q, d, s)
    BY Zenon, <1>1, <2>1 DEF CanRead, Sound
  <2>9. Sound(q, d)
    BY Zenon, <2>5, <2>6, <2>7, <2>8 DEF Sound
  <2> QED BY Zenon, <1>5, <2>9 DEF ConnData
<1> QED BY <1>3, <1>4, <1>5

\* So all are in order if c is.
LEMMA OneData ==
    ASSUME NEW p, NEW q, NEW S, NEW T, NEW c \in Conns, Good(p, S), Others(p, q, c),
           \A d \in Conns : d # c => (d \in S <=> d \in T), DataOff(p, S, c), ConnData(q, T, c)
    PROVE  DataOK(q, T)
<1>1. DataOff(q, T, c)
  BY OthersOff
<1> QED BY Zenon, <1>1 DEF DataOK, DataOff

\* All but one are in order if all are.
LEMMA OffOne ==
    ASSUME NEW p, NEW S, NEW c, DataOK(p, S)
    PROVE  DataOff(p, S, c)
BY Zenon DEF DataOK, DataOff

\* The data of all connections is in order between two steps.
DataKept(p) == DataOK(p, Served(p))

\* All but connection c are in order.
AllBut(p, c) == DataOff(p, Served(p), c)

\* What is known of a connection that is served.
LEMMA ServedAt ==
    ASSUME NEW p, NEW c \in Served(p), Kept(p)
    PROVE  /\ c \in Conns /\ At(p, c) /\ (DataKept(p) => Sound(p, c) /\ AllBut(p, c))
           /\ p.conn[c].complete \/ Sk(p, c, "dst") \notin p.established
<1>1. c \in Conns /\ Good(p, Served(p)) /\ IsLive(p, c)
  BY DEF Kept, Good, Served
<1>2. At(p, c)
  BY Zenon, <1>1, ServedReady DEF At, Good, Sockets
<1>3. DataKept(p) => Sound(p, c) /\ AllBut(p, c)
  BY <1>1, OffOne DEF DataKept, DataOK, ConnData, AllBut
<1>4. p.conn[c].complete \/ Sk(p, c, "dst") \notin p.established
  BY <1>1 DEF Good, Known
<1> QED BY <1>1, <1>2, <1>3, <1>4

\* A move of one connection after which that is in order keeps all in order.
LEMMA InsideData ==
    ASSUME NEW p, NEW q, NEW c \in Served(p), Kept(p), AllBut(p, c), Inside(p, q, c), Sound(q, c)
    PROVE  DataKept(q)
<1>1. Served(q) = Served(p) /\ c \in Conns
  BY MovesKept DEF Inside, Served
<1>2. ConnData(q, Served(p), c)
  BY DEF ConnData
<1>3. Good(p, Served(p)) /\ Others(p, q, c) /\ DataOff(p, Served(p), c)
  BY DEF Kept, Inside, AllBut
<1> DEFINE S == Served(p)
<1> HIDE DEF S
<1>4. DataOK(q, S)
  BY <1>1, <1>2, <1>3, OneData DEF S
<1> QED BY <1>1, <1>4 DEF DataKept, S

\* So does a connection removed in full.
LEMMA GoneData ==
    ASSUME NEW p, NEW m, NEW q, NEW c \in Served(p), Kept(p), AllBut(p, c), Inside(p, m, c),
           RemovedIs(m, q, c, TRUE)
    PROVE  DataKept(q)
<1>m. Moves(p, m)
  BY DEF Inside
<1>k. Kept(m) /\ Served(m) = Served(p)
  BY <1>m, MovesKept
<1>1. Served(m) = Served(p) /\ c \in Conns /\ Kept(m) /\ m \in PoolType
  BY Zenon, <1>m, <1>k DEF Served, Moves
<1>2. m.conn \in [Conns -> ConnType] /\ IsLive(m, c)
  BY Zenon, <1>1, PoolFields DEF Kept, Good
<1>3. q.conn[c] = NoConn /\ \A d \in Conns : d # c => q.conn[d] = m.conn[d]
  BY <1>1, <1>2 DEF RemovedIs
<1>4. ~IsLive(q, c) /\ Served(q) = Served(m) \ {c}
  BY <1>3, NoConnHas DEF IsLive, Served, NoConnFields
<1>5. Others(m, q, c)
  <2>1. \A f \in FDs : f \in m.open /\ f \notin Ends(m, c) =>
                         f \notin {Sk(m, c, "inc"), Sk(m, c, "dst")}
    BY <1>2, PoolConnAssumption DEF Ends
  <2>2. /\ \A f \in FDs : q.epoll[f] = IF f \in {Sk(m, c, "inc"), Sk(m, c, "dst")}
                                       THEN Off ELSE m.epoll[f]
        /\ q.broken = m.broken \ {Sk(m, c, "inc"), Sk(m, c, "dst")}
    BY Zenon DEF RemovedIs
  <2> QED BY <1>3, <2>1, <2>2 DEF Others
<1>6. Others(p, q, c)
  BY <1>1, <1>5, OthersTrans
<1> DEFINE S == Served(p)
           T == S \ {c}
<1>7. Good(p, S) /\ DataOff(p, S, c) /\ \A d \in Conns : d # c => (d \in S <=> d \in T)
  BY DEF Kept, AllBut
<1>8. ConnData(q, T, c)
  BY <1>4 DEF ConnData
<1> HIDE DEF S, T
<1>9. DataOK(q, T)
  BY <1>1, <1>6, <1>7, <1>8, OneData
<1> QED BY <1>1, <1>4, <1>9 DEF DataKept, S, T

\* pool_send_data() from a state in which end s may have more to send than epoll
\* has been told.
LEMMA SendEither ==
    ASSUME ~Early, NEW p, NEW m, NEW c \in Served(p), NEW s \in Sides, NEW src \in BOOLEAN,
           Kept(p), AllBut(p, c), Inside(p, m, c), Sending(m, c, s),
           NEW r \in pool_send_data(m, c, s, src)
    PROVE  IF r.ret = "EPIPE" THEN DataKept(r.pool)
           ELSE SendDone(m, r.pool, c, s, src) /\ Inside(p, r.pool, c)
<1>1. c \in Conns /\ At(p, c)
  BY ServedAt
<1>2. /\ Kept(m) /\ c \in Served(m) /\ At(m, c)
      /\ m.conn[c].complete \/ Sk(m, c, "dst") \notin m.established
  <2>1. Moves(p, m)
    BY DEF Inside
  <2>2. Kept(m) /\ c \in Served(m) /\ At(m, c)
    BY <1>1, <2>1, MovesKept, InsideEnds
  <2>3. Good(m, Served(m)) /\ IsLive(m, c)
    BY <2>2 DEF Kept, At
  <2> QED BY Zenon, <1>1, <2>2, <2>3 DEF Good, Known
<1>3. CASE r.ret # "EPIPE"
  <2>1. SendDone(m, r.pool, c, s, src)
    BY <1>1, <1>2, <1>3, SendData
  <2>2. Inside(m, r.pool, c)
    BY <2>1 DEF SendDone
  <2>3. Inside(p, r.pool, c)
    BY <1>1, <2>2, InsideTrans
  <2> QED BY <1>3, <2>1, <2>3
<1>4. CASE r.ret = "EPIPE"
  <2>1. (s = "inc" \/ m.conn[c].complete) /\ r.pool = pool_remove_conn(m, Sk(m, c, s), TRUE)
    BY Zenon, <1>1, <1>2, <1>4, SendMoves DEF At
  <2>2. RemovedIs(m, r.pool, c, TRUE)
    BY Zenon, <1>2, <2>1, RemoveIs
  <2>3. DataKept(r.pool)
    BY Zenon, <2>2, GoneData
  <2> QED BY <1>4, <2>3
<1> QED BY <1>3, <1>4

-----------------------------------------------------------------------------
(* The handlers and the data                                               *)

\* The least of two numbers.
LEMMA MinOfTwo ==
    ASSUME NEW a \in Int, NEW b \in Int
    PROVE  Min({a, b}) \in Int /\ Min({a, b}) <= a
<1>1. \E x \in {a, b} : \A y \in {a, b} : x <= y
  OBVIOUS
<1>2. Min({a, b}) \in {a, b} /\ \A y \in {a, b} : Min({a, b}) <= y
  BY <1>1 DEF Min
<1> QED BY <1>2

\* recv() returns no more than fits into the buffer.
LEMMA RoomLeft ==
    ASSUME NEW p \in PoolType, NEW c \in Conns, NEW s \in Sides, NEW k \in 1..Room(p, c, s)
    PROVE  k \in Nat \ {0} /\ k <= BufSize - Len(p.conn[c].end[s].buf)
<1> DEFINE a == BufSize - Len(p.conn[c].end[s].buf)
           b == MaxBytes - p.conn[c].rcvd["inc"] - p.conn[c].rcvd["dst"]
<1>1. /\ p.conn[c].end[s].buf \in Seq(Nat) /\ p.conn[c].rcvd \in [Sides -> Nat]
      /\ BufSize \in Nat /\ MaxBytes \in Nat
  BY DataFields, PoolConnAssumption
<1>2. p.conn[c].rcvd["inc"] \in Nat /\ p.conn[c].rcvd["dst"] \in Nat
  BY <1>1 DEF Sides
<1>3. a \in Int /\ b \in Int
  <2>1. Len(p.conn[c].end[s].buf) \in Nat
    BY Zenon, <1>1, LenNat
  <2> QED BY Zenon, <1>1, <1>2, <2>1, Amounts
<1>4. Room(p, c, s) = Min({a, b})
  BY DEF Room
<1> HIDE DEF a, b
<1>5. Room(p, c, s) \in Int /\ Room(p, c, s) <= a
  BY <1>3, <1>4, MinOfTwo
<1>6. k \in Nat \ {0} /\ k <= a
  BY <1>3, <1>5
<1> QED BY <1>6 DEF a

\* Bytes have come for end s: they are passed on or wait, and their source is read
\* again only while there is room.
LEMMA ReadSound ==
    ASSUME ~Early, NEW p, NEW c \in Served(p), NEW s \in Sides, Kept(p), DataKept(p),
           Usable(p, c, Other(s)), Len(p.conn[c].end[s].buf) # BufSize,
           NEW k \in 1..Room(p, c, s), NEW r \in ReadData(p, c, s, k)
    PROVE  DataKept(r.pool)
<1> DEFINE t == Other(s)
           p1 == Received(p, c, s, k)
<1>1. /\ c \in Conns /\ At(p, c) /\ Sound(p, c) /\ p \in PoolType /\ AllBut(p, c)
      /\ p.conn[c].complete \/ Sk(p, c, "dst") \notin p.established
  <2>1. /\ c \in Conns /\ At(p, c) /\ Sound(p, c) /\ AllBut(p, c)
        /\ p.conn[c].complete \/ Sk(p, c, "dst") \notin p.established
    BY ServedAt
  <2> QED BY <2>1 DEF At, Ready
<1>2. t \in Sides /\ t # s /\ Other(t) = s /\ \A u \in Sides : u = s \/ u = t
  BY BothSides
<1>3. s = "dst" \/ p.conn[c].complete
  BY <1>1, <1>2 DEF Usable, Sk, Sides
<1>4. /\ Told(p, c) /\ Ordered(p, c) /\ Fresh(p, c) /\ Waits(p, c)
      /\ CanSend(p, c, t) /\ CanRead(p, c, s) /\ CanRead(p, c, t)
  BY Zenon, <1>1, <1>2 DEF Sound
<1>5. BufferIs(p, p1, c, s)
  BY Zenon, <1>1, <1>3, <1>4, RoomLeft, ReceivedIs
<1>6. "R" \in p.conn[c].end[t].events
  BY Zenon, <1>2, <1>3, <1>4 DEF CanRead, Sides
<1> HIDE DEF p1, t
<1>7. Inside(p, p1, c) /\ Sending(p1, c, s) /\ "R" \in p1.conn[c].end[t].events
  <2>1. \A u \in Sides : Sk(p1, c, u) = Sk(p, c, u)
    BY Zenon, <1>1, <1>5, InsideEnds DEF BufferIs, Inside
  <2>2. CanSend(p1, c, t)
    BY Zenon, <1>2, <1>4, <1>5, <2>1 DEF CanSend, BufferIs
  <2>3. CanRead(p1, c, s)
    <3>1. p1.conn[c].end[t].buf = p.conn[c].end[t].buf
      BY Zenon, <1>2, <1>5 DEF BufferIs
    <3> QED BY Zenon, <1>4, <1>5, <3>1 DEF CanRead, BufferIs, t
  <2>4. Waits(p1, c)
    BY Zenon, <1>4, <1>5 DEF Waits, BufferIs, Sides
  <2>5. "R" \in p1.conn[c].end[t].events
    BY Zenon, <1>2, <1>5, <1>6 DEF BufferIs
  <2> QED BY Zenon, <1>5, <2>2, <2>3, <2>4, <2>5 DEF Sending, BufferIs, t
<1>8. PICK x \in pool_send_data(p1, c, s, FALSE) :
        r = IF x.ret = "EPIPE" THEN [pool |-> x.pool, ret |-> "fail"]
            ELSE [pool |-> StopIfFull(x.pool, c, s), ret |-> "ok"]
  BY Zenon DEF ReadData, p1
<1>9. CASE x.ret = "EPIPE"
  <2>1. DataKept(x.pool)
    BY Zenon, <1>1, <1>7, <1>9, SendEither
  <2>2. r.pool = x.pool
    BY <1>8, <1>9
  <2> QED BY <2>1, <2>2
<1>10. CASE x.ret # "EPIPE"
  <2> DEFINE q == x.pool
             z == StopIfFull(q, c, s)
             ev == q.conn[c].end[t].events
             e1 == IF Len(q.conn[c].end[s].buf) = BufSize THEN ev \ {"R"} ELSE ev
  <2>1. SendDone(p1, q, c, s, FALSE) /\ Inside(p, q, c)
    BY Zenon, <1>1, <1>7, <1>10, SendEither
  <2>2. r.pool = z
    BY <1>8, <1>10
  <2> HIDE DEF q
  <2>3. /\ Told(q, c) /\ Ordered(q, c) /\ Fresh(q, c) /\ Waits(q, c)
        /\ CanSend(q, c, t) /\ CanRead(q, c, s) /\ CanSend(q, c, s)
        /\ ev = p1.conn[c].end[t].events
    BY <2>1 DEF SendDone, Sending, t
  <2>4. At(q, c)
    BY Zenon, <1>1, <2>1, InsideEnds DEF Inside
  <2>5. EventsSet(q, z, c, t, e1)
    BY Zenon, <1>1, <2>3, <2>4, StopIfFullIs DEF t
  <2> HIDE DEF z, e1
  <2>6. EventsData(q, z, c)
    BY Zenon, <1>1, <2>3, <2>5, EventsKeepData
  <2>7. Inside(p, z, c) /\ \A u \in Sides : Sk(z, c, u) = Sk(q, c, u)
    <3>1. Inside(q, z, c) /\ Moves(q, z)
      BY Zenon, <2>6 DEF EventsData, Inside
    <3>2. Inside(p, z, c)
      BY Zenon, <1>1, <2>1, <3>1, InsideTrans
    <3>3. \A u \in Sides : Sk(z, c, u) = Sk(q, c, u)
      BY Zenon, <1>1, <3>1, InsideEnds
    <3> QED BY <3>2, <3>3
  <2>8. z.conn[c].end[t].events = e1 /\ z.conn[c].end[s].events = q.conn[c].end[s].events
    BY Zenon, <1>2, <2>5 DEF EventsSet
  <2>9. CanSend(z, c, s) /\ CanSend(z, c, t)
    BY Zenon, <1>2, <2>3, <2>6, <2>7, <2>8 DEF CanSend, EventsData, e1
  <2>10. CanRead(z, c, s)
    BY Zenon, <1>2, <2>3, <2>6, <2>8 DEF CanRead, EventsData, t
  <2>11. CanRead(z, c, t)
    BY Zenon, <1>2, <1>7, <2>3, <2>6, <2>8 DEF CanRead, EventsData, e1
  <2>12. Waits(z, c)
    BY Zenon, <1>2, <2>3, <2>6, <2>8 DEF Waits, EventsData, e1, Sides
  <2>13. Sound(z, c)
    <3>1. \A u \in Sides : CanSend(z, c, u) /\ CanRead(z, c, u)
      BY Zenon, <1>2, <2>9, <2>10, <2>11
    <3> QED BY Zenon, <2>6, <2>12, <3>1 DEF Sound, EventsData
  <2> QED BY Zenon, <1>1, <2>2, <2>7, <2>13, InsideData
<1> QED BY <1>9, <1>10

\* pool_handle_read() keeps the data in order.
LEMMA ReadKeepsData ==
    ASSUME ~Early, NEW p, Kept(p), DataKept(p), NEW fd \in FDs, p.route_map[fd] # <<>>,
           NEW r \in pool_handle_read(p, fd)
    PROVE  DataKept(r.pool)
<1>1. PICK c \in Served(p), t \in Sides : fd = Sk(p, c, t) /\ p.route_map[fd] = <<c, Other(t)>>
  BY MappedEnd
<1> DEFINE s == Other(t)
<1>2. /\ c \in Conns /\ s \in Sides /\ Other(s) = t /\ p \in PoolType /\ AllBut(p, c)
      /\ p.conn[c].complete \/ Sk(p, c, "dst") \notin p.established
  <2>1. At(p, c) /\ AllBut(p, c)
    BY ServedAt
  <2> QED BY <2>1, ServedAt, BothSides DEF At, Ready
<1> HIDE DEF s
<1>3. CASE Usable(p, c, Other(s)) /\ r.pool = pool_remove_conn(p, fd, TRUE)
  <2>1. t = "inc" \/ p.conn[c].complete
    BY <1>2, <1>3 DEF Usable, Sk, Sides
  <2>2. RemovedIs(p, r.pool, c, TRUE)
    BY Zenon, <1>1, <1>3, <2>1, RemoveIs
  <2>3. Inside(p, p, c)
    BY <1>2, InsideSame
  <2> QED BY Zenon, <1>2, <2>2, <2>3, GoneData
<1>4. \/ r.pool = p
      \/ Usable(p, c, Other(s)) /\ r.pool = pool_remove_conn(p, fd, TRUE)
      \/ /\ Len(p.conn[c].end[s].buf) # BufSize /\ Usable(p, c, Other(s))
         /\ \E k \in 1..Room(p, c, s) : r \in ReadData(p, c, s, k)
  BY Zenon, <1>1, ReadCases DEF s
<1> QED BY Zenon, <1>2, <1>3, <1>4, ReadSound

\* So does sending what waits.
LEMMA SendEndData ==
    ASSUME ~Early, NEW p, NEW m, NEW c \in Served(p), NEW s \in Sides, Kept(p), AllBut(p, c),
           Inside(p, m, c), Sending(m, c, s), CanRead(m, c, Other(s)), NEW q \in SendEnd(m, c, s)
    PROVE  DataKept(q)
<1>1. \A u \in Sides : u = s \/ u = Other(s)
  BY BothSides
<1>2. CASE m.conn[c].end[s].buf = <<>>
  <2>1. q = m
    BY Zenon, <1>2 DEF SendEnd
  <2>2. CanSend(m, c, s)
    BY <1>2 DEF CanSend
  <2>3. \A u \in Sides : CanSend(m, c, u) /\ CanRead(m, c, u)
    BY Zenon, <1>1, <2>2 DEF Sending
  <2>4. Sound(m, c)
    BY Zenon, <2>3 DEF Sound, Sending
  <2> QED BY Zenon, <2>1, <2>4, InsideData
<1>3. CASE m.conn[c].end[s].buf # <<>>
  <2>1. PICK r \in pool_send_data(m, c, s, TRUE) : q = r.pool
    BY Zenon, <1>3 DEF SendEnd
  <2>2. CASE r.ret = "EPIPE"
    BY Zenon, <2>1, <2>2, SendEither
  <2>3. CASE r.ret # "EPIPE"
    <3>1. SendDone(m, q, c, s, TRUE) /\ Inside(p, q, c)
      BY Zenon, <2>1, <2>3, SendEither
    <3>2. \A u \in Sides : CanSend(q, c, u) /\ CanRead(q, c, u)
      BY Zenon, <1>1, <3>1 DEF SendDone, Sending
    <3>3. Sound(q, c)
      BY Zenon, <3>1, <3>2 DEF Sound, SendDone, Sending
    <3> QED BY Zenon, <3>1, <3>3, InsideData
  <2> QED BY <2>2, <2>3
<1> QED BY <1>2, <1>3
=============================================================================
